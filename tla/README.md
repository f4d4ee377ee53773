# Verification of Swarmchestrate

TLA+ models of the Resource Lead Agent (RLA) and the Resource Agent (RA) of this repository, the TLC runs that
check them, and TLAPS proofs. Paths below are relative to `src/`. Short names: `service.go` of the RLA is
`resource-lead-agent/resource-lead-agent/service.go`, of the RA `resource-agent/resource-agent/service.go`.

## 1. The system

| Component | State it keeps | Operations |
|---|---|---|
| Knowledge base (PostgreSQL) | tables `clusters`, `nodes`, `applications` | row insert, fetch, save, delete; no transactions or version columns (`external/kb/`) |
| RLA handlers (`service.go`, `internal/rest/`) | none of their own | create, update, delete, list applications; status reports; offers to a cluster; registration; node reports |
| RLA loop (`cmd/root.go:102-131`) | a WaitGroup | each interval `SchedulePendingApps` and `HandleStalledApps`, at the same time |
| Raft wrapper (`algo/raft/raft.go`) | the word `leader` | `Process`, `processMessages`, tick, `IsLeader`, `GetLeaderID`, HTTP transport |
| Borda scorer (`algo/borda/borda.go`) | none | the cluster and nodes for one service, or none |
| Request forwarding (`internal/rest`, `external/leader`) | none | a follower sends writes to the RLA it believes leads, which does the same in turn |
| Node inventory (`CollectNodeInfo`, `UpsertNodes`, `fetchNodes`) | table `nodes` | agents report, the RLA stores node by node, the scheduler reads cluster by cluster |
| Raft storage (`serveChannels` and what it calls) | WAL, snapshot files, in-memory log, applied index | handle one Ready after the other; restart from files |
| RA (`resource-agent/`) | ConfigMaps `self`, `clusters`, `applications`; the namespaces it creates | register; each interval `SyncClusterConfig`, `SendNodeInfo`, `DeployScheduledJobs`, `SendApplicationStatus`, at the same time |

How they interact: every RLA works on the one database. RAs poll an RLA over HTTP, never the other way round. An
offer (`GetClusterScheduledApps`) is an application placed on the polling cluster that has no status there. The RA
applies it and reports; the report sets status and heartbeat in the row; the loop takes the placement away when
the heartbeat gets old. A 404 answer to a report makes the RA clean up. Raft is used for one thing only, the cached
leader id, which guards writes and the loop; nothing is ever proposed to the log.

What is hard in it, and what makes it correct:

* **Whole rows are read, changed and saved** by handlers and by both goroutines of the loop, on one or several
  RLAs, with no lock between. A status must always belong to the placement and version beside it; the nullable
  columns that are dereferenced must be set; deletes and updates must not be undone.
* **The leader cache** is written by any heartbeat. It must hold only nodes that won an election, come to hold the
  leader when elections end, and a term must have one winner across restarts.
* **RA goroutines** of one tick share namespaces and a ConfigMap, act on answers that are old, and may be stopped
  between any two Kubernetes or HTTP calls. Reports must be of what was applied, old offers must not overwrite new
  ones, offers must be answered, what is gone must be forgotten, what is expected must stay.
* **Registration** runs on two agents of a site that share one address (UNIQUE) and one ConfigMap, through a leader
  that may change or be unknown. It must end, and `self` must be true of the table.
* **Requests are forwarded** along caches that may point at each other, with no hop count; once one RLA leads and all
  know it, a request must end, and at the leader.
* **Raft's files** are written one after the other, with a process that may die between any two and errors nobody
  looks at. What was acknowledged or applied must be on disk, and what is on disk must be enough to start again.
* **Node reports** are stored row by row, may overtake each other, and are never deleted. What is stored must come to
  be what the newest report says, and what is gone must leave the placements.
* **The scorer** sorts one list seven times and compares floating-point sums with their average. Which nodes it
  leaves out must have to do with the nodes.
* **Scheduling** must not place half an application, and pending and stalled services must not be left so.

`PROJECT.json` lists every component and every hazard at its line.

## 2. Modules

| Module | Models | State and actions |
|---|---|---|
| `AppRow` | a row of `applications` and every function from row to row of the RLA's `service.go` | constant operators: `NewRow`, `UpdateRow`, `ReportRow`/`Verdict`, `EvictTier`/`SweptRow`, `PlaceRow`, `OfferedTo` |
| `LeadAgent` | several RLAs on one table; `Registry`, the mapping to `AppRegistry` | `kb` is the table; `phase` and `todo` are what each goroutine does and the rows it has read, changed and not saved. `UpdateRead`, `StatusRead`, `SchedulePendingApps`, `HandleStalledApps` read; `Save`/`SaveFails` write one row each; `Tick`, `Skip` are the loop; `Crash`, `SweepPanics`, `Restart`, `LeaderMoves` the processes |
| `AppRegistry` | the abstract specification: rows change by whole operations, deletes are final, versions grow, placements are complete | `Create`, `Update`, `Report`, `Place`, `Evict`, `Delete` |
| `LeaderCache` | `raft.go` around the Raft library | `cache` is `RaftNode.leader`; `Process`, `SendHeartbeats`, `Crash` are the wrapper; `Campaign`, `Win`, `StepVote`, `StepOther` and `Heard` the library (external) |
| `ResourceAgent` | RAs against rows of the table | `records` is the ConfigMap `applications`, `running` the namespaces, `form` what users wrote of an application (name, labels or none, the addresses its manifests ask for), `due`/`jobs`/`reports` the tasks and goroutines of a tick; one action per remote call of a goroutine, and the two panics: `OffersPanic` in the RLA, `ApplyPanics` in the agent |
| `Forwarding` | `forwardToLeader` and the handlers that begin with it, over the caches of `LeaderCache`, which it EXTENDS | `at` and `stage` follow one request of each client: `Request`, `Handle`, `Forward`, `Answer`, and what fails |
| `RaftLoop` | the storage half of `raft.go`: `serveChannels`, `saveSnap`, `publishSnapshot`, `entriesToApply`, `publishEntries`, `maybeTriggerSnapshot`, `openWAL`, `replayWAL`, `startRaft`, `processMessages` | `waldir` is the WAL's directory until there is a WAL in it, `wal`/`flushed`/`files` are the disk, `mem`/`applied`/`snapshotIndex`/`confState` the process, `rd`/`step` the Ready in hand, `lib` the library (external), `promise` what the peers were told |
| `Scorer` | `borda.go` | constant operators: `Ahead` (the list after the k-th sort), `Points`, `Scores`, `Kept`, `Best`, and `ScoreNodes`, the set of answers `ScoreAndFilterNodes` may give |
| `Inventory` | `CollectNodeInfo`, `SendNodeInfo`, `UpsertNodes`, `fetchNodes`, `FilterEligibleNodes`, and the call of `Scorer` | `table` is the table of nodes; `requests` are the reports on their way to it, `list` what the scheduler has read so far, `answer` its pick |
| `Registration` | both `RegisterCluster`, `CreateCluster`/`UpdateCluster`/`DeleteCluster`, forwarding, `SyncClusterConfig` | `clusters`, `self`, `cache`, `conf`; `addressed` are the sites whose LoadBalancer has its address; `state`/`at`/`asks`/`row` follow one attempt of each agent, `edit` a user's PATCH between its read and its save |
| `AppRowProofs`, `LeadAgentProofs`, `RegistryProofs`, `LeaderCacheProofs`, `ResourceAgentProofs`, `RegistrationProofs`, `RaftLoopProofs`, `InventoryProofs` | theorems of `AppRow`, `LeadAgent` (two modules), `LeaderCache` with `Forwarding`, `ResourceAgent`, `Registration`, `RaftLoop`, and `Inventory` with `Scorer` | |
| `MC*` | model values, the cluster tiers, symmetry, the worlds of `Inventory` | |

`LeadAgent` and `ResourceAgent` both build on `AppRow`, so one translation of the row functions serves both.
`LeadAgent` shows what overlapping operations on the rows do; `ResourceAgent` takes them one at a time and looks at
the agents instead. `LeaderCache` shows what the cache may hold and `Forwarding` what requests do on it; `LeadAgent`
(`believers`) and `Registration` (`cache`) let it hold anything at any time, which is weaker than what `LeaderCache`
allows. `LeaderCache` takes a restart that keeps the log directory to keep term and vote; that this is so is what
`RaftLoopProofs` proves (`RestartSafe`, `AcksSafe`). `Inventory` runs `Scorer` on what it stores.

What is abstracted. A manifest is present or absent, a version uuid is a fresh number, a node list comes and goes
with its cluster. `status.from` and `status.ver` are history for the properties: nothing decides on them. Handlers
that are one SQL statement are one step. QoS, name and labels come together in a request, as the REST form sets
them. Of the labels it matters in `ResourceAgent` whether there are any, and of a manifest which tiers' addresses its
ConfigMaps ask for. There the deletion of a namespace is one step (Kubernetes does it in the background) and time is
left out: any heartbeat may be found old by `Sweep`. `LeadAgent` and `ResourceAgent` keep an oracle for the scorer:
any cluster of the tier, or none; that the scorer answers nothing else is proved (`PickIsEligible`).

In `Registration` a site's address does not change, so a user's PATCH changes the type only; a site has at most two
rows one after the other, with ids 1 and 2; the round-robin index of the RA stays 0, because `resource-leads` never
has a second entry; a DELETE the foreign keys refuse is one nobody asked for. A LoadBalancer gets its address once
and keeps it, and it is an IP: one with a host name only, for which the code would store the empty address, is left
out. `Hear` lets the Raft cache change at will.

In `RaftLoop` nothing is proposed, so an entry is its term, and the log holds the configuration entries at its head
and one empty entry per election. `parent`, fixed at the start and any function to earlier terms, says which entry
comes before a term's: Raft's log matching, which the library keeps, is that every peer has the same one before it, so
an entry has one place in the log. `ReadAll` is stated by what it returns (of each index the last record counts)
instead of record by record. Of the WAL's creation the model has what `openWAL` makes of it: `wal.Create` writes to a
directory of its own, removes the empty one and renames, so a death in it leaves the empty one or none. The process
may die at any step, with what the WAL has not flushed; the disk itself does not fail. In `Inventory` measurements
stay what they are; what changes is whether a node is fit, or there. A failed look-up and a failed store of a node
leave the same rows and are one action. What `FilterEligibleNodes` leaves keeps its place in the list, so the scorer's
list is a function on some places; only their order counts there. In `Scorer` weights are in tenths, of either sign:
only an update validates them (`dto/application.go:55`), the creation of an application does not (`:38`). Measurements
are numbers, and a tier has at most twelve nodes (beyond, `sort.Slice` is not stable). Floating point is a choice: a
node whose exact score is the average may come out on either side when a weight is not a half.

## 3. Runs

A constant named `Max...` is a bound of the model, not of the code.

| Run | Bounds | Shows |
|---|---|---|
| `serial` | 2 RLAs that believe what they like, cloud and fog services, 3 clusters, 2 versions, 2 clock ticks, 1 operation in flight | the RLAs implement `AppRegistry` (`RegistrySpec`); `DeleteIsFinal`, `NoPartialPlacement`, `VersionsMoveForward` |
| `liveness` | 1 RLA, 2 cloud clusters, timeout 1, 3 clock ticks, 2 versions, 2 in flight, crashes and failing saves | `TypeOK`, `StatusIsOfThisPlacement`, `NoNilColumnIsRead` whatever overlaps; `PendingIsPlaced`, `SilentCloudIsRequeued` |
| `leader` | 2 RLAs, 2 terms, 2 crashes, 16 messages in flight, 1 request | `FwdTypeOK`, `KnownLeaderWasElected`, `OneLeaderPerTerm`; `CachesSettle`, `RequestsEnd`, `LeaderServesInTheEnd` |
| `storage` | 2 peers, `SnapCount` 1, 3 terms, 3 entries, 1 crash once there is a WAL, any number before | `TypeOK`, `RestartIsPossible`, `AcksSurvive`, `AppliedIsOnDisk`, `NoFatalStop`, `SnapshotsNameEveryPeer`; `CommittedIsApplied` |
| `inventory` | 4 worlds of 2 clusters, timeout 0 | `TypeOK`; `InventoryMovesForward`, `InventoryCatchesUp`, `GoneNodesLeave`; `EmptyAnswerIsATie`, `BetterNodeIsNotLeftOut` of the scheduler's answers |
| `moves` | 2 cloud clusters, 1 application, 1 name, 2 versions, 1 fault | `TypeOK`, `ReportedWasApplied`, `RolloutsMoveForward` while the application moves |
| `settles` | 1 cluster, 2 applications of one name, the first in one of three forms: as it should be, without labels, or asking for the address of a tier it is not in; 2 versions, 1 fault | `OfferIsAnswered`, `GoneIsForgotten`, `GoneIsDeleted` |
| `attempts` | 2 sites: an RLA, and an RLA with an RA whose LoadBalancer gets its address late; 2 faults; users delete the row of the second site once and edit it once | `TypeOK`, `SelfIsInTable`, `ServingLeadIsListed`, `RegistrationCompletes` |

Why the bounds are enough for what the runs claim. A row is only ever compared with its own columns and with one
report, so one application and two clusters of a tier reach every comparison; two versions give an old and a new one.
Two operations in flight cover every pair of reads and saves; that three or more change nothing is proved (section 4).
Two clock ticks make a heartbeat old with timeout 0; `liveness` uses 1 so that a heartbeat can also be young. That
several RLAs which all believe they lead keep `StatusIsOfThisPlacement` and `NoNilColumnIsRead` is proved, so the run
has one. Two terms give a deposed leader and its successor; with 2 RLAs a quorum is both, and that smaller quorums do
no harm is proved too (the `amnesia` run has 3). `SnapCount` 1 with 3 entries gives a second snapshot, a compaction
that the first one's files precede, and a peer that is far enough behind to be sent a snapshot; the code's 10000
changes nothing but when. One crash reaches every point of the loop, its recovery included; the invariants alone were
also checked with 4 entries (800 000 states), and are proved for any number of peers, entries, terms and crashes. The
worlds of `inventory` have a node that becomes unfit, one that goes, an agent that stops, two reports of one cluster
under way at once, scores that are equal before rounding, and a negative weight, with which both properties of the
scorer are false: they are about the other worlds. In `attempts` the second site has both agents, the one
constellation where they share an address and a ConfigMap, and each user request meets every step of theirs. A fault
is a crash, a failed Kubernetes call or a lost answer; two of them, in `attempts`, make a failure during the recovery
of another. In `settles` two applications of one name reach every way in which one takes the record of the other; with
the second they leave room for one fault, and the deaths that `ApplyPanics` makes come on top and are not bounded. No
run changes a name, which would multiply the states once more: what `ReportedWasApplied` and `RolloutsMoveForward` say
of renames is proved only. `serial` has one operation in flight by intention: what overlapping operations may break is
in `liveness`, `lost_delete` and `nil_status`. `edge` is never placed in the runs; its code is that of `fog`, line by
line, and the theorems cover all three tiers.

Deadlock is checked except in `leader`, `amnesia` and `storage`: there the bounds on terms, crashes, messages and
entries stop the system, which goes on electing in reality; in `storage` the loop may also be blocked for good on
`commitC`, or the peer be unable to start (below).

### Disagreements

Four are runs that must fail, each with one property and a finding in `PROJECT.json`.

| Run | What the code does |
|---|---|
| `lost_delete` | gorm's `Save` inserts a row whose UPDATE finds nothing: a row read before `DeleteApplication` and saved after it is back. For the same reason a row read before an update and saved after it takes the update back, manifest and version with it (`VersionsMoveForward` holds in `serial` only) |
| `nil_status` | the fog and edge tests of `HandleStalledApps` read `*CloudSvcStatus`, nil after the cloud test reset it or without a cloud service: the RLA dies, and dies again at each tick |
| `amnesia` | the WAL directory is relative to the working directory, not on the mounted volume: a new container votes again in a term it has voted in |
| `live_deleted` | `Cleanup` acts on an old 404 while the other goroutine deploys the application that was placed back |

The others were met while modelling and follow from the definitions at sight, or from a condition in a property:

* The same slip as in `nil_status` exempts a silent fog or edge service from the sweep while the *cloud* service is
  progressing (`Evictable`).
* `GetClusterScheduledApps` looks up the address of every present service, placed or not; with a nil id `FetchOne`
  has no condition, so the offer carries the address of the first cluster of the table (not modelled).
* A deposed leader goes on believing until it hears a heartbeat, and a late heartbeat of an old term is believed
  too: several RLAs may schedule at once. What still holds then is proved (section 4).
* `Healths`: a record whose namespace is gone is reported healthy, and is then not offered again.
* `ApplyFails`: a partly failed deployment is not recorded, so it is never cleaned up (`GoneIsDeleted` speaks of
  recorded ones). So is what is deployed between the two halves of a `Cleanup` (`AtRest`).
* `AnswerLost`: a row stored without `self` being written blocks the address until a user deletes it (`Stuck`, which
  `RegistrationCompletes` assumes not to last).
* While the LoadBalancer of its site has no address, `RegisterCluster` of an RLA returns the `err` of the call before,
  which is nil (`service.go:113-115`): the register loop ends and the RLA serves, with no row and no `self`, until it is
  restarted (`Registered`, state "unregistered"). It may lead all the same, and then the others find no cluster for
  its `raft_id`, read the address of nil (`service.go:193`) and die at each attempt. `ServingLeadIsListed` says which
  RLAs these are; `RegistrationCompletes` assumes that in the end there are none. The RA's code of the same lines
  makes an error and tries again.
* `UpdateCluster` reads the row of a site and saves all of it. A user's DELETE in between is undone; a user's PATCH
  read before takes role and `raft_id` back from the RLA that has just registered. And a site whose row a user deletes
  while it has `self` never gets another: the RA goes on without, the RLA's update is answered nil, whose `Role` is
  read (`service.go:168`), at each attempt. `RegistrationCompletes` excludes both (`Lost`).
* `openWAL` makes the directory and then has `wal.Create` fill it. A process that dies between the two, or in
  `wal.Create` before that has removed the directory, leaves one in which `wal.Exist` sees no WAL, and `os.Mkdir` fails on
  it at every later start (`raft.go:240-242`, `log.Fatalf`): `waldir` is "left" for good. `RestartIsPossible` therefore
  speaks of peers that have a WAL. (As deployed, the directory goes with the container, which is the case of `amnesia`.)
* The errors of `saveSnap` and `wal.Save` are ignored (`raft.go:485`, `:487`): with a disk that fails, a peer
  acknowledges what it does not have. `RaftLoop` has no failing disk.
* `publishSnapshot` sends on `commitC`, which nobody reads: an RLA that is sent a snapshot blocks its Raft loop
  (`step` "blocked"). `CommittedIsApplied` names this as the only way in which a committed entry is not applied.
* `processMessages` breaks its loop at the first heartbeat, so a snapshot behind one keeps an outdated `ConfState`. It
  does no harm while every snapshot names all peers, which is what `SnapshotsNameEveryPeer` checks.
* The comment at `borda.go:48-52` promises the nodes "that meet or exceed the average". Rounding may put the average
  of equal scores above all of them, and then no node is picked and the application stays pending;
  `EmptyAnswerIsATie` checks that this takes such a tie.
* Nodes that tie in an attribute get different points for it, by the order of the list (`Points`). A node may be left
  out for its place; `BetterNodeIsNotLeftOut` checks that one better in everything than a picked one is not.
* `POST /applications` stores any QoS (`dto/application.go:38-43`; `QoS.Validate` of `domain/application.go:71` is called
  for an update only). With a negative weight a node that is better in everything scores less and is left out; and
  where scores are negative, a cluster with no node above the average counts 0 and comes before one that has some, so the
  answer is empty without any tie. `EmptyAnswerIsATie` and `BetterNodeIsNotLeftOut` speak of weights that are not
  negative (`NegativeWeight`).
* An application created without labels has JSON null for them, and `GetClusterScheduledApps` writes to the nil map
  (`service.go:583-589`). The handler panics at every poll, with an answer 500, and no application placed on that cluster
  is offered until this one gets labels by an update, is moved or is deleted (`Unoffered`, which `OfferIsAnswered` names).
* A ConfigMap of a manifest that asks for the address of a tier the application has no service in reads a nil pointer
  (RA `service.go:477-484`), in a goroutine: the agent dies, and again in each tick, before or after what else it had to
  do (`ApplyPanics`, and `Deadly`, which the properties of `settles` name).
* Two applications may have one name, and then one namespace and one record. When the record of one that has left is
  overwritten by the deployment of the other (RA `service.go:641`) before the 404 for it comes, its objects stay in the
  namespace as long as the other lives there (`TakenOver`, which `GoneIsDeleted` names).
* A report the agent has given up may still be stored, after a newer one, and the row is then stamped new. So
  `InventoryMovesForward` speaks of rows and not of stamps, and `InventoryCatchesUp` of what holds in the end.
* `SyncClusterConfig` of the RA writes the peers to `masters`; it polls from `resource-leads`, which stays at the seed.

A limit that is not a disagreement: a cloud service whose agent dies before its first report, or while it is
progressing, is exempt from the sweep and stays placed. `SilentCloudIsRequeued` therefore speaks of services that
were healthy.

### Fairness

* `LeadAgent`: Kubernetes restarts a dead RLA (weak). A step of the loop, or a save, that gets the chance again and
  again is taken (strong): an RLA may die before any single one, and the database may refuse any single one, but
  not each time. The scorer does not come back empty each time (there are eligible nodes; with a negative weight it
  may, see above, and such an application may stay pending). Nothing is assumed of users, reports or clock.
* `LeaderCache`: a leader ticks and its loop sends (weak), a heartbeat that is under way again and again is delivered
  once (strong). Elections need no fairness: `CachesSettle` starts where they are over.
* `Forwarding`: handlers go on (weak). Nothing is assumed of clients.
* `RaftLoop`: once there is a WAL the loop takes its next step (weak). Nothing is assumed of the library or the peers.
* `Inventory`: a report of each cluster is sent (strong: the bound on reports under way must not starve an agent); a
  node that is to be stored again and again is stored some time (strong, per name: the database may refuse any single
  statement); the clock, the look-ups and the scheduler go on, and a conflicting insert fails (weak).
* `ResourceAgent`: the ticker ticks and goroutines go on (weak); requests and reports get through some time
  (strong), which for the offers means that the RLA gets the request: it may answer it or panic. Which of success or
  failure a goroutine meets is not assumed, except that notifications get through; a goroutine may also be one that
  panics. An agent that dies in each tick may never report, so the properties claim nothing of a cluster as long as
  such an offer stands.
* `Registration`: that LoadBalancers get their address, and that an RLA that was let through without one is restarted,
  is not fairness but a premise of `RegistrationCompletes`. Register loops go round, calls end, answers are written and
  the list is synchronised (weak); a call that gets to an RLA that serves or forwards again and again is served, saved
  or forwarded (strong).

## 4. Proofs

For every value of the constants (sets of clusters, applications, RLAs, sites, handlers, clients; timeouts; bounds):

* `LeadAgentProofs`: `TypeCorrect`, `StatusSafe`, `NilSafe`, that is `Spec => []TypeOK`,
  `[]StatusIsOfThisPlacement`, `[]NoNilColumnIsRead`.
* `RegistryProofs`, for `MaxOverlap = 1`: `SerialRefinesRegistry` (`Spec => RegistrySpec`: the RLAs implement
  `AppRegistry`), `DeletesAreFinal`, `UpdatesAreKept`, `PlacementsAreWhole` (`DeleteIsFinal`, `VersionsMoveForward`,
  `NoPartialPlacement`).
* `ResourceAgentProofs`: `AgentTypeCorrect`, `ReportsSafe` (`[]ReportedWasApplied`), `RolloutsSafe`
  (`RolloutsMoveForward`).
* `LeaderCacheProofs`: `CacheTypes`, `KnownLeaderSafe` (`[]KnownLeaderWasElected`, log directory kept or not),
  `ElectionSafe` (`[]OneLeaderPerTerm` if it is kept); of `Forwarding`, `ForwardingTypes` (`[]FwdTypeOK`),
  `ForwardingOnlyReads` (`FwdSpec => Spec`: it implements `LeaderCache`), and from that `ForwardingFollowsWinners`
  and `ForwardingHasOneLeader`.
* `RegistrationProofs`: `RegistrationTypeCorrect`, `SelfSafe` (`[]SelfIsInTable`), `LeadSafe` (`[]ServingLeadIsListed`).
* `RaftLoopProofs`: all six invariants of the run `storage`: `RaftLoopTypeCorrect`, `RestartSafe`
  (`[]RestartIsPossible`), `AcksSafe` (`[]AcksSurvive`), `AppliedSafe` (`[]AppliedIsOnDisk`), `NoStopSafe`
  (`[]NoFatalStop`), `SnapshotsSafe` (`[]SnapshotsNameEveryPeer`).
* `InventoryProofs`: `InventoryTypeCorrect`, `InventoryOnlyMovesForward` (`InventoryMovesForward`); of `Scorer`,
  `PickIsEligible` (any weights), and with any number of nodes, any measurements and any weights of which none is
  negative `NoAnswerOnlyForATie` (`EmptyAnswerIsATie`) and `BetterNodeIsPicked` (`BetterNodeIsNotLeftOut`).

Assumptions, each checked by TLC on the runs of its module: `ClustersAssumption` (a cluster has one of the three
tiers, NULL is not a cluster), `TimeoutAssumption`, `NoRowAssumption`, `LeadAgentAssumption` (the bounds are numbers,
the loop's goroutines are not handlers); `AgentAssumption` (each application has a form, bounds are numbers);
`LeaderCacheAssumption` (finitely many RLAs, bounds are numbers);
`RegistrationAssumption` (the agents, the seed and the late addresses are at sites);
`RaftLoopAssumption` (bounds are numbers, and `Peers <= SnapCount + 1`: the configuration entries do not fill a
snapshot, which the code's `snapCount` of 10000 ensures); `InventoryAssumption` (the timeout is a number, and each
world is one: finitely many nodes, of the cluster that lists them, with numbers for what the scorer compares and
for the weights).

**Rows.** The invariants speak of statuses in rows, and a row that enters the table is whatever some handler
computed earlier from a row that may have been replaced since. So nothing about the table alone is inductive. The
inductive invariant `IInv` says that *every row there is*, in the table or in the hands of any handler, is a
`GoodRow`: a service is present exactly when it has a version; it is placed in its own tier; a status and a
heartbeat come together; and a status is of the cluster and version in the same row. That is a property of one row,
so overlapping saves cannot break it, whatever they lose. `AppRowProofs` shows that each row function keeps
`GoodRow` (`NewRowGood`, `UpdateRowGood`, `ReportRowGood`, `EvictTierGood`, `SweptRowGood`, `PlaceRowGood`);
`LeadAgentProofs` shows that reading, keeping and saving rows keeps `IInv`, one step per action, and derives the
three theorems. `ReportRowGood` is where `Verdict`'s comparison of cluster and version is needed, and
`UpdateRowGood` where the reset of the status is.

**One operation at a time.** `serial` and `RegistryProofs` say what the handlers would promise if their reads and
saves did not overlap; `lost_delete` shows that the promise ends there. Even so a handler is several steps, with
crashes, leader changes, failing saves and time between them, and one read of the loop may leave many rows to save.
`SerialInv` therefore says that at most one task has rows in hand (`OneAtATime`), and that each of those rows still
follows the row in the table by one operation of the registry (`RowsInHandFollow`). Two things may happen to that
relation: time passes, which makes heartbeats only older (`FollowsLater`), and another row of the same task is saved.
A save is then an operation of `AppRegistry`, and every other step but create, delete and the clock a stutter
(`TableMoves`, `FollowsIsOperation`); the three action properties follow from the same case distinction.

**Reports and rollouts.** What an agent reports is of a record, a record of a job, a job of an offer fetched when
the tick began, and the row may have moved on at each step. `AgentInv` says of every goroutine what its information
is still worth: jobs past the apply, reports and records are of versions that were applied on this cluster (`Backed`);
the jobs of a tick are of one moment, and nothing runs on the cluster that is newer than a job of the same application
or than its row (`Ordered`). The latter holds because a tick waits for its jobs before the next one fetches offers,
and it is what `RolloutsSafe` needs; `ReportsSafe` needs the former and that a row's status is of its own version.

**Elections.** What a cache holds is copied from heartbeats, so `KnownLeaderSafe` needs that whoever sends heartbeats,
or has one under way, has won (`Winners` in `CacheInv`). `ElectionSafe` counts votes. A vote is counted or under way
(`Supports`); while it is, the voter's hard state says the same or the term is past (`Backs`), so a vote in a term is
one vote. A winner is `Chosen`: a quorum backs it and supports no other, now or ever. Together with the types this is
`VotesInv`, inductive because a restart keeps term and vote: where `WalSurvives` fails so does `Backs`, and the run
`amnesia` shows the end of that. Two quorums share a node (`QuorumsMeet`), which cannot have supported two candidates.

**Registration.** `SelfIsInTable` relates a ConfigMap to a table that other agents, RLAs and users write. `RegInv`
adds to it, for sites no user touched, that what an agent is about to write is true too (`AnswerTrue`: a row about to
be saved, or an answer on its way to `self`, is of the row in the table; an answer to an RLA is of a master with its
`raft_id`), and for all sites that an RLA which serves after its registration has "master" in `self`
(`ServersAreMasters`). For the RLA that was let through without an address it adds `LateTrue`: as long as a site has
none there is neither `self` nor a row nor a request for it, and while its RLA serves unregistered the row has no
`raft_id`, since nobody else writes that one. "Untouched" is needed in it, not only in the property: a user's PATCH
may hold the row as it was before the registration.

**Files.** A peer may die between any two writes and loses what it has not flushed, so the theorems of `RaftLoop` are
about each WAL in `Leavings`, and about the log `replayWAL` makes of it. The creation of the WAL touches nothing else, so
the invariant holds through it (`waldir` has a part of `TypeOK` to itself). Three things have to be found for that.

* *The WAL must be read without computing it.* `replayWAL` picks a snapshot, ends the log at the last record behind it and
  takes the last record of each index. `RaftLoopProofs` says the same in predicates on records that an append changes
  in one place: `OnDisk` (the last record of an index has this term), `Reaches` (the log goes as far as this index),
  `Gapless` (a record is at most one index beyond the record before it) and `Linked` (when an entry was written, its
  predecessor in the cluster's log was there). `ReadIs` and `ReplayIs` prove that they amount to what is read, by the
  least record on the way from one index to a higher one (`Climb`); `AddsGapless`, `AddsLinked` and `AddsOnDisk` that
  `wal.Save` keeps them.
* *The invariants are not inductive.* That a restart has the acknowledged entries says nothing about those about to be
  acknowledged. `IInv` therefore follows them from the library on: `LogInv` orders its indices and its log (`Chain`),
  `AckInv` says that it does not give up what it answered in this term (`Kept`), `ReadyInv` that until `Advance` the
  Ready in hand is what the library has, `SnapInv` and `WalInv` in which order files, records and memory come,
  `DiskInv` that the WAL mirrors what the library calls stable, and what the Ready brought once it is saved. Last,
  every leaving of a crash `Survives`: it can be started from and has the promise and the applied entries.
* *Leavings differ.* The records a crash may lose only move the commit index (`WalFormat`), so all leavings have the
  same entries; but an older commit index may load an older snapshot, and `ReachesLater`, `GaplessLater`, `RecoversLater`
  carry over from an older snapshot to a newer one. That the older one is still enough is why `saveSnap` must
  write the file before its record, and both before the hard state (`SavedSurvives`, `SavedBase`).

There is one lemma per action (`HearKeeps` to `CrashKeeps`). `CrashKeeps` closes the circle: what is recovered from a
leaving is a library state with every part of `IInv` again. `HearEntryKeeps` is where the two sides meet: the library
may replace a suffix that is on disk already, if it was not acknowledged in this term. TLC checked `IInv` on instances
with 2 peers, 3 terms and entries and 1 crash, and with 1 peer, 4 entries and 2 crashes, before it was proved.

**Inventory.** Rows and reports of one node may be of any age, so what makes `InventoryOnlyMovesForward` true has to
be said of the reports an agent still waits for: such a report is the newest of its cluster, under way or stored
(`Newest`). It is when it is sent, because nothing is ahead of what the cluster has come to (`NotAhead`); it stays so
because the agent sends no other while it waits; and once the agent gives up nothing is claimed of it any more. A step
of a request, and its end, leaves all others as they were (`FollowingKeeps`), so `Send`, `Store` and `Change` are the
actions with work in them.

**Scores.** The sort, the counts and the sums of the scorer are facts on finite sets of any size. The prover has no
induction over them; instead, if a set is a counterexample there is one with the fewest nodes (`MinExists`, by the
well-foundedness of the naturals), and taking a node out of that one refutes it (`SumsAre`, `SumAtMost`, `SumAtLeast`,
`MaxScore`). After the k-th sort a node is `Ahead` of another when it has more of the latest attribute in which they
differ (`AheadIs`); that is a strict order (`AheadIsOrder`), so who is ahead of another has more points (`PointsAre`), and
who is better in everything, with weights none of which is negative, and which are then not all 0 (`WeightsAre`), a
higher score (`ScoresAre`).
`BetterNodeIsPicked` follows since what scores more than a node that is kept is above the average (`BetterIsKept`). For
`NoAnswerOnlyForATie`, the node with the highest score is above the average unless all scores are equal (`NobodyKept`),
and since scores are positive a cluster with a kept node beats one without (`BestHasKept`): an empty pick means that
nobody was kept. The order among nodes that tie is the stable one of up to twelve nodes, although the theorems
do not limit their number.

Only model-checked: liveness (`PendingIsPlaced`, `SilentCloudIsRequeued`, `CachesSettle`, `RequestsEnd`,
`LeaderServesInTheEnd`, `CommittedIsApplied`, `InventoryCatchesUp`, `GoneNodesLeave`, `OfferIsAnswered`,
`GoneIsForgotten`, `GoneIsDeleted`, `RegistrationCompletes`), which is out of the provers' reach. Every invariant and
every action property of the passing runs is a theorem.

## 5. Not modelled

* Changes of a site's address, and of role and `raft_id` by users; the round-robin index of the RA (it stays 0).
* The address in an offer for a service that is not placed (section 3).
* Tiers of more than twelve nodes; measurements that change with time. LoadBalancers with a host name and no IP.
* Changes of a name in a run (they are in `Update`, and in the theorems of `ResourceAgent`).
* A disk that fails under Raft, as opposed to a process that does; whole-state snapshots, of which there is no state.
* Read-only endpoints (they change nothing), configuration, HTTP servers, database set-up (set-up and I/O),
  the generated API documentation (`swagger/docs.go`), the tests' helpers, Helm charts and scripts.

## 6. Plan

Done, in this order: `AppRow`, `LeadAgent`, `AppRegistry`, their proofs; `LeaderCache`; `ResourceAgent`;
`Registration`; `RaftLoop`; `Forwarding`; `Scorer`; `Inventory`; users' requests in `Registration`; the proofs of
`LeaderCache`, `Forwarding`, `Registration` and `ResourceAgent`; the proof that `LeadAgent` implements `AppRegistry`
when operations do not overlap; the proofs of `RaftLoop`, `Inventory` and `Scorer`. Next:

1. What of `AppRegistry` is left when operations do overlap, as theorems: the rows that a stale save may bring back are
   rows there were.
2. `Swarm`: `LeadAgent` and `ResourceAgent` together, with overlapping saves on the RLA's side and an abstract
   specification of the life of one deployment; `moves` would go into its run.
