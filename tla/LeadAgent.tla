----------------------------- MODULE LeadAgent -----------------------------
(***************************************************************************)
(* The Resource Lead Agents and the knowledge base they share.             *)
(*                                                                         *)
(* Every RLA serves HTTP requests and, once per scheduler interval, starts *)
(* two goroutines at the same time: SchedulePendingApps and                *)
(* HandleStalledApps.  Each of them, and each of the handlers              *)
(* UpdateApplication and ClusterApplicationStatus, reads whole rows of the *)
(* knowledge base, computes on them, and writes whole rows back, without a *)
(* transaction, a lock or a version check.  So a handler is two steps      *)
(* here: the read, after which the rows it will write sit in "todo", and   *)
(* one Save per row.  Anything may happen in between.                      *)
(*                                                                         *)
(* Create, Update and Delete are served by an RLA that believes it is the  *)
(* leader (the others forward to it); status reports are served by any.    *)
(***************************************************************************)
EXTENDS AppRow, FiniteSets

CONSTANTS
    Apps,           \* application ids
    RLAs,           \* the RLA processes
    HttpSlots,      \* handlers one RLA can be running at a time
    DeployTiers,    \* the tiers requests ask for services in
    MaxVersion,     \* bound: version uuids given out
    MaxClock,       \* bound: clock ticks
    MaxOverlap      \* bound: operations with rows read and not yet saved

ASSUME LeadAgentAssumption ==
    /\ DeployTiers \subseteq Tier
    /\ MaxVersion \in Nat /\ MaxClock \in Nat /\ MaxOverlap \in Nat
    /\ "sched" \notin HttpSlots /\ "stall" \notin HttpSlots

Task  == {"sched", "stall"} \cup HttpSlots
Phase == {"idle", "ready", "saving"}

VARIABLES
    kb,             \* the applications table
    created,        \* ids given out so far; an id is a fresh uuid
    nextVersion,    \* the next fresh version
    clock,          \* wall-clock time, read with time.Now
    up,             \* the RLAs whose process runs
    believers,      \* the RLAs whose Raft node says they are the leader
    phase,          \* what each task of each RLA is doing
    todo            \* the rows it has read, changed and not yet saved

store == <<kb, created, nextVersion>>
procs == <<up, believers, phase, todo>>
vars  == <<kb, created, nextVersion, clock, up, believers, phase, todo>>

Nothing == [a \in Apps |-> NoRow]

TypeOK ==
    /\ kb \in [Apps -> Row \cup {NoRow}]
    /\ created \subseteq Apps
    /\ nextVersion \in Nat \ {0}
    /\ clock \in Nat \ {0}
    /\ up \subseteq RLAs
    /\ believers \subseteq RLAs
    /\ phase \in [RLAs -> [Task -> Phase]]
    /\ todo \in [RLAs -> [Task -> [Apps -> Row \cup {NoRow}]]]

Init ==
    /\ kb = Nothing
    /\ created = {}
    /\ nextVersion = 1
    /\ clock = 1
    /\ up = RLAs
    /\ believers = IF Cardinality(RLAs) = 1 THEN RLAs ELSE {}
    /\ phase = [r \in RLAs |-> [k \in Task |-> "idle"]]
    /\ todo = [r \in RLAs |-> [k \in Task |-> Nothing]]

-----------------------------------------------------------------------------
Overlapping == {p \in RLAs \X Task : phase[p[1]][p[2]] = "saving"}
MayStart    == Cardinality(Overlapping) < MaxOverlap

Leads(r) == r \in up /\ r \in believers

Fresh == nextVersion <= MaxVersion

(* A task has read its rows and is left with these to save.                *)
Keep(r, k, rows) ==
    /\ todo'  = [todo  EXCEPT ![r][k] = rows]
    /\ phase' = [phase EXCEPT ![r][k] = IF rows = Nothing THEN "idle" ELSE "saving"]

-----------------------------------------------------------------------------
(* Handlers that are one statement on the database.                        *)

CreateApplication(r, a, S) ==
    /\ Leads(r) /\ MayStart /\ Fresh
    /\ a \notin created
    /\ S # {}
    /\ kb' = [kb EXCEPT ![a] = NewRow(S, nextVersion)]
    /\ created' = created \cup {a}
    /\ nextVersion' = nextVersion + 1
    /\ UNCHANGED <<clock, procs>>

DeleteApplication(r, a) ==
    /\ Leads(r) /\ MayStart
    /\ kb[a] # NoRow
    /\ kb' = [kb EXCEPT ![a] = NoRow]
    /\ UNCHANGED <<created, nextVersion, clock, procs>>

-----------------------------------------------------------------------------
(* Handlers that read a row, change it and save it.                        *)

UpdateRead(r, h, a, req) ==
    /\ Leads(r) /\ MayStart /\ Fresh
    /\ phase[r][h] = "idle"
    /\ kb[a] # NoRow
    /\ Keep(r, h, [Nothing EXCEPT ![a] = UpdateRow(kb[a], req, nextVersion)])
    /\ nextVersion' = nextVersion + 1
    /\ UNCHANGED <<kb, created, clock, up, believers>>

(* A report the handler refuses (not found, not synced) saves nothing.     *)
StatusRead(r, h, a, c, v, s) ==
    /\ r \in up /\ MayStart
    /\ phase[r][h] = "idle"
    /\ Verdict(kb[a], c, v) = "ok"
    /\ Keep(r, h, [Nothing EXCEPT ![a] = ReportRow(kb[a], c, v, s, clock)])
    /\ UNCHANGED <<store, clock, up, believers>>

(* Mutant of Save: the row stays in hand, and is written again by a retry  *)
(* that cannot tell that the first write was done.                         *)
SaveAndRetry(r, k, a) ==
    /\ todo[r][k][a] # NoRow
    /\ kb' = [kb EXCEPT ![a] = todo[r][k][a]]
    /\ phase' = [phase EXCEPT ![r][k] = "idle"]
    /\ UNCHANGED <<created, nextVersion, clock, up, believers, todo>>

(* kbSvc.UpdateApplication: Save writes every column of the row, and       *)
(* inserts the row when the UPDATE finds none with its id.                 *)
Save(r, k, a) ==
    /\ todo[r][k][a] # NoRow
    /\ kb' = [kb EXCEPT ![a] = todo[r][k][a]]
    /\ Keep(r, k, [todo[r][k] EXCEPT ![a] = NoRow])
    /\ UNCHANGED <<created, nextVersion, clock, up, believers>>

(* The database refuses or is out of reach: an error answer or a log line. *)
SaveFails(r, k, a) ==
    /\ todo[r][k][a] # NoRow
    /\ Keep(r, k, [todo[r][k] EXCEPT ![a] = NoRow])
    /\ UNCHANGED <<store, clock, up, believers>>

-----------------------------------------------------------------------------
(* The scheduler loop: a tick starts both goroutines, and the next tick    *)
(* waits for both of them.                                                 *)

Tick(r) ==
    /\ r \in up
    /\ phase[r]["sched"] = "idle" /\ phase[r]["stall"] = "idle"
    /\ phase' = [phase EXCEPT ![r] = [@ EXCEPT !["sched"] = "ready", !["stall"] = "ready"]]
    /\ UNCHANGED <<store, clock, up, believers, todo>>

(* Not the leader, or the list could not be read: the goroutine returns.   *)
Skip(r, k) ==
    /\ phase[r][k] = "ready"
    /\ phase' = [phase EXCEPT ![r][k] = "idle"]
    /\ UNCHANGED <<store, clock, up, believers, todo>>

(* What the scorer may answer: a cluster of the tier, or nothing.          *)
Pick == {p \in [Tier -> Clusters \cup {NoCluster}] :
            \A t \in Tier : p[t] \in Clusters => TierOf[p[t]] = t}

(* Mutant of ScheduledRow: without the shouldUpdate tests.                 *)
ScheduledRowAnyway(row, pick) ==
    IF row # NoRow THEN PlaceRow(row, pick) ELSE NoRow

(* Mutant of ScheduledRow: the tests ask for a cluster of absent services. *)
ScheduledRowAllTiers(row, pick) ==
    IF row # NoRow /\ \A t \in Tier : PlaceRow(row, pick)[t].cluster # NoCluster
    THEN PlaceRow(row, pick) ELSE NoRow

(* A row is saved only if every present service has its cluster, and then  *)
(* also when nothing in it has changed.                                    *)
ScheduledRow(row, pick) ==
    IF row # NoRow /\ Pending(PlaceRow(row, pick)) = {} THEN PlaceRow(row, pick) ELSE NoRow

SchedulePendingApps(r, picks) ==
    /\ Leads(r) /\ MayStart
    /\ phase[r]["sched"] = "ready"
    /\ Keep(r, "sched", [a \in Apps |-> ScheduledRow(kb[a], picks[a])])
    /\ UNCHANGED <<store, clock, up, believers>>

StalledRow(row, now) ==
    IF row # NoRow /\ SweptRow(row, now) # row THEN SweptRow(row, now) ELSE NoRow

NilStatusSeen == \E a \in Apps : kb[a] # NoRow /\ DerefsNilStatus(kb[a], clock)

HandleStalledApps(r) ==
    /\ Leads(r) /\ MayStart
    /\ phase[r]["stall"] = "ready"
    /\ ~NilStatusSeen
    /\ Keep(r, "stall", [a \in Apps |-> StalledRow(kb[a], clock)])
    /\ UNCHANGED <<store, clock, up, believers>>

-----------------------------------------------------------------------------
Die(r) ==
    /\ up' = up \ {r}
    /\ believers' = believers \ {r}
    /\ phase' = [phase EXCEPT ![r] = [k \in Task |-> "idle"]]
    /\ todo'  = [todo  EXCEPT ![r] = [k \in Task |-> Nothing]]
    /\ UNCHANGED <<store, clock>>

(* HandleStalledApps panics; the goroutine has no recover.                 *)
SweepPanics(r) ==
    /\ Leads(r)
    /\ phase[r]["stall"] = "ready"
    /\ NilStatusSeen
    /\ Die(r)

Crash(r) == r \in up /\ Die(r)

(* A Raft node without peers is its own leader from the start; one of      *)
(* several has to hear of a leader first.                                  *)
Restart(r) ==
    /\ r \notin up
    /\ up' = up \cup {r}
    /\ believers' = IF Cardinality(RLAs) = 1 THEN {r} ELSE believers
    /\ UNCHANGED <<store, clock, phase, todo>>

(* What a node believes changes with the heartbeats it hears; two may      *)
(* believe they lead at the same time.                                     *)
LeaderMoves(r) ==
    /\ Cardinality(RLAs) > 1
    /\ r \in up
    /\ believers' = IF r \in believers THEN believers \ {r} ELSE believers \cup {r}
    /\ UNCHANGED <<store, clock, up, phase, todo>>

ClockTick ==
    /\ clock < MaxClock
    /\ clock' = clock + 1
    /\ UNCHANGED <<store, procs>>

-----------------------------------------------------------------------------
(* What the REST handler can ask UpdateApplication: the "application" part *)
(* of the form sets the name, the labels and the QoS together.             *)
RestRequest == {req \in Request : req.qos = req.meta /\ req.svcs \subseteq DeployTiers}

Requests ==
    \E r \in RLAs, a \in Apps :
        \/ \E S \in SUBSET DeployTiers : CreateApplication(r, a, S)
        \/ DeleteApplication(r, a)
        \/ \E h \in HttpSlots, req \in RestRequest : UpdateRead(r, h, a, req)

(* A report made without the offer that leads to it would add nothing: the *)
(* placement it is accepted for is one that c can be offered.              *)
Reports ==
    \E r \in RLAs, h \in HttpSlots, a \in Apps, c \in Clusters,
       v \in 1 .. MaxVersion, s \in Reported : StatusRead(r, h, a, c, v, s)

Loop ==
    \E r \in RLAs :
        \/ Tick(r)
        \/ \E k \in {"sched", "stall"} : Skip(r, k)
        \/ \E picks \in [Apps -> Pick] : SchedulePendingApps(r, picks)
        \/ HandleStalledApps(r)
        \/ SweepPanics(r)

Saves ==
    \E r \in RLAs, k \in Task, a \in Apps : Save(r, k, a) \/ SaveFails(r, k, a)

Environment ==
    \/ \E r \in RLAs : Crash(r) \/ Restart(r) \/ LeaderMoves(r)
    \/ ClockTick

Next == Requests \/ Reports \/ Loop \/ Saves \/ Environment

Spec == Init /\ [][Next]_vars

-----------------------------------------------------------------------------
(* Every row there is: in the table, and in the hands of a handler.        *)
Rows == {kb[a] : a \in Apps}
        \cup {todo[p[1]][p[2]][a] : p \in RLAs \X Task, a \in Apps}

ServiceVersioned(row) ==
    \A t \in Tier : row[t].svc => row[t].version # 0

PlacementFits(row) ==
    \A t \in Tier : row[t].cluster # NoCluster => row[t].svc /\ TierOf[row[t].cluster] = t

StatusBelongs(row) ==
    \A t \in Tier : row[t].status.state # "NULL" =>
        /\ row[t].cluster # NoCluster
        /\ row[t].status.from = row[t].cluster
        /\ row[t].status.ver = row[t].version

HeartbeatWithStatus(row) ==
    \A t \in Tier : row[t].status.state # "NULL" => row[t].hb # 0

(* However reports, updates, evictions and placements overlap, a status in *)
(* the table was reported by the cluster the service is placed on and for  *)
(* the version it has: ClusterApplicationStatus compares both before it    *)
(* writes, and whatever changes one of the two resets the status with it.  *)
StatusIsOfThisPlacement ==
    \A row \in Rows \ {NoRow} : StatusBelongs(row)

(* The handlers dereference nullable columns: the heartbeat of a service   *)
(* that has a status (service.go:965-985), the version of a service that   *)
(* is placed (:777-793) or offered (:633-651).  None of them is ever nil.  *)
NoNilColumnIsRead ==
    \A row \in Rows \ {NoRow} :
        HeartbeatWithStatus(row) /\ ServiceVersioned(row) /\ PlacementFits(row)

-----------------------------------------------------------------------------
(* The refinement mapping: the rows, the ids given out and the time of the *)
(* registry are those of the RLAs; processes, leaders and rows in hand are *)
(* left out.                                                               *)
Registry == INSTANCE AppRegistry WITH
                kb <- kb, created <- created, clock <- clock,
                Apps <- Apps, MaxVersion <- MaxVersion,
                Clusters <- Clusters, TierOf <- TierOf, NoCluster <- NoCluster,
                NoRow <- NoRow, HeartbeatTimeout <- HeartbeatTimeout

(* When operations on rows do not overlap, the RLAs implement the registry:*)
(* each read with the saves that follow it is one operation of it per row, *)
(* however crashes and failing saves cut the saves short.                  *)
RegistrySpec == Registry!Spec

-----------------------------------------------------------------------------
(* A deleted application stays deleted.                                    *)
DeleteIsFinal ==
    [][\A a \in created : kb[a] = NoRow => kb'[a] = NoRow]_vars

(* "Only update the application if every non-nil service has its cluster   *)
(* assigned": no step places one service of an application and leaves      *)
(* another of its services pending.                                        *)
NoPartialPlacement ==
    [][\A a \in Apps :
          /\ kb[a] # NoRow /\ kb'[a] # NoRow
          /\ \E t \in Pending(kb[a]) : kb'[a][t].cluster # NoCluster
          => Pending(kb'[a]) = {}]_vars

(* An update is not taken back: no write returns a service to a version    *)
(* older than the one the table has.                                       *)
VersionsMoveForward ==
    [][\A a \in Apps, t \in Tier : kb[a] # NoRow /\ kb'[a] # NoRow =>
          kb'[a][t].version >= kb[a][t].version]_vars

(* No row of the table makes the sweep dereference a nil status: an        *)
(* application whose services have all gone silent, or one without a cloud *)
(* service, is swept like any other (service.go:975 and 985 read the cloud *)
(* status where the fog and the edge status are meant).                    *)
SweepIsSafe == \A a \in Apps : kb[a] # NoRow => ~DerefsNilStatus(kb[a], clock)

-----------------------------------------------------------------------------
(***************************************************************************)
(* Fairness.  Kubernetes restarts a dead RLA and Go runs its goroutines    *)
(* (weak).  An RLA may die between any two steps and the database may      *)
(* refuse any read or write, but neither happens every time: a step of the *)
(* loop that gets the chance again and again is taken (strong).  And the   *)
(* scorer does not always come back empty: there are eligible nodes.       *)
(***************************************************************************)
FullPick == {p \in Pick : \A t \in DeployTiers : p[t] # NoCluster}

SchedulesAll(r) == \E picks \in [Apps -> FullPick] : SchedulePendingApps(r, picks)

Fairness ==
    \A r \in RLAs :
        /\ SF_vars(Tick(r))
        /\ WF_vars(Restart(r))
        /\ WF_vars(SweepPanics(r))
        /\ SF_vars(SchedulesAll(r))
        /\ SF_vars(HandleStalledApps(r))
        /\ \A k \in Task, a \in Apps : SF_vars(Save(r, k, a))

FairSpec == Spec /\ Fairness

(* README of the RLA: the loop "places pending workloads".  A pending      *)
(* service does not stay pending for ever.                                 *)
PendingIsPlaced ==
    \A a \in Apps, t \in DeployTiers :
        (kb[a] # NoRow /\ t \in Pending(kb[a])) ~> (kb[a] = NoRow \/ t \notin Pending(kb[a]))

(* ... and "re-queues stalled ones".  A service whose cluster has gone     *)
(* silent after reporting it healthy does not keep that stale heartbeat.   *)
Silent(a, t) ==
    /\ kb[a] # NoRow
    /\ kb[a][t].status.state = "healthy"
    /\ kb[a][t].hb + HeartbeatTimeout < clock

SilentCloudIsRequeued ==
    \A a \in Apps : Silent(a, "cloud") ~> ~Silent(a, "cloud")
=============================================================================
