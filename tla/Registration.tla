---------------------------- MODULE Registration ----------------------------
(***************************************************************************)
(* How the sites (Kubernetes clusters) come to be in the knowledge base.   *)
(* A site runs an RLA, an RA, or both; each registers the site when it     *)
(* starts, every 5 seconds until it works, and serves only then.           *)
(*                                                                         *)
(* Registering is: look for the ConfigMap "self" of the site; when there   *)
(* is none, have the leader store a row for the site's address (the column *)
(* is UNIQUE), then create "self" from the answer.  The two agents of a    *)
(* site share "self".  An RLA that finds the site registered as a worker   *)
(* has the leader make it a master.                                        *)
(*                                                                         *)
(* The address is what the LoadBalancer of the site's ingress has been     *)
(* given.  Before it has one an RA tries again, but an RLA takes its error *)
(* for none: it serves without a row and without "self".                   *)
(*                                                                         *)
(* Users may delete the row of a site, or change its type, at any time     *)
(* (the address stays in this model).                                      *)
(*                                                                         *)
(* Who is the leader comes from the Raft cache (LeaderCache), which is     *)
(* here the environment's: it may hold anything, and change at any time.   *)
(***************************************************************************)
EXTENDS Naturals, FiniteSets

CONSTANTS
    Site,           \* a site has one address and, if it has an RLA, one Raft id
    RLASites,       \* where an RLA is deployed
    RASites,        \* where an RA is deployed
    Late,           \* the sites whose LoadBalancer gets its address only later
    Seed,           \* registersvc.host of the RAs: the site of some RLA
    NoSite,         \* no leader known; no call under way
    UserRequests,   \* bound: what users ask of which row, each at most once
    MaxFaults       \* bound: crashes and answers lost

ASSUME RegistrationAssumption ==
    /\ RLASites \subseteq Site /\ RASites \subseteq Site /\ Late \subseteq Site
    /\ Seed \in RLASites /\ NoSite \notin Site
    /\ UserRequests \subseteq {"delete", "update"} \X Site
    /\ MaxFaults \in Nat

Proc == ({"RLA"} \X RLASites) \cup ({"RA"} \X RASites)

(* A site has one row at a time, and a second one only after users have    *)
(* deleted the first: 1 and 2 stand for their uuids, 0 for no row.         *)
Id        == 0 .. 2
NoCluster == [id |-> 0, role |-> "none", raft |-> NoSite]
Cluster   == [id : Id \ {0}, role : {"worker", "master"}, raft : RLASites \cup {NoSite}]

State == {"registering", "calling", "storing", "answered", "serving", "unregistered"}

NoSelf == [id |-> 0, role |-> "none"]
NoEdit == [site |-> NoSite, row |-> NoCluster, by |-> NoSite]

VARIABLES
    clusters,       \* the table, by address
    self,           \* the ConfigMap "self" of each site
    addressed,      \* the sites whose LoadBalancer has its address
    state,          \* of each process
    at,             \* the site its request has reached, NoSite when none
    asks,           \* what it asks there
    row,            \* the id of the row its request is about or was answered
    cache,          \* the leader each RLA believes in
    conf,           \* each RA's ConfigMap "clusters": the lists of RLAs in it
    asked,          \* the UserRequests made so far
    edit,           \* a user's PATCH: whose row, as it was read, by which RLA
    faults

calls == <<state, at, asks, row>>
users == <<asked, edit>>
vars  == <<clusters, self, addressed, state, at, asks, row, cache, conf, asked, edit, faults>>

TypeOK ==
    /\ clusters \in [Site -> Cluster \cup {NoCluster}]
    /\ self \in [Site -> [id : Id \ {0}, role : {"worker", "master"}] \cup {NoSelf}]
    /\ addressed \subseteq Site
    /\ state \in [Proc -> State]
    /\ at \in [Proc -> Site \cup {NoSite}]
    /\ asks \in [Proc -> {"nothing", "create", "update"}]
    /\ row \in [Proc -> Id]
    /\ cache \in [RLASites -> RLASites \cup {NoSite}]
    /\ conf \in [RASites -> [{"resource-leads", "masters"} -> SUBSET (Site \cup {"INIT"})]]
    /\ asked \subseteq UserRequests
    /\ edit \in [site : Site, row : Cluster, by : RLASites] \cup {NoEdit}
    /\ faults \in 0 .. MaxFaults

Init ==
    /\ clusters = [s \in Site |-> NoCluster]
    /\ self = [s \in Site |-> NoSelf]
    /\ addressed = Site \ Late
    /\ state = [p \in Proc |-> "registering"]
    /\ at = [p \in Proc |-> NoSite]
    /\ asks = [p \in Proc |-> "nothing"]
    /\ row = [p \in Proc |-> 0]
    /\ cache = [s \in RLASites |-> IF RLASites = {s} THEN s ELSE NoSite]
    /\ conf = [s \in RASites |-> [k \in {"resource-leads", "masters"} |-> {}]]
    /\ asked = {} /\ edit = NoEdit
    /\ faults = 0

-----------------------------------------------------------------------------
(* Both ways out of the register loop lead to the HTTP server.             *)
Serves(s) == <<"RLA", s>> \in Proc /\ state[<<"RLA", s>>] \in {"serving", "unregistered"}

(* The row with that raft_id.  An RLA's id is that of its site.            *)
Listed(l) == l # NoSite /\ clusters[l].raft = l

(* What registration has to do at p's site.                                *)
Task(p) ==
    IF self[p[2]] = NoSelf
    THEN CASE p[2] \in addressed                    -> "create"
           [] p[2] \notin addressed /\ p[1] = "RA"  -> "wait"
           [] p[2] \notin addressed /\ p[1] = "RLA" -> "nothing"
    ELSE IF p[1] = "RLA" /\ self[p[2]].role = "worker" THEN "update" ELSE "nothing"

Goes(p, st, where, what, id) ==
    /\ state' = [state EXCEPT ![p] = st]
    /\ at'    = [at    EXCEPT ![p] = where]
    /\ asks'  = [asks  EXCEPT ![p] = what]
    /\ row'   = [row   EXCEPT ![p] = id]

TriesAgain(p) == Goes(p, "registering", NoSite, "nothing", 0)

FreshId(s) == IF <<"delete", s>> \in asked THEN 2 ELSE 1

(* Mutant of Requested: the request's RaftID is not copied to the row.     *)
RequestedWithoutRaftID(p, id) ==
    [id |-> id, role |-> IF p[1] = "RLA" THEN "master" ELSE "worker", raft |-> NoSite]

(* Mutant of Requested: the raft_id of a worker is 0 and not NULL.         *)
RequestedZeroRaftID(p, id) ==
    IF p[1] = "RLA" THEN [id |-> id, role |-> "master", raft |-> p[2]]
                    ELSE [id |-> id, role |-> "worker", raft |-> 0]

(* The row that p's request makes.                                         *)
Requested(p, id) ==
    IF p[1] = "RLA" THEN [id |-> id, role |-> "master", raft |-> p[2]]
                    ELSE [id |-> id, role |-> "worker", raft |-> NoSite]

(* gorm's Save: an update of the row with that id, or else an insert,      *)
(* which the UNIQUE address refuses when another row has it.               *)
SaveRefused(s, id) == clusters[s].id \notin {0, id}

-----------------------------------------------------------------------------
(* An attempt to register.                                                 *)

(* Nothing to do: the site is registered, or the RLA has no address to     *)
(* register and goes on all the same.  An RA makes sure its ConfigMap      *)
(* "clusters" is there, with the seed as the only RLA it knows.            *)
Registered(p) ==
    /\ state[p] = "registering"
    /\ Task(p) = "nothing"
    /\ Goes(p, IF self[p[2]] = NoSelf THEN "unregistered" ELSE "serving", NoSite, "nothing", 0)
    /\ conf' = IF p[1] = "RA" /\ conf[p[2]]["resource-leads"] = {}
               THEN [conf EXCEPT ![p[2]]["resource-leads"] = {"INIT"}] ELSE conf
    /\ UNCHANGED <<clusters, self, addressed, cache, users, faults>>

(* The leader writes for itself: it has no call to make.                   *)
AtHome(p) ==
    /\ p[1] = "RLA" /\ state[p] = "registering" /\ cache[p[2]] = p[2]

(* A follower calls the leader it believes in, an RA its seed.             *)
Call(p) ==
    /\ state[p] = "registering" /\ Task(p) \in {"create", "update"}
    /\ IF p[1] = "RA" THEN Goes(p, "calling", Seed, "create", 0)
       ELSE /\ cache[p[2]] # p[2]
            /\ Listed(cache[p[2]])
            /\ Goes(p, "calling", cache[p[2]], Task(p), self[p[2]].id)
    /\ UNCHANGED <<clusters, self, addressed, cache, conf, users, faults>>

(* A leader is known but has no row: GetCluster answers nil, the address   *)
(* is read all the same, and the process dies.  So it does when an update  *)
(* finds no leader known, and when the leader's own row is not there to    *)
(* be updated: UpdateCluster then answers nil, whose role is read.         *)
LookupPanics(p) ==
    /\ p[1] = "RLA" /\ state[p] = "registering"
    /\ \/ /\ Task(p) # "nothing" /\ cache[p[2]] # p[2] /\ ~Listed(cache[p[2]])
          /\ cache[p[2]] # NoSite \/ Task(p) = "update"
       \/ AtHome(p) /\ Task(p) = "update" /\ clusters[p[2]].id # self[p[2]].id
    /\ Cardinality(RLASites) > 1
    /\ cache' = [cache EXCEPT ![p[2]] = NoSite]
    /\ UNCHANGED <<clusters, self, addressed, calls, conf, users, faults>>

-----------------------------------------------------------------------------
(* The request, at the RLA of a site.                                      *)

(* This RLA is the leader, by its own belief.                              *)
AtLeader(p) == state[p] = "calling" /\ Serves(at[p]) /\ cache[at[p]] = at[p]

(* INSERT, refused for an address that is there.                           *)
CreateCluster(p) ==
    /\ \/ AtLeader(p) /\ asks[p] = "create"
       \/ AtHome(p) /\ Task(p) = "create"
    /\ IF clusters[p[2]] # NoCluster
       THEN TriesAgain(p) /\ UNCHANGED clusters
       ELSE /\ clusters' = [clusters EXCEPT ![p[2]] = Requested(p, FreshId(p[2]))]
            /\ Goes(p, "answered", NoSite, "create", FreshId(p[2]))
    /\ UNCHANGED <<self, addressed, cache, conf, users, faults>>

(* The row is read by the id the request has from "self", and is there or  *)
(* not...                                                                  *)
IdIn(p) == IF state[p] = "calling" THEN row[p] ELSE self[p[2]].id

UpdateCluster(p) ==
    /\ \/ AtLeader(p) /\ asks[p] = "update"
       \/ AtHome(p) /\ Task(p) = "update" /\ clusters[p[2]].id = self[p[2]].id
    /\ IF clusters[p[2]].id = IdIn(p)
       THEN Goes(p, "storing", at[p], "update", IdIn(p))
       ELSE TriesAgain(p)
    /\ UNCHANGED <<clusters, self, addressed, cache, conf, users, faults>>

(* ... and saved with the new role and raft_id.                            *)
SaveRow(p) ==
    /\ state[p] = "storing"
    /\ IF SaveRefused(p[2], row[p])
       THEN TriesAgain(p) /\ UNCHANGED clusters
       ELSE /\ clusters' = [clusters EXCEPT ![p[2]] = Requested(p, row[p])]
            /\ Goes(p, "answered", NoSite, "update", row[p])
    /\ UNCHANGED <<self, addressed, cache, conf, users, faults>>

(* It is not: it calls on in turn.                                         *)
Forward(p) ==
    /\ state[p] = "calling" /\ Serves(at[p]) /\ cache[at[p]] # at[p]
    /\ Listed(cache[at[p]])
    /\ Goes(p, "calling", cache[at[p]], asks[p], row[p])
    /\ UNCHANGED <<clusters, self, addressed, cache, conf, users, faults>>

(* Nobody serves there, the leader is not found, dies over it, or the call *)
(* timed out on its way: an error, and the next attempt in 5 seconds.      *)
CallFails(p) ==
    /\ state[p] \in {"calling", "storing"}
    /\ TriesAgain(p)
    /\ UNCHANGED <<clusters, self, addressed, cache, conf, users, faults>>

(* The statement is done, and its answer does not arrive, or "self" could  *)
(* not be written.                                                         *)
AnswerLost(p) ==
    /\ state[p] = "answered" /\ faults < MaxFaults
    /\ faults' = faults + 1
    /\ TriesAgain(p)
    /\ UNCHANGED <<clusters, self, addressed, cache, conf, users>>

SelfOf(p) == [id |-> row[p], role |-> IF p[1] = "RLA" THEN "master" ELSE "worker"]

(* Mutant of WriteSelf: the role is that of an RLA, as if nobody else      *)
(* wrote "self".                                                           *)
WriteSelfMaster(p) ==
    /\ state[p] = "answered"
    /\ self' = [self EXCEPT ![p[2]] = [id |-> row[p], role |-> "master"]]
    /\ TriesAgain(p)
    /\ UNCHANGED <<clusters, addressed, cache, conf, users, faults>>

(* Mutant of WriteSelf: the new role is set in the copy only.              *)
WriteSelfOnce(p) ==
    /\ state[p] = "answered"
    /\ self' = IF self[p[2]] # NoSelf THEN self ELSE [self EXCEPT ![p[2]] = SelfOf(p)]
    /\ TriesAgain(p)
    /\ UNCHANGED <<clusters, addressed, cache, conf, users, faults>>

(* "self" gets the id and role of the answered row.  Creating it fails     *)
(* when it is there by now.                                                *)
WriteSelf(p) ==
    /\ state[p] = "answered"
    /\ self' = IF asks[p] = "create" /\ self[p[2]] # NoSelf THEN self
               ELSE [self EXCEPT ![p[2]] = SelfOf(p)]
    /\ TriesAgain(p)
    /\ UNCHANGED <<clusters, addressed, cache, conf, users, faults>>

-----------------------------------------------------------------------------
(* What an RLA answers, whether it leads or not.                           *)
ClusterConfig == [masters |-> {x \in Site : clusters[x].role = "master"}]

(* SyncClusterConfig, each tick of an RA that serves, from an RLA of its   *)
(* list (the seed, or one found by id): the answer's keys overwrite.       *)
SyncClusterConfig(s) ==
    /\ state[<<"RA", s>>] = "serving"
    /\ \E l \in conf[s]["resource-leads"] : Serves(IF l = "INIT" THEN Seed ELSE l)
    /\ conf' = [conf EXCEPT ![s]["masters"] = ClusterConfig.masters]
    /\ UNCHANGED <<clusters, self, addressed, calls, cache, users, faults>>

-----------------------------------------------------------------------------
(* Users, at an RLA that believes it leads; the others forward them.       *)
Leads(l) == Serves(l) /\ cache[l] = l

(* DELETE.  The foreign keys refuse it once nodes or applications refer to *)
(* the row, which is the same as not asking.                               *)
DeleteCluster(s) ==
    /\ <<"delete", s>> \in UserRequests \ asked
    /\ clusters[s] # NoCluster /\ \E l \in RLASites : Leads(l)
    /\ asked' = asked \cup {<<"delete", s>>}
    /\ clusters' = [clusters EXCEPT ![s] = NoCluster]
    /\ UNCHANGED <<self, addressed, calls, cache, conf, edit, faults>>

(* PATCH of the type: the whole row is read...                             *)
EditRead(s) ==
    /\ <<"update", s>> \in UserRequests \ asked
    /\ clusters[s] # NoCluster /\ edit = NoEdit
    /\ asked' = asked \cup {<<"update", s>>}
    /\ \E l \in RLASites : /\ Leads(l)
                           /\ edit' = [site |-> s, row |-> clusters[s], by |-> l]
    /\ UNCHANGED <<clusters, self, addressed, calls, cache, conf, faults>>

(* ... and saved.                                                          *)
EditSave ==
    /\ edit # NoEdit
    /\ clusters' = IF SaveRefused(edit.site, edit.row.id) THEN clusters
                   ELSE [clusters EXCEPT ![edit.site] = edit.row]
    /\ edit' = NoEdit
    /\ UNCHANGED <<self, addressed, calls, cache, conf, asked, faults>>

-----------------------------------------------------------------------------
(* The LoadBalancer of a site is given its address, and keeps it.          *)
GetsAddress(s) ==
    /\ s \notin addressed
    /\ addressed' = addressed \cup {s}
    /\ UNCHANGED <<clusters, self, calls, cache, conf, users, faults>>

(* Raft, seen through its cache.                                           *)
Hear(s, l) ==
    /\ Cardinality(RLASites) > 1
    /\ cache' = [cache EXCEPT ![s] = l]
    /\ UNCHANGED <<clusters, self, addressed, calls, conf, users, faults>>

(* A process stops, and an RLA with it what it does for others.            *)
Stops(p) == {p} \cup {q \in Proc : p[1] = "RLA" /\ state[q] = "storing" /\ at[q] = p[2]}

Crash(p) ==
    /\ faults < MaxFaults
    /\ faults' = faults + 1
    /\ state' = [q \in Proc |-> IF q \in Stops(p) THEN "registering" ELSE state[q]]
    /\ at'    = [q \in Proc |-> IF q \in Stops(p) THEN NoSite ELSE at[q]]
    /\ asks'  = [q \in Proc |-> IF q \in Stops(p) THEN "nothing" ELSE asks[q]]
    /\ row'   = [q \in Proc |-> IF q \in Stops(p) THEN 0 ELSE row[q]]
    /\ cache' = IF p[1] = "RLA" /\ Cardinality(RLASites) > 1
                THEN [cache EXCEPT ![p[2]] = NoSite] ELSE cache
    /\ edit' = IF p = <<"RLA", edit.by>> THEN NoEdit ELSE edit
    /\ UNCHANGED <<clusters, self, addressed, conf, asked>>

Attempt(p) == \/ Registered(p) \/ Call(p) \/ LookupPanics(p)
              \/ AtHome(p) /\ (CreateCluster(p) \/ UpdateCluster(p))

Serve(p) == AtLeader(p) /\ (CreateCluster(p) \/ UpdateCluster(p))

Next ==
    \/ \E p \in Proc : Attempt(p) \/ Serve(p) \/ SaveRow(p) \/ Forward(p) \/ CallFails(p)
                       \/ AnswerLost(p) \/ WriteSelf(p) \/ Crash(p)
    \/ \E s \in RASites : SyncClusterConfig(s)
    \/ \E s \in Site : DeleteCluster(s) \/ EditRead(s) \/ GetsAddress(s)
    \/ EditSave
    \/ \E s, l \in RLASites : Hear(s, l)

Spec == Init /\ [][Next]_vars

-----------------------------------------------------------------------------
(* Users have asked something about this site.                             *)
Touched(s) == \E what \in {"delete", "update"} : <<what, s>> \in asked

(* What a site believes of itself is in the table: whoever answered and    *)
(* whatever was lost, "self" names the row of the site, and not with a     *)
(* role above it, for a site whose row no user touched.                    *)
SelfIsInTable ==
    \A s \in Site : self[s] # NoSelf /\ ~Touched(s) =>
        /\ clusters[s].id = self[s].id
        /\ self[s].role = "master" => clusters[s].role = "master"

(* An RLA that serves is found by its Raft id, so GetLeaderHost and the    *)
(* forwarding handlers do not read the address of a nil cluster because of *)
(* it.  Two kinds are not: one whose row users touched, and one whose      *)
(* register loop ended because its site had no address.  That one is not   *)
(* listed, whoever registers its site meanwhile, until it is restarted.    *)
ServingLeadIsListed ==
    \A s \in RLASites : Serves(s) /\ ~Touched(s) =>
        (Listed(s) <=> state[<<"RLA", s>>] # "unregistered")

-----------------------------------------------------------------------------
(***************************************************************************)
(* Fairness.  The register loops go round and finish what was answered     *)
(* (weak).  Calls may fail, but not each time they get somewhere (strong). *)
(***************************************************************************)
Fairness ==
    /\ \A p \in Proc : /\ WF_vars(Attempt(p))
                       /\ WF_vars(WriteSelf(p))
                       /\ WF_vars(CallFails(p))
                       /\ SF_vars(Serve(p))
                       /\ SF_vars(SaveRow(p))
                       /\ SF_vars(Forward(p))
    /\ \A s \in RASites : WF_vars(SyncClusterConfig(s))

FairSpec == Spec /\ Fairness

(* The row of a site is stored and nobody is about to write "self": the    *)
(* site is refused its own address.                                        *)
Stuck(s) == /\ self[s] = NoSelf /\ clusters[s] # NoCluster
            /\ \A p \in Proc : p[2] = s => state[p] # "answered"

(* Users took the row of a site away, or its raft_id.                      *)
Lost(s) == /\ self[s] # NoSelf
           /\ \/ clusters[s].id # self[s].id
              \/ self[s].role = "master" /\ ~Listed(s)

(* Once the RLAs agree on a leader, every agent comes to serve:            *)
(* "Wait for a successful cluster registration" ends.  A lost answer       *)
(* leaves a row without "self", which is stuck until a user deletes it;    *)
(* then the site registers after all.  A row that users take from a site   *)
(* that has "self" is not replaced.  And every site must get its address,  *)
(* and the RLAs that served before that must have been restarted: as long  *)
(* as the leader is one of them, the others die whenever they ask for it.  *)
RegistrationCompletes ==
    \A l \in RLASites :
        (/\ <>[](/\ \A s \in RLASites : cache[s] = l /\ state[<<"RLA", s>>] # "unregistered"
                 /\ addressed = Site)
         /\ \A s \in Site : []~Lost(s) /\ []<>~Stuck(s)) =>
            \A p \in Proc : <>(state[p] = "serving")
=============================================================================
