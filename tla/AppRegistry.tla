---------------------------- MODULE AppRegistry ----------------------------
(***************************************************************************)
(* What the RLAs promise about an application, whoever asks and whoever    *)
(* serves: a row of the knowledge base that changes by whole operations.   *)
(* There are no processes, reads, writes or leaders here.  The module says *)
(* what an operation may do to a row, not how a handler computes it.       *)
(***************************************************************************)
EXTENDS AppRow

CONSTANTS Apps, MaxVersion

VARIABLES kb, created, clock

vars == <<kb, created, clock>>

Init ==
    /\ kb = [a \in Apps |-> NoRow]
    /\ created = {}
    /\ clock = 1

Exists(a) == kb[a] # NoRow

Becomes(a, row) ==
    /\ kb' = [kb EXCEPT ![a] = row]
    /\ UNCHANGED <<created, clock>>

(* A new application: some services, all of them pending.                  *)
Create(a) ==
    /\ a \notin created
    /\ \E S \in (SUBSET Tier) \ {{}}, v \in 1 .. MaxVersion :
          kb' = [kb EXCEPT ![a] = [t \in Tier |-> IF t \in S THEN NewService(v) ELSE NoService]]
    /\ created' = created \cup {a}
    /\ UNCHANGED clock

(* A request changes the services of T: each gets a version newer than any *)
(* the row has, and loses its status.  Either every service that was       *)
(* present gives its cluster up, or every service keeps what it had.       *)
Update(a) ==
    \E T \in SUBSET Tier, v \in 1 .. MaxVersion, replace \in BOOLEAN :
        LET present == {t \in Tier : kb[a][t].svc}
            cluster(t) == IF replace THEN NoCluster ELSE kb[a][t].cluster
        IN  /\ Exists(a)
            /\ \A t \in Tier : v > kb[a][t].version
            /\ replace => present \subseteq T
            /\ Becomes(a, [t \in Tier |->
                   IF t \in T THEN [NewService(v) EXCEPT !.cluster = cluster(t)]
                              ELSE kb[a][t]])

(* The cluster a service is placed on reports it.  The heartbeat is of the *)
(* time the report was read, which may be past, but not of one before the  *)
(* last heartbeat.                                                         *)
Report(a) ==
    \E t \in Tier, s \in Reported, now \in 1 .. clock :
        /\ Exists(a)
        /\ now >= kb[a][t].hb
        /\ kb[a][t].cluster # NoCluster
        /\ Becomes(a, [kb[a] EXCEPT
               ![t].status = [state |-> s, from |-> kb[a][t].cluster, ver |-> kb[a][t].version],
               ![t].hb     = now])

(* The pending services are placed, all of them at once, each in its tier. *)
Place(a) ==
    \E where \in [Tier -> Clusters \cup {NoCluster}] :
        /\ Exists(a)
        /\ \A t \in Pending(kb[a]) : where[t] # NoCluster /\ TierOf[where[t]] = t
        /\ Becomes(a, [t \in Tier |->
               IF t \in Pending(kb[a]) THEN [kb[a][t] EXCEPT !.cluster = where[t]]
                                       ELSE kb[a][t]])

(* Services that went silent give their clusters up and keep their version.*)
Evict(a) ==
    \E T \in (SUBSET Tier) \ {{}} :
        /\ Exists(a)
        /\ \A t \in T : /\ kb[a][t].status.state \in {"healthy", "progressing"}
                        /\ kb[a][t].hb + HeartbeatTimeout < clock
        /\ Becomes(a, [t \in Tier |-> IF t \in T THEN NewService(kb[a][t].version)
                                                 ELSE kb[a][t]])

(* Deleted for good: "created" keeps the id from being used again.         *)
Delete(a) == Exists(a) /\ Becomes(a, NoRow)

TimePasses == clock' = clock + 1 /\ UNCHANGED <<kb, created>>

Next ==
    \/ \E a \in Apps :
          Create(a) \/ Update(a) \/ Report(a) \/ Place(a) \/ Evict(a) \/ Delete(a)
    \/ TimePasses

Spec == Init /\ [][Next]_vars
=============================================================================
