---------------------------- MODULE Forwarding ----------------------------
(***************************************************************************)
(* Requests that only the leader serves: to create, update or delete an    *)
(* application, to delete a cluster, to report nodes.  Any RLA takes them. *)
(* One that does not believe it leads sends them to the RLA it believes    *)
(* does, which does the same in turn: nothing counts the hops, and no      *)
(* timeout ends them.  Two RLAs that believe in each other pass a request  *)
(* to and fro.                                                             *)
(*                                                                         *)
(* The module composes the handlers with the caches of LeaderCache.        *)
(***************************************************************************)
EXTENDS LeaderCache

CONSTANT Req        \* clients, with one request at a time

VARIABLES
    at,             \* the RLA the request has reached, NoNode when none
    stage           \* what is done with it there

requests == <<at, stage>>
allVars  == <<vars, requests>>

FwdTypeOK ==
    /\ TypeOK
    /\ at \in [Req -> Node \cup {NoNode}]
    /\ stage \in [Req -> {"none", "arrived", "forwarding", "served"}]
    /\ \A r \in Req : at[r] = NoNode <=> stage[r] = "none"

FwdInit ==
    /\ Init
    /\ at = [r \in Req |-> NoNode]
    /\ stage = [r \in Req |-> "none"]

Goes(r, where, what) ==
    /\ at' = [at EXCEPT ![r] = where]
    /\ stage' = [stage EXCEPT ![r] = what]
    /\ UNCHANGED vars

-----------------------------------------------------------------------------
(* A client calls some RLA.                                                *)
Submit(r, n) == stage[r] = "none" /\ Goes(r, n, "arrived")

(* Mutants of Handle: the request is served by whoever has it; it is       *)
(* forwarded without asking.                                               *)
HandleAnywhere(r) == stage[r] = "arrived" /\ Goes(r, at[r], "served")

HandleForwards(r) == stage[r] = "arrived" /\ Goes(r, at[r], "forwarding")

(* The handler asks Isleader: it serves the request, or forwards it.       *)
Handle(r) ==
    /\ stage[r] = "arrived"
    /\ Goes(r, at[r], IF IsLeader(at[r]) THEN "served" ELSE "forwarding")

(* forwardToLeader: GetLeaderHost reads the cache again, which may have    *)
(* changed since, even to this RLA.                                        *)
Forward(r) ==
    /\ stage[r] = "forwarding"
    /\ GetLeaderID(at[r]) # NoNode
    /\ Goes(r, GetLeaderID(at[r]), "arrived")

(* No leader is known, its address is not found, or the call does not get  *)
(* through: 500.                                                           *)
ForwardFails(r) ==
    /\ stage[r] = "forwarding"
    /\ Goes(r, NoNode, "none")

Answer(r) == stage[r] = "served" /\ Goes(r, NoNode, "none")

(* A crash takes the requests that had reached the RLA with it.            *)
CrashWithRequests(n) ==
    /\ Crash(n)
    /\ at' = [r \in Req |-> IF at[r] = n THEN NoNode ELSE at[r]]
    /\ stage' = [r \in Req |-> IF at[r] = n THEN "none" ELSE stage[r]]

Handling(r) == Handle(r) \/ Forward(r) \/ ForwardFails(r) \/ Answer(r)

RaftStep ==
    /\ \/ \E n \in Node : Campaign(n) \/ Win(n) \/ Tick(n) \/ SendHeartbeats(n)
       \/ \E m \in net : StepVote(m) \/ StepOther(m) \/ Process(m) \/ Lose(m)
    /\ UNCHANGED requests

FwdNext ==
    \/ RaftStep
    \/ \E n \in Node : CrashWithRequests(n)
    \/ \E r \in Req : Handling(r) \/ \E n \in Node : Submit(r, n)

FwdSpec == FwdInit /\ [][FwdNext]_allVars

-----------------------------------------------------------------------------
(* Handlers run to their end, the heartbeats go on (see LeaderCache).      *)
FwdFairSpec ==
    /\ FwdSpec
    /\ \A n \in Node : /\ WF_allVars(LeaderLoop(n) /\ UNCHANGED requests)
                       /\ SF_allVars(HeartbeatArrives(n) /\ UNCHANGED requests)
    /\ \A r \in Req : WF_allVars(Handling(r))

(* No request is passed on for ever, once elections are over: the caches   *)
(* of the RLAs that pass it to each other come to agree.                   *)
RequestsEnd ==
    \A n \in Node : (<>[]Settled(n)) =>
        \A r \in Req : stage[r] # "none" ~> stage[r] = "none"

(* And from some time on the leader serves every request that is served.   *)
LeaderServesInTheEnd ==
    \A n \in Node : (<>[]Settled(n)) =>
        <>[](\A r \in Req : stage[r] = "served" => at[r] = n)
=============================================================================
