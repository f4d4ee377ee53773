----------------------------- MODULE Inventory -----------------------------
(***************************************************************************)
(* The inventory of a tier's nodes: agents report what their cluster has,  *)
(* the RLA stores the report node by node, the scheduler reads the table   *)
(* cluster by cluster and picks with the scorer.  Nothing deletes a row:   *)
(* that a node is gone shows only by the age of what was last stored.      *)
(*                                                                         *)
(* Agent and RLA wait differently: the agent gives a request up after its  *)
(* client's timeout, while the RLA that was asked by way of a follower     *)
(* goes on with it, so an old report can be stored after a newer one.      *)
(***************************************************************************)
EXTENDS Scorer

CONSTANTS
    Worlds,                 \* what the clusters may hold, see WorldOK
    NodeHeartbeatTimeout    \* ticks after which a row no longer counts

(* A world is the nodes of each cluster in the order Kubernetes lists      *)
(* them, with the version of the cluster from which on each is unfit or    *)
(* gone (beyond Versions: never), the clusters whose agent may stop, how   *)
(* many reports are being stored at once (a bound), and the weights of an  *)
(* application.                                                            *)
Clusters == UNION {DOMAIN w.nodes : w \in Worlds}
Nodes(w) == UNION {ToSet(w.nodes[c]) : c \in Clusters}
Versions == 0 .. 1
WorldOK(w) ==
    /\ DOMAIN w.nodes = Clusters /\ w.mayStop \subseteq Clusters
    /\ w.maxRequests \in Nat \ {0}
    /\ IsFiniteSet(Nodes(w))
    /\ \A c \in Clusters : \A n \in ToSet(w.nodes[c]) :
          /\ n.cluster = c /\ {w.unfit[n.name], w.gone[n.name]} \subseteq Nat
          /\ \A a \in ToSet(Attributes) \ {"latency"} : n[a] \in Int
    /\ w.qos \in [energy : Int, pricing : Int, performance : Int]

ASSUME InventoryAssumption ==
    /\ NodeHeartbeatTimeout \in Nat
    /\ \A w \in Worlds : WorldOK(w)

VARIABLES
    world,      \* one of Worlds
    version,    \* of each cluster: what it holds now
    running,    \* the clusters whose agent runs
    table,      \* the rows of nodes: stored version and age, by node
    requests,   \* the reports being stored, in the order they were sent
    unread,     \* clusters the scheduler has yet to list in its round
    list,       \* the rows it has read
    answer      \* what it has just picked

vars  == <<world, version, running, table, requests, unread, list, answer>>
agent == <<version, running>>
round == <<unread, list>>

NoRow    == [stored |-> -1]
NoAnswer == [cluster |-> "none", nodes |-> {}]
Age      == 0 .. NodeHeartbeatTimeout + 1
Row      == [stored : Versions, age : Age]
Request  == [of : Clusters, version : Versions, looked : {"not yet", "found", "not found"},
             todo : Seq(Nodes(world)), awaited : BOOLEAN]

Reported(c, v) == {n \in ToSet(world.nodes[c]) : v < world.gone[n.name]}
Listings(c, v) ==
    {todo \in SetToSeqs(Reported(c, v)) :
        \A i, j \in DOMAIN todo : i < j =>
            \E k, l \in DOMAIN world.nodes[c] :
                k < l /\ world.nodes[c][k] = todo[i] /\ world.nodes[c][l] = todo[j]}
Fit(n, v) == v < world.unfit[n.name]

TypeOK ==
    /\ world \in Worlds
    /\ version \in [Clusters -> Versions]
    /\ running \subseteq Clusters
    /\ DOMAIN table = Nodes(world)
    /\ \A n \in Nodes(world) : table[n] \in Row \cup {NoRow}
    /\ requests \in Seq(Request) /\ Len(requests) \in 0 .. world.maxRequests
    /\ unread \subseteq Clusters
    /\ list \in Seq([node : Nodes(world), fit : BOOLEAN, age : Age])
    /\ answer.nodes \subseteq {n \in Nodes(world) : n.cluster = answer.cluster}

Init ==
    /\ world \in Worlds
    /\ version = [c \in Clusters |-> 0]
    /\ running = Clusters
    /\ table = [n \in Nodes(world) |-> NoRow]
    /\ requests = <<>>
    /\ unread = Clusters
    /\ list = <<>>
    /\ answer = NoAnswer

-----------------------------------------------------------------------------
(* Only Score picks; its pick is used at once.                             *)
NoPick == answer' = NoAnswer

(* The cluster changes: nodes are cordoned, come under pressure, go.       *)
Change(c) ==
    /\ version[c] + 1 \in Versions
    /\ \E n \in ToSet(world.nodes[c]) :
          version[c] + 1 \in {world.unfit[n.name], world.gone[n.name]}
    /\ version' = [version EXCEPT ![c] = @ + 1]
    /\ NoPick /\ UNCHANGED <<world, running, table, requests, round>>

(* The agent stops, or its cluster is cut off.                             *)
Stop(c) ==
    /\ c \in running \cap world.mayStop
    /\ running' = running \ {c}
    /\ NoPick /\ UNCHANGED <<world, version, table, requests, round>>

Awaited(c) ==
    \E i \in DOMAIN requests : requests[i].of = c /\ requests[i].awaited

(* Mutant of SendNodeInfo: the agent does not wait for its last report.    *)
SendWithoutWaiting(c) ==
    /\ c \in running
    /\ Len(requests) < world.maxRequests
    /\ Reported(c, version[c]) # {}
    /\ \E todo \in Listings(c, version[c]) :
          requests' = Append(requests,
              [of |-> c, version |-> version[c], looked |-> "not yet",
               todo |-> todo, awaited |-> TRUE])
    /\ NoPick /\ UNCHANGED <<world, agent, table, round>>

(* CollectNodeInfo and SendNodeInfo, once per heartbeat.  The agent waits  *)
(* for the answer before its next round.  A report that gets nowhere is    *)
(* not sent at all, as far as anyone can tell.                             *)
SendNodeInfo(c) ==
    /\ c \in running /\ ~Awaited(c)
    /\ Len(requests) < world.maxRequests
    /\ Reported(c, version[c]) # {}
    /\ \E todo \in Listings(c, version[c]) :
          requests' = Append(requests,
              [of |-> c, version |-> version[c], looked |-> "not yet",
               todo |-> todo, awaited |-> TRUE])
    /\ NoPick /\ UNCHANGED <<world, agent, table, round>>

(* The timeout of the agent's client.                                      *)
GiveUp(i) ==
    /\ requests[i].awaited
    /\ requests' = [requests EXCEPT ![i].awaited = FALSE]
    /\ NoPick /\ UNCHANGED <<world, agent, table, round>>

(* UpsertNodes of the knowledge base, for each node of the report: FetchOne *)
FetchOne(i, n) ==
    /\ requests[i].looked = "not yet" /\ n = Head(requests[i].todo)
    /\ requests' = [requests EXCEPT ![i].looked =
           IF table[n] = NoRow THEN "not found" ELSE "found"]
    /\ NoPick /\ UNCHANGED <<world, agent, table, round>>

(* ... and Save or Create, which stamps the row with the time of storing.  *)
(* Create fails when somebody else has inserted the row since, and the     *)
(* failure ends the request with what it has stored so far.                *)
Ends(i) == requests' = RemoveAt(requests, i)

Goes(i) ==
    IF Len(requests[i].todo) = 1
    THEN Ends(i)
    ELSE requests' = [requests EXCEPT ![i].todo = Tail(@),
                                      ![i].looked = "not yet"]

(* Mutant of NewRow: a row that is there gets a new time stamp only.       *)
StampOnly(old, v) == [stored |-> IF old = NoRow THEN v ELSE old.stored, age |-> 0]

NewRow(old, v) == [stored |-> v, age |-> 0]

Conflicts(i) ==
    requests[i].looked = "not found" /\ table[Head(requests[i].todo)] # NoRow

Store(i, n) ==
    /\ requests[i].looked # "not yet" /\ n = Head(requests[i].todo)
    /\ ~Conflicts(i)
    /\ table' = [table EXCEPT ![n] = NewRow(@, requests[i].version)]
    /\ Goes(i)
    /\ NoPick /\ UNCHANGED <<world, agent, round>>

(* Any statement may fail; so does Create on a row that is there.  A       *)
(* failed look-up changes as little as a failed store after it.            *)
UpsertFails(i) ==
    /\ requests[i].looked # "not yet"
    /\ Ends(i)
    /\ NoPick /\ UNCHANGED <<world, agent, table, round>>

-----------------------------------------------------------------------------
(* Time passes: rows get older, in the table and in the scheduler's hands. *)
Older(age) == IF age \in Age /\ age + 1 \in Age THEN age + 1 ELSE age

Tick ==
    /\ table' = [n \in DOMAIN table |->
                    IF table[n] = NoRow THEN NoRow
                    ELSE [table[n] EXCEPT !.age = Older(@)]]
    /\ list' = [i \in DOMAIN list |-> [list[i] EXCEPT !.age = Older(@)]]
    /\ NoPick /\ UNCHANGED <<world, agent, requests, unread>>

(* fetchNodes: the rows of one cluster, in the order the database finds    *)
(* them.                                                                   *)
ListNodes(c) ==
    /\ c \in unread
    /\ unread' = unread \ {c}
    /\ \E found \in SetToSeqs({n \in DOMAIN table :
                                 n.cluster = c /\ table[n] # NoRow}) :
          list' = list \o [i \in DOMAIN found |->
                             [node |-> found[i],
                              fit  |-> Fit(found[i], table[found[i]].stored),
                              age  |-> table[found[i]].age]]
    /\ NoPick /\ UNCHANGED <<world, agent, table, requests>>

(* An error ends the round; the next one starts afresh.                    *)
ListFails ==
    /\ unread # {}
    /\ unread' = Clusters
    /\ list' = <<>>
    /\ NoPick /\ UNCHANGED <<world, agent, table, requests>>

(* Mutant: the age of a row does not matter.                               *)
FilterByReport(rows) ==
    [i \in {i \in DOMAIN rows : rows[i].fit} |-> rows[i].node]

(* FilterEligibleNodes, by the clock of the moment of scoring.  What is    *)
(* left keeps its place.                                                   *)
FilterEligibleNodes(rows) ==
    [i \in {i \in DOMAIN rows : rows[i].fit /\ rows[i].age <= NodeHeartbeatTimeout}
        |-> rows[i].node]

(* The scorer's pick for a pending application; then the next round.       *)
Score ==
    /\ unread = {}
    /\ answer' \in ScoreNodes(FilterEligibleNodes(list), world.qos)
    /\ unread' = Clusters
    /\ list' = <<>>
    /\ UNCHANGED <<world, agent, table, requests>>

-----------------------------------------------------------------------------
Next ==
    \/ \E c \in Clusters : Change(c) \/ Stop(c) \/ SendNodeInfo(c) \/ ListNodes(c)
    \/ \E i \in DOMAIN requests :
          \/ GiveUp(i) \/ UpsertFails(i)
          \/ \E n \in Nodes(world) : FetchOne(i, n) \/ Store(i, n)
    \/ Tick
    \/ ListFails
    \/ Score

Spec == Init /\ [][Next]_vars

(* Agents, the scheduler and the clock go on.  What an RLA has begun to    *)
(* store it ends, well or badly, and the database does not refuse a node's *)
(* row for good.  The bound on reports starves no agent.                   *)
Names == UNION {DOMAIN w.gone : w \in Worlds}
StoreNamed(name) ==
    \E i \in DOMAIN requests, n \in Nodes(world) : n.name = name /\ Store(i, n)

(* The steps of Score, and below of ListNodes, by what only they do.       *)
Scored == unread = {} /\ unread' = Clusters

Fairness ==
    /\ \A c \in Clusters : SF_vars(SendNodeInfo(c))
    /\ WF_vars(\E i \in DOMAIN requests, n \in Nodes(world) : FetchOne(i, n))
    /\ WF_vars(\E i \in DOMAIN requests : Conflicts(i) /\ UpsertFails(i))
    /\ \A name \in Names : SF_vars(StoreNamed(name))
    /\ WF_vars(Tick)
    /\ WF_unread(\E c \in unread : unread' = unread \ {c})
    /\ WF_unread(Scored)

FairSpec == Spec /\ Fairness

-----------------------------------------------------------------------------
(* A row goes back to an older report only by a request its agent has      *)
(* given up: an agent's reports are stored in the order they were made as  *)
(* long as nothing times out.                                              *)
InventoryMovesForward ==
    [][\A n \in DOMAIN table :
          table'[n].stored < table[n].stored =>
             \E i \in DOMAIN requests :
                /\ requests[i].of = n.cluster
                /\ requests[i].version = table'[n].stored
                /\ ~requests[i].awaited]_vars

(* However many reports fail half way or overtake each other, the table    *)
(* comes to hold what the clusters of running agents hold.                 *)
Known(n) == /\ n.cluster \in running
            /\ n \in Reported(n.cluster, version[n.cluster])

InventoryCatchesUp ==
    <>[](\A n \in DOMAIN table :
            Known(n) => table[n].stored = version[n.cluster])

(* A node that is gone, or whose agent is, drops out of the scheduler's    *)
(* picks, although its row stays.                                          *)
GoneNodesLeave == <>[](\A n \in answer.nodes : Known(n))

(* There are eligible nodes and none is picked, which leaves applications  *)
(* pending, only when three or more score exactly the same and rounding    *)
(* puts their average above them -- or a weight is negative: then the      *)
(* nodes above the average may score less than none, and their cluster     *)
(* comes after one that has no such node.                                  *)
EmptyAnswerIsATie ==
    [][Scored /\ answer'.nodes = {} /\ ~NegativeWeight(world.qos) =>
          LET eligible == FilterEligibleNodes(list)
              scores   == Scores(eligible, world.qos)
          IN  DOMAIN eligible # {} =>
                 /\ ~Exact(world.qos) /\ Cardinality(DOMAIN eligible) > 2
                 /\ \A m, n \in ToSet(eligible) : scores[m] = scores[n]]_vars

BetterInEverything(m, n) ==
    /\ m.energy < n.energy /\ m.pricing < n.pricing
    /\ m.cpu > n.cpu /\ m.memory > n.memory
    /\ m.bandwidth > n.bandwidth /\ m.storage > n.storage

(* No node is left out of a pick that has a node of its cluster which is   *)
(* worse in everything.  (One that is no better in some attribute may be:  *)
(* equal values get different points, by the order of the list.)  This     *)
(* takes weights that are not negative: a negative one makes the better    *)
(* node the worse one.                                                     *)
BetterNodeIsNotLeftOut ==
    [][Scored /\ ~NegativeWeight(world.qos) =>
          \A n \in answer'.nodes, m \in ToSet(FilterEligibleNodes(list)) :
             m.cluster = n.cluster /\ BetterInEverything(m, n)
                => m \in answer'.nodes]_vars
=============================================================================
