---------------------------- MODULE LeaderCache ----------------------------
(***************************************************************************)
(* Who an RLA believes is the leader.  algo/raft wraps etcd's Raft library *)
(* and keeps the id of "the" leader in one atomic word, written when a     *)
(* heartbeat is received (Process) or sent (processMessages), and read by  *)
(* every handler and by the scheduler loop.  Messages travel as one HTTP   *)
(* POST each, from a goroutine each: they may be lost and overtake each    *)
(* other, and are not repeated.                                            *)
(*                                                                         *)
(* The library is external.  What is modelled of it is what moves the      *)
(* role, the term and the vote of a node.  Logs are left out: a node may   *)
(* refuse a vote it could give, which is all a log makes it do.            *)
(***************************************************************************)
EXTENDS Naturals, FiniteSets

CONSTANTS
    Node,           \* the Raft ids of the RLAs
    NoNode,         \* id 0: no leader known, no vote given
    WalSurvives,    \* a restarted RLA finds the log directory it wrote
    MaxTerm,        \* bound: terms
    MaxCrashes,     \* bound: crashes
    MaxInFlight     \* bound: messages under way when heartbeats are sent

ASSUME LeaderCacheAssumption ==
    /\ IsFiniteSet(Node)
    /\ NoNode \notin Node
    /\ WalSurvives \in BOOLEAN
    /\ MaxTerm \in Nat /\ MaxCrashes \in Nat /\ MaxInFlight \in Nat

Role == {"follower", "candidate", "leader"}
Message == [type : {"MsgVote", "MsgVoteResp", "MsgApp", "MsgHeartbeat"},
            from : Node, to : Node, term : Nat]

VARIABLES
    term, vote,     \* the hard state, saved to the WAL before messages leave
    role, granted,  \* the library's volatile state: role, votes received
    ready,          \* the term of the heartbeats in its Ready, 0 when none
    cache,          \* RaftNode.leader
    net,            \* messages under way
    crashes,        \* crashes so far
    elected         \* history: who has won each term

wal  == <<term, vote>>
vars == <<term, vote, role, granted, ready, cache, net, crashes, elected>>

TypeOK ==
    /\ term \in [Node -> Nat]
    /\ vote \in [Node -> Node \cup {NoNode}]
    /\ role \in [Node -> Role]
    /\ granted \in [Node -> SUBSET Node]
    /\ ready \in [Node -> Nat]
    /\ cache \in [Node -> Node \cup {NoNode}]
    /\ net \subseteq Message
    /\ crashes \in Nat
    /\ elected \in [1 .. MaxTerm -> SUBSET Node]

(* Mutant of FirstCache: the word is not set before startRaft.             *)
FirstCacheUnset(n) == IF Node = {n} THEN n ELSE "unset"

(* NewRaftNode: a node without peers is its own leader from the start.     *)
FirstCache(n) == IF Node = {n} THEN n ELSE NoNode

Init ==
    /\ term = [n \in Node |-> 0]
    /\ vote = [n \in Node |-> NoNode]
    /\ role = [n \in Node |-> "follower"]
    /\ granted = [n \in Node |-> {}]
    /\ ready = [n \in Node |-> 0]
    /\ cache = [n \in Node |-> FirstCache(n)]
    /\ net = {}
    /\ crashes = 0
    /\ elected = [t \in 1 .. MaxTerm |-> {}]

Quorum == {Q \in SUBSET Node : 2 * Cardinality(Q) > Cardinality(Node)}

ToPeers(n, type, t) ==
    {[type |-> type, from |-> n, to |-> p, term |-> t] : p \in Node \ {n}}

IsLeader(n)    == cache[n] = n
GetLeaderID(n) == cache[n]

-----------------------------------------------------------------------------
(* The library.                                                            *)

(* No heartbeat for an election timeout (or no leader yet): campaign.      *)
Campaign(n) ==
    /\ role[n] # "leader"
    /\ term[n] < MaxTerm
    /\ term' = [term EXCEPT ![n] = @ + 1]
    /\ vote' = [vote EXCEPT ![n] = n]
    /\ role' = [role EXCEPT ![n] = "candidate"]
    /\ granted' = [granted EXCEPT ![n] = {n}]
    /\ net' = net \cup ToPeers(n, "MsgVote", term[n] + 1)
    /\ UNCHANGED <<ready, cache, crashes, elected>>

(* A candidate with a quorum leads, and its first message is a MsgApp.     *)
Win(n) ==
    /\ role[n] = "candidate"
    /\ granted[n] \in Quorum
    /\ role' = [role EXCEPT ![n] = "leader"]
    /\ elected' = [elected EXCEPT ![term[n]] = @ \cup {n}]
    /\ net' = net \cup ToPeers(n, "MsgApp", term[n])
    /\ UNCHANGED <<term, vote, granted, ready, cache, crashes>>

(* Every heartbeat tick of a leader.                                       *)
Tick(n) ==
    /\ role[n] = "leader"
    /\ ready[n] = 0
    /\ ready' = [ready EXCEPT ![n] = term[n]]
    /\ UNCHANGED <<term, vote, role, granted, cache, net, crashes, elected>>

(* A message of a later term makes its receiver a follower in that term.   *)
(* Heard(m) is the part of Step that is common to all messages; "grant"    *)
(* is the vote it leads to.                                                *)
Heard(m, grant) ==
    LET n == m.to
        later == m.term > term[n]
    IN  /\ term' = [term EXCEPT ![n] = IF later THEN m.term ELSE @]
        /\ vote' = [vote EXCEPT ![n] = IF grant THEN m.from
                                       ELSE IF later THEN NoNode ELSE @]
        /\ role' = [role EXCEPT ![n] =
               IF \/ later
                  \/ m.term = term[n] /\ @ = "candidate" /\ m.type \in {"MsgApp", "MsgHeartbeat"}
               THEN "follower" ELSE @]
        /\ granted' = [granted EXCEPT ![n] =
               IF later THEN {}
               ELSE IF m.type = "MsgVoteResp" /\ m.term = term[n] THEN @ \cup {m.from}
               ELSE @]

MayGrant(m) == \/ m.term > term[m.to]
               \/ m.term = term[m.to] /\ vote[m.to] \in {NoNode, m.from}

StepVote(m) ==
    /\ m.type = "MsgVote"
    /\ \E grant \in {FALSE, MayGrant(m)} :
          /\ Heard(m, grant)
          /\ net' = (net \ {m}) \cup
                 IF grant THEN {[type |-> "MsgVoteResp", from |-> m.to, to |-> m.from,
                                 term |-> m.term]}
                          ELSE {}
    /\ UNCHANGED <<ready, cache, crashes, elected>>

StepOther(m) ==
    /\ m.type \in {"MsgVoteResp", "MsgApp"}
    /\ Heard(m, FALSE)
    /\ net' = net \ {m}
    /\ UNCHANGED <<ready, cache, crashes, elected>>

-----------------------------------------------------------------------------
(* The wrapper.                                                            *)

(* Mutants of Process: any message names a leader; only the first leader   *)
(* heard of is remembered.                                                 *)
ProcessAny(m) ==
    /\ cache' = [cache EXCEPT ![m.to] = m.from]
    /\ Heard(m, FALSE)
    /\ net' = net \ {m}
    /\ UNCHANGED <<ready, crashes, elected>>

ProcessOnce(m) ==
    /\ m.type = "MsgHeartbeat"
    /\ cache' = [cache EXCEPT ![m.to] = IF @ = NoNode THEN m.from ELSE @]
    /\ Heard(m, FALSE)
    /\ net' = net \ {m}
    /\ UNCHANGED <<ready, crashes, elected>>

(* RaftNode.Process: whoever sends a heartbeat is the leader, whatever its *)
(* term; only then is the library asked.                                   *)
Process(m) ==
    /\ m.type = "MsgHeartbeat"
    /\ cache' = [cache EXCEPT ![m.to] = m.from]
    /\ Heard(m, FALSE)
    /\ net' = net \ {m}
    /\ UNCHANGED <<ready, crashes, elected>>

(* serveChannels takes the heartbeats of a tick out of the library, saves  *)
(* the hard state, and hands them to processMessages and the transport.    *)
(* The library goes on meanwhile: when the heartbeats leave, and the cache *)
(* is written, the node may have stopped leading.                          *)
SendHeartbeats(n) ==
    /\ ready[n] # 0
    /\ Cardinality(net) < MaxInFlight
    /\ cache' = [cache EXCEPT ![n] = n]
    /\ net' = net \cup ToPeers(n, "MsgHeartbeat", ready[n])
    /\ ready' = [ready EXCEPT ![n] = 0]
    /\ UNCHANGED <<term, vote, role, granted, crashes, elected>>

(* The POST fails; nobody is told.                                         *)
Lose(m) ==
    /\ net' = net \ {m}
    /\ UNCHANGED <<term, vote, role, granted, ready, cache, crashes, elected>>

(* Mutant of Crash: the hard state is not restored (SetHardState left out  *)
(* of replayWAL).                                                          *)
CrashForgets(n) ==
    /\ crashes < MaxCrashes
    /\ crashes' = crashes + 1
    /\ role' = [role EXCEPT ![n] = "follower"]
    /\ granted' = [granted EXCEPT ![n] = {}]
    /\ ready' = [ready EXCEPT ![n] = 0]
    /\ cache' = [cache EXCEPT ![n] = FirstCache(n)]
    /\ term' = [term EXCEPT ![n] = 0] /\ vote' = [vote EXCEPT ![n] = NoNode]
    /\ UNCHANGED <<net, elected>>

(* The process dies and is started again.  startRaft replays the WAL it    *)
(* finds in its working directory, and starts a new node when there is     *)
(* none.                                                                   *)
Crash(n) ==
    /\ crashes < MaxCrashes
    /\ crashes' = crashes + 1
    /\ role' = [role EXCEPT ![n] = "follower"]
    /\ granted' = [granted EXCEPT ![n] = {}]
    /\ ready' = [ready EXCEPT ![n] = 0]
    /\ cache' = [cache EXCEPT ![n] = FirstCache(n)]
    /\ IF WalSurvives
       THEN UNCHANGED wal
       ELSE term' = [term EXCEPT ![n] = 0] /\ vote' = [vote EXCEPT ![n] = NoNode]
    /\ UNCHANGED <<net, elected>>

Next ==
    \/ \E n \in Node : Campaign(n) \/ Win(n) \/ Tick(n) \/ SendHeartbeats(n) \/ Crash(n)
    \/ \E m \in net : StepVote(m) \/ StepOther(m) \/ Process(m) \/ Lose(m)

Spec == Init /\ [][Next]_vars

-----------------------------------------------------------------------------
(* A node never takes for the leader one that has not won an election:     *)
(* only a leader sends heartbeats, and only heartbeats write the cache.    *)
KnownLeaderWasElected ==
    \A n \in Node : cache[n] # NoNode /\ Node # {n} =>
        \E t \in 1 .. MaxTerm : cache[n] \in elected[t]

(* One node wins a term.  It takes what the wrapper does with the hard     *)
(* state: saved before the messages leave, and found again after a restart.*)
OneLeaderPerTerm == \A t \in 1 .. MaxTerm : Cardinality(elected[t]) <= 1

-----------------------------------------------------------------------------
(* A leader's loop goes on ticking and sending, and of the heartbeats that *)
(* are sent to a node again and again some arrive; which is not said.      *)
LeaderLoop(n) == Tick(n) \/ SendHeartbeats(n)

HeartbeatArrives(n) == \E m \in net : m.to = n /\ Process(m)

FairSpec ==
    Spec /\ \A n \in Node : WF_vars(LeaderLoop(n)) /\ SF_vars(HeartbeatArrives(n))

(* n leads the latest term, and everybody is in it.                        *)
Settled(n) ==
    /\ role[n] = "leader"
    /\ \A p \in Node \ {n} : role[p] = "follower" /\ term[p] = term[n]

(* Once elections are over, every cache comes to hold the leader and keeps *)
(* it, so that one RLA believes it leads: late heartbeats of earlier       *)
(* leaders do not win in the end.  Until then several may believe it: a    *)
(* deposed leader does until it hears a heartbeat, and any heartbeat will  *)
(* do.                                                                     *)
CachesSettle ==
    \A n \in Node : (<>[]Settled(n)) =>
        <>[](\A p \in Node : GetLeaderID(p) = n /\ (IsLeader(p) <=> p = n))
=============================================================================
