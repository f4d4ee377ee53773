------------------------- MODULE LeaderCacheProofs -------------------------
(***************************************************************************)
(* What holds of the leader caches for any number of RLAs, terms, crashes  *)
(* and messages: their types, that a cache names only nodes that have won  *)
(* an election, and, when the log directory survives a restart, that a     *)
(* term has one winner.  The last is Raft's election safety, on what this  *)
(* program gives it: messages that are lost, reordered and delivered late, *)
(* a hard state that is saved before they leave, and all else forgotten in *)
(* a restart.  The theorems are then carried over to the RLAs that forward *)
(* requests along the caches.                                              *)
(***************************************************************************)
EXTENDS Forwarding, FiniteSetTheorems, TLAPS

-----------------------------------------------------------------------------
(* Types.                                                                  *)

LEMMA PeersAreMessages ==
    ASSUME NEW n \in Node, NEW t \in Nat,
           NEW type \in {"MsgVote", "MsgVoteResp", "MsgApp", "MsgHeartbeat"}
    PROVE  ToPeers(n, type, t) \subseteq Message
BY DEF ToPeers, Message

LEMMA HeardType ==
    ASSUME TypeOK, NEW m \in Message, NEW grant \in BOOLEAN, Heard(m, grant)
    PROVE  /\ term' \in [Node -> Nat]
           /\ vote' \in [Node -> Node \cup {NoNode}]
           /\ role' \in [Node -> Role]
           /\ granted' \in [Node -> SUBSET Node]
<1>1. m.to \in Node /\ m.from \in Node /\ m.term \in Nat
  BY DEF Message
<1> QED
  BY <1>1 DEF Heard, TypeOK, Role

LEMMA TypeStep == TypeOK /\ [Next]_vars => TypeOK'
<1> SUFFICES ASSUME TypeOK, [Next]_vars PROVE TypeOK'
  OBVIOUS
<1> USE LeaderCacheAssumption DEF TypeOK
<1>1. ASSUME NEW n \in Node, Campaign(n)
      PROVE  TypeOK'
  <2>1. ToPeers(n, "MsgVote", term[n] + 1) \subseteq Message
    BY PeersAreMessages
  <2> QED
    BY <1>1, <2>1 DEF Campaign, Role
<1>2. ASSUME NEW n \in Node, Win(n)
      PROVE  TypeOK'
  <2>1. ToPeers(n, "MsgApp", term[n]) \subseteq Message
    BY PeersAreMessages
  <2> QED
    BY <1>2, <2>1 DEF Win, Role
<1>3. ASSUME NEW n \in Node, Tick(n)
      PROVE  TypeOK'
  BY <1>3 DEF Tick
<1>4. ASSUME NEW n \in Node, SendHeartbeats(n)
      PROVE  TypeOK'
  <2>1. ToPeers(n, "MsgHeartbeat", ready[n]) \subseteq Message
    BY PeersAreMessages
  <2> QED
    BY <1>4, <2>1 DEF SendHeartbeats
<1>5. ASSUME NEW n \in Node, Crash(n)
      PROVE  TypeOK'
  BY <1>5 DEF Crash, FirstCache, Role, wal
<1>6. ASSUME NEW m \in net, StepVote(m)
      PROVE  TypeOK'
  <2>1. PICK grant \in {FALSE, MayGrant(m)} :
          /\ Heard(m, grant)
          /\ net' = (net \ {m}) \cup
                 IF grant THEN {[type |-> "MsgVoteResp", from |-> m.to, to |-> m.from,
                                 term |-> m.term]}
                          ELSE {}
    BY <1>6 DEF StepVote
  <2>2. grant \in BOOLEAN /\ m \in Message
    BY DEF MayGrant
  <2>3. net' \subseteq Message
    BY <2>1, <2>2 DEF Message
  <2> QED
    BY <1>6, <2>1, <2>2, <2>3, HeardType DEF StepVote
<1>7. ASSUME NEW m \in net, StepOther(m)
      PROVE  TypeOK'
  BY <1>7, HeardType DEF StepOther
<1>8. ASSUME NEW m \in net, Process(m)
      PROVE  TypeOK'
  <2>1. m \in Message /\ m.from \in Node
    BY DEF Message
  <2> QED
    BY <1>8, <2>1, HeardType DEF Process
<1>9. ASSUME NEW m \in net, Lose(m)
      PROVE  TypeOK'
  BY <1>9 DEF Lose
<1>10. CASE UNCHANGED vars
  BY <1>10 DEF vars
<1> QED
  BY <1>1, <1>2, <1>3, <1>4, <1>5, <1>6, <1>7, <1>8, <1>9, <1>10 DEF Next

LEMMA TypeInit == Init => TypeOK
BY LeaderCacheAssumption DEF Init, TypeOK, FirstCache, Role

THEOREM CacheTypes == Spec => []TypeOK
BY TypeInit, TypeStep, PTL DEF Spec

-----------------------------------------------------------------------------
(* The cache names winners.                                                *)

(* Terms stay within the bound, a leader has won its term, and so has the  *)
(* sender of every heartbeat: the one in a Ready, the one under way, and   *)
(* the one that a cache remembers.                                         *)
Terms ==
    /\ \A n \in Node : term[n] <= MaxTerm /\ (role[n] # "follower" => term[n] >= 1)
    /\ \A m \in net : m.term \in 1 .. MaxTerm

Winners ==
    /\ \A n \in Node : role[n] = "leader" => n \in elected[term[n]]
    /\ \A n \in Node : ready[n] # 0 => ready[n] \in 1 .. MaxTerm /\ n \in elected[ready[n]]
    /\ \A m \in net : m.type = "MsgHeartbeat" => m.from \in elected[m.term]

CacheInv == TypeOK /\ Terms /\ Winners /\ KnownLeaderWasElected

LEMMA CacheInit == Init => CacheInv
BY TypeInit, LeaderCacheAssumption
   DEF Init, CacheInv, Terms, Winners, KnownLeaderWasElected, FirstCache

(* Nobody's victory is forgotten.                                          *)
LEMMA ElectedGrows ==
    ASSUME TypeOK, [Next]_vars
    PROVE  \A t \in 1 .. MaxTerm : elected[t] \subseteq elected'[t]
<1>1. CASE UNCHANGED elected
  BY <1>1
<1>2. ASSUME NEW n \in Node, Win(n)
      PROVE  \A t \in 1 .. MaxTerm : elected[t] \subseteq elected'[t]
  BY <1>2 DEF Win, TypeOK
<1> QED
  BY <1>1, <1>2 DEF Next, vars, wal, Campaign, Tick, SendHeartbeats, Crash, StepVote, StepOther,
                    Process, Lose

LEMMA HeardTerms ==
    ASSUME TypeOK, Terms, NEW m \in net, NEW grant \in BOOLEAN, Heard(m, grant)
    PROVE  /\ \A n \in Node : term'[n] <= MaxTerm /\ (role'[n] # "follower" => term'[n] >= 1)
           /\ \A n \in Node : role'[n] = "leader" => role[n] = "leader" /\ term'[n] = term[n]
<1>1. m \in Message /\ m.to \in Node /\ m.term \in 1 .. MaxTerm
  BY DEF TypeOK, Message, Terms
<1> QED
  BY <1>1, LeaderCacheAssumption DEF Heard, TypeOK, Terms

LEMMA TermsStep == TypeOK /\ Terms /\ Winners /\ [Next]_vars => Terms'
<1> SUFFICES ASSUME TypeOK, Terms, Winners, [Next]_vars PROVE Terms'
  OBVIOUS
<1> USE LeaderCacheAssumption DEF TypeOK, Terms
<1>1. ASSUME NEW n \in Node, Campaign(n)
      PROVE  Terms'
  BY <1>1 DEF Campaign, ToPeers, Role
<1>2. ASSUME NEW n \in Node, Win(n)
      PROVE  Terms'
  BY <1>2 DEF Win, ToPeers, Role
<1>3. ASSUME NEW n \in Node, Tick(n)
      PROVE  Terms'
  BY <1>3 DEF Tick
<1>4. ASSUME NEW n \in Node, SendHeartbeats(n)
      PROVE  Terms'
  BY <1>4 DEF SendHeartbeats, ToPeers, Winners
<1>5. ASSUME NEW n \in Node, Crash(n)
      PROVE  Terms'
  BY <1>5 DEF Crash, wal, Role
<1>6. ASSUME NEW m \in net, StepVote(m)
      PROVE  Terms'
  <2>1. PICK grant \in {FALSE, MayGrant(m)} :
          /\ Heard(m, grant)
          /\ net' = (net \ {m}) \cup
                 IF grant THEN {[type |-> "MsgVoteResp", from |-> m.to, to |-> m.from,
                                 term |-> m.term]}
                          ELSE {}
    BY <1>6 DEF StepVote
  <2>2. grant \in BOOLEAN
    BY DEF MayGrant
  <2> QED
    BY <2>1, <2>2, HeardTerms
<1>7. ASSUME NEW m \in net, StepOther(m) \/ Process(m)
      PROVE  Terms'
  BY <1>7, HeardTerms DEF StepOther, Process
<1>8. ASSUME NEW m \in net, Lose(m)
      PROVE  Terms'
  BY <1>8 DEF Lose
<1>9. CASE UNCHANGED vars
  BY <1>9 DEF vars
<1> QED
  BY <1>1, <1>2, <1>3, <1>4, <1>5, <1>6, <1>7, <1>8, <1>9 DEF Next

LEMMA WinnersStep == TypeOK /\ Terms /\ Winners /\ [Next]_vars => Winners'
<1> SUFFICES ASSUME TypeOK, Terms, Winners, [Next]_vars PROVE Winners'
  OBVIOUS
<1>0. \A t \in 1 .. MaxTerm : elected[t] \subseteq elected'[t]
  BY ElectedGrows
<1> USE LeaderCacheAssumption DEF TypeOK, Terms, Winners
<1>1. ASSUME NEW n \in Node, Campaign(n)
      PROVE  Winners'
  BY <1>1 DEF Campaign, ToPeers, Role
<1>2. ASSUME NEW n \in Node, Win(n)
      PROVE  Winners'
  <2>1. term[n] \in 1 .. MaxTerm
    BY <1>2 DEF Win
  <2>2. n \in elected'[term[n]]
    BY <1>2, <2>1 DEF Win
  <2>3. \A p \in Node : role'[p] = "leader" => p \in elected'[term'[p]]
    <3> TAKE p \in Node
    <3>1. CASE p = n
      BY <1>2, <2>2, <3>1 DEF Win
    <3>2. CASE p # n
      <4>1. role'[p] = role[p] /\ term'[p] = term[p]
        BY <1>2, <3>2 DEF Win
      <4>2. role[p] = "leader" => term[p] \in 1 .. MaxTerm
        OBVIOUS
      <4> QED
        BY <1>0, <4>1, <4>2
    <3> QED
      BY <3>1, <3>2
  <2>4. \A p \in Node : ready'[p] # 0 => ready'[p] \in 1 .. MaxTerm /\ p \in elected'[ready'[p]]
    BY <1>0, <1>2 DEF Win
  <2>5. \A m \in net' : m.type = "MsgHeartbeat" => m \in net
    BY <1>2 DEF Win, ToPeers
  <2>6. \A m \in net' : m.type = "MsgHeartbeat" => m.from \in elected'[m.term]
    BY <1>0, <2>5
  <2> QED
    BY <2>3, <2>4, <2>6
<1>3. ASSUME NEW n \in Node, Tick(n)
      PROVE  Winners'
  BY <1>3 DEF Tick
<1>4. ASSUME NEW n \in Node, SendHeartbeats(n)
      PROVE  Winners'
  BY <1>4 DEF SendHeartbeats, ToPeers
<1>5. ASSUME NEW n \in Node, Crash(n)
      PROVE  Winners'
  BY <1>5 DEF Crash, wal, Role
<1>6. ASSUME NEW m \in net, StepVote(m)
      PROVE  Winners'
  <2>1. PICK grant \in {FALSE, MayGrant(m)} :
          /\ Heard(m, grant)
          /\ net' = (net \ {m}) \cup
                 IF grant THEN {[type |-> "MsgVoteResp", from |-> m.to, to |-> m.from,
                                 term |-> m.term]}
                          ELSE {}
    BY <1>6 DEF StepVote
  <2>2. grant \in BOOLEAN
    BY DEF MayGrant
  <2>3. \A n \in Node : role'[n] = "leader" => role[n] = "leader" /\ term'[n] = term[n]
    BY <2>1, <2>2, HeardTerms
  <2> QED
    BY <1>6, <2>1, <2>3 DEF StepVote
<1>7. ASSUME NEW m \in net, StepOther(m) \/ Process(m)
      PROVE  Winners'
  <2>1. \A n \in Node : role'[n] = "leader" => role[n] = "leader" /\ term'[n] = term[n]
    BY <1>7, HeardTerms DEF StepOther, Process
  <2> QED
    BY <1>7, <2>1 DEF StepOther, Process
<1>8. ASSUME NEW m \in net, Lose(m)
      PROVE  Winners'
  BY <1>8 DEF Lose
<1>9. CASE UNCHANGED vars
  BY <1>9 DEF vars
<1> QED
  BY <1>1, <1>2, <1>3, <1>4, <1>5, <1>6, <1>7, <1>8, <1>9 DEF Next

(* The cache is written when a heartbeat is received or sent, and reset in *)
(* a restart.                                                              *)
LEMMA KnownStep == CacheInv /\ [Next]_vars => KnownLeaderWasElected'
<1> SUFFICES ASSUME CacheInv, [Next]_vars,
                    NEW n \in Node, cache'[n] # NoNode, Node # {n}
             PROVE  \E t \in 1 .. MaxTerm : cache'[n] \in elected'[t]
  BY DEF KnownLeaderWasElected
<1>0. \A t \in 1 .. MaxTerm : elected[t] \subseteq elected'[t]
  BY ElectedGrows DEF CacheInv
<1>1. CASE cache'[n] = cache[n]
  BY <1>0, <1>1 DEF CacheInv, KnownLeaderWasElected
<1>2. CASE cache'[n] # cache[n]
  <2> USE DEF CacheInv, TypeOK
  <2>1. ASSUME NEW p \in Node, SendHeartbeats(p)
        PROVE  \E t \in 1 .. MaxTerm : cache'[n] \in elected'[t]
    <3>1. p = n /\ cache'[n] = n /\ ready[n] # 0
      BY <1>2, <2>1 DEF SendHeartbeats
    <3> QED
      BY <1>0, <3>1 DEF Winners
  <2>2. ASSUME NEW p \in Node, Crash(p)
        PROVE  FALSE
    BY <1>2, <2>2 DEF Crash, FirstCache
  <2>3. ASSUME NEW m \in net, Process(m)
        PROVE  \E t \in 1 .. MaxTerm : cache'[n] \in elected'[t]
    <3>1. m \in Message /\ m.term \in 1 .. MaxTerm /\ m.type = "MsgHeartbeat"
      BY <2>3 DEF Terms, Process
    <3>2. cache'[n] = m.from
      BY <1>2, <2>3, <3>1 DEF Process, Message
    <3> QED
      BY <1>0, <3>1, <3>2 DEF Winners
  <2> QED
    BY <1>2, <2>1, <2>2, <2>3
    DEF Next, vars, Campaign, Win, Tick, StepVote, StepOther, Lose
<1> QED
  BY <1>1, <1>2

(* A node that is taken for the leader has won an election.                *)
THEOREM KnownLeaderSafe == Spec => []KnownLeaderWasElected
<1>1. CacheInv /\ [Next]_vars => CacheInv'
  BY TypeStep, TermsStep, WinnersStep, KnownStep DEF CacheInv
<1>2. CacheInv => KnownLeaderWasElected
  BY DEF CacheInv
<1> QED
  BY CacheInit, <1>1, <1>2, PTL DEF Spec

-----------------------------------------------------------------------------
(* One winner per term.                                                    *)

(* p's vote in term t is n's: n has counted it, or the answer is under way.*)
Supports(p, n, t) ==
    \/ term[n] = t /\ p \in granted[n]
    \/ \E m \in net : m.type = "MsgVoteResp" /\ m.from = p /\ m.to = n /\ m.term = t

(* What p's hard state says of it: the vote, until the term is past.       *)
Backs(p, n, t) == term[p] > t \/ (term[p] = t /\ vote[p] = n)

(* A quorum has voted for n, and none of it for another, now or ever: no   *)
(* vote for another is counted or under way, and the hard state does not   *)
(* let one be given any more.                                              *)
Chosen(n, t) ==
    \E Q \in Quorum : \A p \in Q :
        Backs(p, n, t) /\ \A o \in Node \ {n} : ~Supports(p, o, t)

VotesInv ==
    /\ TypeOK
    /\ \A p, n \in Node, t \in Nat : Supports(p, n, t) => Backs(p, n, t)
    /\ \A p, n, o \in Node, t \in Nat : Supports(p, n, t) /\ Supports(p, o, t) => n = o
    /\ \A t \in 1 .. MaxTerm : \A n \in elected[t] : Chosen(n, t)
    /\ \A t \in 1 .. MaxTerm : \A n, o \in elected[t] : n = o

LEMMA QuorumsMeet ==
    ASSUME NEW Q \in Quorum, NEW R \in Quorum
    PROVE  \E p \in Node : p \in Q /\ p \in R
<1>1. Q \subseteq Node /\ R \subseteq Node /\ IsFiniteSet(Node)
  BY LeaderCacheAssumption DEF Quorum
<1>2. /\ Cardinality(Q) \in Nat /\ Cardinality(R) \in Nat /\ Cardinality(Node) \in Nat
  BY <1>1, FS_Subset, FS_CardinalityType
<1>3. Cardinality(Q) + Cardinality(R) > Cardinality(Node)
  BY <1>2 DEF Quorum
<1>4. Q \cap R # {}
  BY <1>1, <1>3, FS_MajoritiesIntersect
<1> QED
  BY <1>1, <1>4

(* The hard state keeps a promise: neither a message nor a restart takes a *)
(* vote back within its term.                                              *)
LEMMA BacksStep ==
    ASSUME TypeOK, WalSurvives, [Next]_vars, NEW p \in Node, NEW n \in Node, NEW t \in Nat,
           Backs(p, n, t)
    PROVE  Backs(p, n, t)'
<1> USE LeaderCacheAssumption DEF TypeOK, Backs
<1>1. ASSUME NEW o \in Node, Campaign(o)
      PROVE  Backs(p, n, t)'
  BY <1>1 DEF Campaign
<1>2. ASSUME NEW m \in net, NEW grant \in BOOLEAN, Heard(m, grant), grant => MayGrant(m)
      PROVE  Backs(p, n, t)'
  <2>1. m.to \in Node /\ m.from \in Node /\ m.term \in Nat
    BY DEF Message
  <2> QED
    BY <1>2, <2>1 DEF Heard, MayGrant
<1>3. ASSUME NEW m \in net, StepVote(m)
      PROVE  Backs(p, n, t)'
  <2>1. PICK grant \in {FALSE, MayGrant(m)} : Heard(m, grant)
    BY <1>3 DEF StepVote
  <2>2. grant \in BOOLEAN /\ (grant => MayGrant(m))
    BY DEF MayGrant
  <2> QED
    BY <1>2, <2>1, <2>2
<1>4. ASSUME NEW m \in net, StepOther(m) \/ Process(m)
      PROVE  Backs(p, n, t)'
  BY <1>2, <1>4 DEF StepOther, Process
<1>5. CASE UNCHANGED <<term, vote>>
  BY <1>5
<1> QED
  BY <1>1, <1>3, <1>4, <1>5
  DEF Next, vars, wal, Win, Tick, SendHeartbeats, Crash, Lose

(* A vote is given to one node, by a hard state that had not voted.        *)
LEMMA SupportStep ==
    ASSUME TypeOK, WalSurvives, [Next]_vars, NEW p \in Node, NEW n \in Node, NEW t \in Nat,
           Supports(p, n, t)', ~Supports(p, n, t)
    PROVE  /\ term'[p] = t /\ vote'[p] = n
           /\ \A o \in Node : Backs(p, o, t) => o = n
<1> DEFINE New == /\ term'[p] = t /\ vote'[p] = n
                  /\ \A o \in Node : Backs(p, o, t) => o = n
<1> USE LeaderCacheAssumption DEF TypeOK, Supports
<1>1. ASSUME NEW o \in Node, Campaign(o)
      PROVE  New
  <2>1. \A m \in net' : m.type = "MsgVoteResp" => m \in net
    BY <1>1 DEF Campaign, ToPeers
  <2>2. term'[n] = t /\ p \in granted'[n]
    BY <2>1
  <2>3. n = o /\ p = n /\ t = term[n] + 1
    BY <1>1, <2>2 DEF Campaign
  <2> QED
    BY <1>1, <2>3 DEF Campaign, Backs
<1>2. ASSUME NEW m \in net, StepVote(m)
      PROVE  New
  <2>1. PICK grant \in {FALSE, MayGrant(m)} :
          /\ Heard(m, grant)
          /\ net' = (net \ {m}) \cup
                 IF grant THEN {[type |-> "MsgVoteResp", from |-> m.to, to |-> m.from,
                                 term |-> m.term]}
                          ELSE {}
    BY <1>2 DEF StepVote
  <2>2. m.type = "MsgVote" /\ m.to \in Node /\ m.from \in Node /\ m.term \in Nat
    BY <1>2 DEF StepVote, Message
  <2>3. ~(term'[n] = t /\ p \in granted'[n])
    BY <2>1, <2>2 DEF Heard
  <2>4. grant /\ p = m.to /\ n = m.from /\ t = m.term
    BY <2>1, <2>3
  <2>5. MayGrant(m) /\ Heard(m, TRUE)
    BY <2>1, <2>4
  <2>6. term'[p] = t /\ vote'[p] = n
    BY <2>2, <2>4, <2>5 DEF Heard, MayGrant
  <2>7. \A o \in Node : Backs(p, o, t) => o = n
    BY <2>2, <2>4, <2>5 DEF Backs, MayGrant
  <2> QED
    BY <2>6, <2>7
<1>3. ASSUME NEW m \in net, StepOther(m) \/ Process(m)
      PROVE  FALSE
  <2>1. Heard(m, FALSE) /\ net' = net \ {m}
    BY <1>3 DEF StepOther, Process
  <2>2. m.to \in Node /\ m.from \in Node /\ m.term \in Nat
    BY DEF Message
  <2>3. term'[n] = t /\ p \in granted'[n]
    BY <2>1
  <2> QED
    BY <2>1, <2>2, <2>3 DEF Heard
<1>4. ASSUME NEW o \in Node, Win(o) \/ SendHeartbeats(o)
      PROVE  FALSE
  BY <1>4 DEF Win, SendHeartbeats, ToPeers
<1>5. ASSUME NEW o \in Node, Tick(o) \/ Crash(o)
      PROVE  FALSE
  BY <1>5 DEF Tick, Crash, wal
<1>6. ASSUME NEW m \in net, Lose(m)
      PROVE  FALSE
  BY <1>6 DEF Lose
<1>7. CASE UNCHANGED vars
  BY <1>7 DEF vars
<1> QED
  BY <1>1, <1>2, <1>3, <1>4, <1>5, <1>6, <1>7 DEF Next

(* Only a candidate with a quorum wins.                                    *)
LEMMA ElectedStep ==
    ASSUME TypeOK, [Next]_vars, NEW t \in 1 .. MaxTerm, NEW n \in elected'[t], n \notin elected[t]
    PROVE  n \in Node /\ term[n] = t /\ granted[n] \in Quorum
<1>1. ASSUME NEW o \in Node, Win(o)
      PROVE  n \in Node /\ term[n] = t /\ granted[n] \in Quorum
  BY <1>1 DEF Win, TypeOK
<1> QED
  BY <1>1 DEF Next, vars, wal, Campaign, Tick, SendHeartbeats, Crash, StepVote, StepOther,
              Process, Lose

LEMMA ChosenStep ==
    ASSUME VotesInv, WalSurvives, [Next]_vars, NEW t \in Nat, NEW n \in Node, Chosen(n, t)
    PROVE  Chosen(n, t)'
<1>1. PICK Q \in Quorum : \A p \in Q :
          Backs(p, n, t) /\ \A o \in Node \ {n} : ~Supports(p, o, t)
  BY DEF Chosen
<1>2. ASSUME NEW p \in Q
      PROVE  Backs(p, n, t)' /\ \A o \in Node \ {n} : ~Supports(p, o, t)'
  <2>1. p \in Node
    BY DEF Quorum
  <2>2. Backs(p, n, t) /\ \A o \in Node \ {n} : ~Supports(p, o, t)
    BY <1>1
  <2>3. Backs(p, n, t)'
    BY <2>1, <2>2, BacksStep DEF VotesInv
  <2>4. ASSUME NEW o \in Node \ {n}, Supports(p, o, t)'
        PROVE  FALSE
    <3>1. Backs(p, n, t) => n = o
      BY <2>1, <2>2, <2>4, SupportStep DEF VotesInv
    <3> QED
      BY <2>2, <3>1
  <2> QED
    BY <2>3, <2>4
<1> QED
  BY <1>2 DEF Chosen, Quorum

(* A candidate with a quorum of votes has been chosen.                     *)
LEMMA QuorumChooses ==
    ASSUME VotesInv, NEW t \in Nat, NEW n \in Node, term[n] = t, granted[n] \in Quorum
    PROVE  Chosen(n, t)
<1>1. granted[n] \subseteq Node
  BY DEF VotesInv, TypeOK
<1>2. \A p \in granted[n] : Supports(p, n, t)
  BY DEF Supports
<1>3. \A p \in granted[n] : Backs(p, n, t) /\ \A o \in Node \ {n} : ~Supports(p, o, t)
  BY <1>1, <1>2 DEF VotesInv
<1> QED
  BY <1>3 DEF Chosen

(* ... and nobody else has.                                                *)
LEMMA QuorumExcludes ==
    ASSUME NEW t \in Nat, NEW n \in Node, term[n] = t, granted[n] \in Quorum,
           NEW o \in Node, Chosen(o, t)
    PROVE  n = o
<1>1. PICK Q \in Quorum : \A p \in Q : \A q \in Node \ {o} : ~Supports(p, q, t)
  BY DEF Chosen
<1>2. PICK p \in Node : p \in Q /\ p \in granted[n]
  BY QuorumsMeet
<1>3. Supports(p, n, t)
  BY <1>2 DEF Supports
<1> QED
  BY <1>1, <1>2, <1>3

LEMMA VotesStep == VotesInv /\ WalSurvives /\ [Next]_vars => VotesInv'
<1> SUFFICES ASSUME VotesInv, WalSurvives, [Next]_vars PROVE VotesInv'
  OBVIOUS
<1>0. TypeOK /\ TypeOK'
  BY TypeStep DEF VotesInv
<1>1. ASSUME NEW p \in Node, NEW n \in Node, NEW t \in Nat, Supports(p, n, t)'
      PROVE  Backs(p, n, t)'
  <2>1. CASE Supports(p, n, t)
    BY <1>0, <2>1, BacksStep DEF VotesInv
  <2>2. CASE ~Supports(p, n, t)
    BY <1>0, <1>1, <2>2, SupportStep DEF Backs
  <2> QED
    BY <2>1, <2>2
<1>2. ASSUME NEW p \in Node, NEW n \in Node, NEW o \in Node, NEW t \in Nat,
             Supports(p, n, t)', Supports(p, o, t)'
      PROVE  n = o
  <2>1. CASE Supports(p, n, t) /\ Supports(p, o, t)
    BY <2>1 DEF VotesInv
  <2>2. CASE Supports(p, n, t) /\ ~Supports(p, o, t)
    <3>1. Backs(p, n, t)
      BY <2>2 DEF VotesInv
    <3> QED
      BY <1>0, <1>2, <2>2, <3>1, SupportStep
  <2>3. CASE ~Supports(p, n, t) /\ Supports(p, o, t)
    <3>1. Backs(p, o, t)
      BY <2>3 DEF VotesInv
    <3> QED
      BY <1>0, <1>2, <2>3, <3>1, SupportStep
  <2>4. CASE ~Supports(p, n, t) /\ ~Supports(p, o, t)
    <3>1. vote'[p] = n
      BY <1>0, <1>2, <2>4, SupportStep
    <3>2. vote'[p] = o
      BY <1>0, <1>2, <2>4, SupportStep
    <3> QED
      BY <3>1, <3>2
  <2> QED
    BY <2>1, <2>2, <2>3, <2>4
<1>3. ASSUME NEW t \in 1 .. MaxTerm, NEW n \in elected'[t]
      PROVE  n \in Node /\ Chosen(n, t)
  <2>1. CASE n \in elected[t]
    BY <1>0, <2>1 DEF VotesInv, TypeOK
  <2>2. CASE n \notin elected[t]
    <3>1. n \in Node /\ term[n] = t /\ granted[n] \in Quorum
      BY <1>0, <2>2, ElectedStep
    <3> QED
      BY <3>1, QuorumChooses
  <2> QED
    BY <2>1, <2>2
<1>4. ASSUME NEW t \in 1 .. MaxTerm, NEW n \in elected'[t]
      PROVE  Chosen(n, t)'
  BY <1>3, ChosenStep
<1>5. ASSUME NEW t \in 1 .. MaxTerm, NEW n \in elected'[t], NEW o \in elected'[t]
      PROVE  n = o
  <2>1. CASE n \in elected[t] /\ o \in elected[t]
    BY <2>1 DEF VotesInv
  <2>2. CASE n \notin elected[t]
    <3>1. n \in Node /\ term[n] = t /\ granted[n] \in Quorum
      BY <1>0, <2>2, ElectedStep
    <3> QED
      BY <1>3, <3>1, QuorumExcludes
  <2>3. CASE o \notin elected[t]
    <3>1. o \in Node /\ term[o] = t /\ granted[o] \in Quorum
      BY <1>0, <2>3, ElectedStep
    <3> QED
      BY <1>3, <3>1, QuorumExcludes
  <2> QED
    BY <2>1, <2>2, <2>3
<1> QED
  BY <1>0, <1>1, <1>2, <1>4, <1>5 DEF VotesInv

LEMMA VotesInit == Init => VotesInv
BY TypeInit DEF Init, VotesInv, Supports

LEMMA OneOfEach == VotesInv => OneLeaderPerTerm
<1> SUFFICES ASSUME VotesInv, NEW t \in 1 .. MaxTerm PROVE Cardinality(elected[t]) <= 1
  BY DEF OneLeaderPerTerm
<1>1. CASE elected[t] = {}
  BY <1>1, FS_EmptySet
<1>2. CASE elected[t] # {}
  <2>1. PICK n \in elected[t] : TRUE
    BY <1>2
  <2>2. elected[t] = {n}
    BY <2>1 DEF VotesInv
  <2>3. Cardinality({n}) = 1
    BY FS_Singleton
  <2> QED
    BY <2>2, <2>3
<1> QED
  BY <1>1, <1>2

(* A term has one winner, as long as a restarted RLA finds its log.        *)
THEOREM ElectionSafe == WalSurvives /\ Spec => []OneLeaderPerTerm
<1>1. CASE WalSurvives
  <2>1. VotesInv /\ [Next]_vars => VotesInv'
    BY <1>1, VotesStep
  <2> QED
    BY VotesInit, <2>1, OneOfEach, PTL DEF Spec
<1>2. CASE ~WalSurvives
  BY <1>2
<1> QED
  BY <1>1, <1>2

-----------------------------------------------------------------------------
(* Requests and their handlers only read the caches: what holds of the     *)
(* caches holds under any traffic, and when a crash takes requests along.  *)
THEOREM ForwardingOnlyReads == FwdSpec => Spec
<1>1. FwdInit => Init
  BY DEF FwdInit
<1>2. [FwdNext]_allVars => [Next]_vars
  BY DEF FwdNext, allVars, Next, RaftStep, CrashWithRequests, Handling, Submit, Handle, Forward,
         ForwardFails, Answer, Goes
<1> QED
  BY <1>1, <1>2, PTL DEF FwdSpec, Spec

LEMMA GoesType ==
    ASSUME FwdTypeOK, NEW r \in Req, NEW n \in Node \cup {NoNode},
           NEW what \in {"none", "arrived", "forwarding", "served"},
           n = NoNode <=> what = "none", Goes(r, n, what)
    PROVE  FwdTypeOK'
<1>1. TypeOK'
  BY TypeStep DEF FwdTypeOK, Goes
<1> QED
  BY <1>1 DEF FwdTypeOK, Goes

LEMMA HandlingType ==
    ASSUME FwdTypeOK, NEW r \in Req, Handling(r) \/ \E n \in Node : Submit(r, n)
    PROVE  FwdTypeOK'
<1> USE LeaderCacheAssumption
<1>0. stage[r] # "none" => at[r] \in Node
  BY DEF FwdTypeOK
<1>1. ASSUME NEW n \in Node, Submit(r, n)
      PROVE  FwdTypeOK'
  BY <1>1, GoesType DEF Submit
<1>2. CASE Handle(r)
  BY <1>0, <1>2, GoesType DEF Handle
<1>3. CASE Forward(r)
  <2>1. cache[at[r]] \in Node
    BY <1>0, <1>3 DEF Forward, FwdTypeOK, TypeOK, GetLeaderID
  <2> QED
    BY <1>3, <2>1, GoesType DEF Forward, GetLeaderID
<1>4. CASE ForwardFails(r) \/ Answer(r)
  BY <1>4, GoesType DEF ForwardFails, Answer
<1> QED
  BY <1>1, <1>2, <1>3, <1>4 DEF Handling

(* A request is where its stage says, and everything has its type, however *)
(* the RLAs crash and change their minds under it.                         *)
THEOREM ForwardingTypes == FwdSpec => []FwdTypeOK
<1>1. FwdInit => FwdTypeOK
  BY TypeInit, LeaderCacheAssumption DEF FwdInit, FwdTypeOK
<1>2. ASSUME FwdTypeOK, [FwdNext]_allVars
      PROVE  FwdTypeOK'
  <2>1. CASE RaftStep
    <3>1. TypeOK'
      BY <1>2, <2>1, TypeStep DEF RaftStep, Next, FwdTypeOK
    <3> QED
      BY <1>2, <2>1, <3>1 DEF RaftStep, FwdTypeOK, requests
  <2>2. ASSUME NEW n \in Node, CrashWithRequests(n)
        PROVE  FwdTypeOK'
    <3>1. TypeOK'
      BY <1>2, <2>2, TypeStep DEF CrashWithRequests, Next, FwdTypeOK
    <3> QED
      BY <1>2, <2>2, <3>1, LeaderCacheAssumption DEF CrashWithRequests, FwdTypeOK
  <2>3. ASSUME NEW r \in Req, Handling(r) \/ \E n \in Node : Submit(r, n)
        PROVE  FwdTypeOK'
    BY <1>2, <2>3, HandlingType
  <2>4. CASE UNCHANGED allVars
    BY <1>2, <2>4 DEF allVars, vars, requests, FwdTypeOK, TypeOK
  <2> QED
    BY <1>2, <2>1, <2>2, <2>3, <2>4 DEF FwdNext
<1> QED
  BY <1>1, <1>2, PTL DEF FwdSpec

(* The two properties of the caches, for the RLAs with their requests.     *)
THEOREM ForwardingFollowsWinners == FwdSpec => []KnownLeaderWasElected
BY ForwardingOnlyReads, KnownLeaderSafe, PTL

THEOREM ForwardingHasOneLeader == WalSurvives /\ FwdSpec => []OneLeaderPerTerm
BY ForwardingOnlyReads, ElectionSafe, PTL
=============================================================================
