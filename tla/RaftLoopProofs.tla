--------------------------- MODULE RaftLoopProofs ---------------------------
(***************************************************************************)
(* That what a peer acknowledged or applied is found again by a restart    *)
(* from what any crash leaves, that it can be restarted once its WAL has   *)
(* been created, and that none of its own stops is reached: for any number *)
(* of peers, snapCount, terms, entries and crashes.                        *)
(***************************************************************************)
EXTENDS RaftLoop, WellFoundedInduction, SequenceTheorems, TLAPS

(* The entry at index i of a log.                                          *)
At(l, i) == l.ents[i - l.base]

(* Log matching: which entry comes before one is the cluster's, not the    *)
(* peer's.                                                                 *)
Chain(l, before) ==
    \A i \in l.base + 1 .. LastIndex(l) :
        /\ IF i <= Peers THEN At(l, i) = 1 ELSE At(l, i) \in 2 .. MaxTerm
        /\ i > Peers /\ i - 1 > l.base => At(l, i - 1) = before[At(l, i)]

-----------------------------------------------------------------------------
(* The log in a WAL, without computing it.                                 *)

(* The last entry record of index i.                                       *)
LastOf(w, i, n) ==
    /\ n \in Records(w, "entry") /\ w[n].index = i
    /\ \A m \in Records(w, "entry") : w[m].index = i => m <= n

OnDisk(w, i, t) == \E n \in Records(w, "entry") : LastOf(w, i, n) /\ w[n].term = t

(* The log read from a snapshot goes as far as index i.                    *)
Reaches(w, start, i) ==
    \/ i <= start
    \/ \E n \in Behind(w, start) :
          /\ w[n].index >= i
          /\ \A m \in Behind(w, start) : m <= n

(* The record before n of those behind a snapshot.                         *)
Before(w, start, m, n) ==
    /\ m \in Behind(w, start) /\ m < n
    /\ \A q \in Behind(w, start) : q < n => q <= m

Gapless(w, start) ==
    \A n \in Behind(w, start) :
        \/ w[n].index = start + 1
        \/ \E m \in Behind(w, start) : Before(w, start, m, n) /\ w[n].index <= w[m].index + 1

(* When an entry was written, the entry before it was there.               *)
Linked(w, start, before) ==
    \A n, p \in Behind(w, start) :
        /\ w[n].index > Peers /\ w[n].index = w[p].index + 1 /\ p < n
        /\ \A q \in Behind(w, start) : p < q /\ q < n => w[q].index # w[p].index
        => w[p].term = before[w[n].term]

(* The snapshot a restart from w begins with, as loadSnapshot has it.      *)
LoadableOf(w, snaps) ==
    {s \in snaps \cup {[index |-> 0, conf |-> 0]} :
        s.index <= LastState(w).index /\ SnapRec(s.index) \in {w[i] : i \in DOMAIN w}}

Load(w, snaps) ==
    CHOOSE s \in LoadableOf(w, snaps) : \A o \in LoadableOf(w, snaps) : o.index <= s.index

Base(w, snaps) == Load(w, snaps).index

-----------------------------------------------------------------------------
(* The invariant, in parts.                                                *)

Busy  == step \notin {"idle", "advance"}
Saved == step \notin {"idle", "saveFile", "saveMark", "saveWal"}

(* The library's log and the indices into it.                              *)
LogInv ==
    /\ lib.log.base <= lib.stable /\ lib.stable <= LastIndex(lib.log)
    /\ lib.log.base <= lib.commit /\ lib.commit <= LastIndex(lib.log)
    /\ LastIndex(lib.log) <= MaxIndex
    /\ lib.matched <= LastIndex(lib.log)
    /\ applied <= lib.commit /\ lib.applied <= applied
    /\ lib.snap = 0 => lib.log.base <= applied
    /\ lib.snap # 0 => /\ applied < lib.snap /\ lib.snap = lib.log.base
                       /\ lib.snap > SnapCount
    /\ Chain(lib.log, parent)

(* What was answered in the term there is, the library does not give up.   *)
Kept(l, matched, a) ==
    a.index <= matched /\ (a.index <= l.base \/ Holds(l, a.index, a.of))

Remembered(a) == a.term = lib.term /\ Kept(lib.log, lib.matched, a)

AckInv ==
    /\ lib.ack # NoAck => Remembered(lib.ack)
    /\ Busy /\ rd.ack # NoAck => Remembered(rd.ack)
    /\ promise.term <= lib.term
    /\ promise.term = lib.term => Kept(lib.log, lib.matched, promise)

(* Until the loop comes to Advance, a Ready is what the library has.       *)
ReadyInv ==
    /\ Busy => /\ rd.snap = lib.snap /\ rd.from = lib.stable
               /\ rd.from + Len(rd.ents) = LastIndex(lib.log)
               /\ \A i \in 1 .. Len(rd.ents) : rd.ents[i] = At(lib.log, rd.from + i)
               /\ rd.term = lib.term /\ rd.commit = lib.commit
               /\ rd.hi = lib.commit /\ rd.lo = NextToApply
    /\ step \in {"send", "publish", "trigger", "markOwn", "advance"} => rd.snap = 0
    /\ step \in {"saveFile", "saveMark", "install", "blocked"} => rd.snap # 0
    /\ step \in {"trigger", "markOwn", "advance"} => rd.hi <= applied
    /\ rd.from + Len(rd.ents) <= MaxIndex
    /\ Chain([base |-> rd.from, ents |-> rd.ents], parent)

(* MemoryStorage and the snapshots.                                        *)
SnapInv ==
    /\ confState = IF applied < Peers THEN applied ELSE Peers
    /\ \A s \in files : s.conf = Peers /\ s.index >= Peers
    /\ mem.offset <= mem.snap.index /\ snapshotIndex <= applied
    /\ step \notin {"markOwn", "blocked"} => mem.snap.index = snapshotIndex
    /\ step = "markOwn" => mem.snap.index = applied /\ MustSnapshot

(* What is written to the WAL: the records not on disk yet only move the   *)
(* commit index, and a snapshot's record comes after its file.             *)
WalFormat ==
    /\ flushed >= 1 /\ wal[1] = SnapRec(0)
    /\ \A n \in DOMAIN wal : n > flushed => wal[n].kind = "state"
    /\ \A n \in Records(wal, "entry") :
          /\ wal[n].index >= 1
          /\ IF wal[n].index <= Peers THEN wal[n].term = 1 ELSE wal[n].term \in 2 .. MaxTerm
    /\ \A n \in Records(wal, "snap") :
          wal[n] = SnapRec(0) \/ /\ wal[n] = SnapRec(wal[n].index)
                                 /\ [index |-> wal[n].index, conf |-> Peers] \in files
    /\ \A n \in Records(wal, "state") : wal[n] = StateRec(wal[n].term, wal[n].index)

WalInv ==
    /\ WalFormat
    /\ LastState(wal).term <= lib.term /\ LastState(wal).index <= lib.commit
    /\ Saved /\ Busy => LastState(wal) = StateRec(lib.term, lib.commit)
    /\ step \in {"saveMark", "saveWal"} /\ rd.snap # 0 =>
          [index |-> rd.snap, conf |-> Peers] \in files
    /\ step = "saveWal" /\ rd.snap # 0 => \E n \in DOMAIN wal : wal[n] = SnapRec(rd.snap)
    /\ step = "markOwn" => [index |-> applied, conf |-> Peers] \in files

(* The WAL has what the library calls stable, and once it is saved, what   *)
(* the Ready brought.                                                      *)
Mirrors(w, l, upto) ==
    /\ Reaches(w, l.base, upto)
    /\ \A i \in l.base + 1 .. upto : OnDisk(w, i, At(l, i))

DiskInv ==
    /\ Mirrors(wal, lib.log, lib.stable)
    /\ Saved => /\ \A i \in 1 .. Len(rd.ents) : OnDisk(wal, rd.from + i, rd.ents[i])
                /\ rd.ents # <<>> =>
                      \A s \in 0 .. MaxIndex : Reaches(wal, s, rd.from + Len(rd.ents))
    /\ step = "advance" /\ lib.stable < rd.from => LastState(wal).index <= lib.stable

(* What a restart finds in w, from the snapshot at s: the last hard state  *)
(* may only be one that is behind "last" in what is committed; the log is  *)
(* read without a gap, in the cluster's order, and as far as that state,   *)
(* the acknowledgment and the applied entries, which are those of l.       *)
Recovers(w, s, last, before) ==
    /\ LastState(w).term = last.term /\ LastState(w).index <= last.index
    /\ Gapless(w, s) /\ Linked(w, s, before)
    /\ Reaches(w, s, LastState(w).index)

HasAck(w, s, a) ==
    /\ a.term <= LastState(w).term
    /\ LastState(w).term = a.term =>
          a.index <= s \/ (Reaches(w, s, a.index) /\ OnDisk(w, a.index, a.of))

HasApplied(w, s, l, i) ==
    /\ Reaches(w, s, i)
    /\ \A j \in 1 .. i : j > s /\ j > l.base => OnDisk(w, j, At(l, j))

Survives(w) ==
    /\ Recovers(w, Base(w, files), LastState(wal), parent)
    /\ lib.snap = 0 => lib.log.base <= Base(w, files)
    /\ HasAck(w, Base(w, files), promise)
    /\ HasApplied(w, Base(w, files), lib.log, applied)

IInv ==
    /\ PeerTypeOK /\ LogInv /\ AckInv /\ ReadyInv /\ SnapInv /\ WalInv /\ DiskInv
    /\ \A w \in Leavings : Survives(w)
-----------------------------------------------------------------------------
(* The greatest element of a set of naturals with a bound.                 *)
LEMMA MaxExists ==
    ASSUME NEW S \in SUBSET Nat, S # {}, NEW b \in Nat, \A x \in S : x <= b
    PROVE  \E x \in S : \A y \in S : y <= x
<1> DEFINE T == {b - x : x \in S}
<1>1. T \subseteq Nat /\ T # {}
  <2>1. \A x \in S : b - x \in Nat
    OBVIOUS
  <2> QED
    BY <2>1
<1>2. PICK t \in T : \A u \in T : ~ (<<u, t>> \in OpToRel(<, Nat))
  BY <1>1, NatLessThanWellFounded, WFMin
<1>3. \A u \in T : ~ (u < t)
  BY <1>1, <1>2 DEF OpToRel
<1>4. PICK x \in S : t = b - x
  OBVIOUS
<1>5. ASSUME NEW y \in S PROVE y <= x
  BY <1>3, <1>4
<1> QED
  BY <1>5

LEMMA MinExists ==
    ASSUME NEW S \in SUBSET Nat, S # {}
    PROVE  \E x \in S : \A y \in S : x <= y
<1>1. PICK t \in S : \A u \in S : ~ (<<u, t>> \in OpToRel(<, Nat))
  BY NatLessThanWellFounded, WFMin
<1>2. \A u \in S : ~ (u < t)
  BY <1>1 DEF OpToRel
<1> QED
  BY <1>2

LEMMA MaxIs ==
    ASSUME NEW S \in SUBSET Nat, NEW x \in S, \A y \in S : y <= x
    PROVE  Max(S) = x
<1>1. Max(S) \in S /\ \A y \in S : Max(S) >= y
  <2>1. \E m \in S : \A y \in S : m >= y
    OBVIOUS
  <2> QED
    BY <2>1, Zenon DEF Max
<1>2. \A m \in Nat : m >= x /\ x >= m => m = x
  OBVIOUS
<1>3. Max(S) \in Nat /\ Max(S) >= x /\ x >= Max(S)
  BY <1>1
<1> QED
  BY <1>2, <1>3, Zenon

-----------------------------------------------------------------------------
(* Reading a WAL.                                                          *)
LEMMA RecordIs ==
    ASSUME NEW w \in Seq(WalRecord), NEW n \in DOMAIN w
    PROVE  /\ n \in 1 .. Len(w) /\ n \in Nat
           /\ w[n].index \in 0 .. MaxIndex /\ w[n].index \in Nat
           /\ w[n].term \in 0 .. MaxTerm
           /\ w[n].kind \in {"entry", "state", "snap"}
<1>1. n \in 1 .. Len(w) /\ w[n] \in WalRecord
  BY ElementOfSeq, LenProperties
<1> QED
  BY <1>1, LenProperties, RaftLoopAssumption DEF WalRecord

LEMMA BehindIs ==
    ASSUME NEW w \in Seq(WalRecord), NEW s \in Nat, NEW n \in Behind(w, s)
    PROVE  /\ n \in DOMAIN w /\ n \in 1 .. Len(w) /\ n \in Nat
           /\ n \in Records(w, "entry") /\ w[n].kind = "entry"
           /\ w[n].index \in s + 1 .. MaxIndex /\ w[n].index \in Nat
BY RecordIs DEF Behind, Records

LEMMA Greatest ==
    ASSUME NEW w \in Seq(WalRecord), NEW S \in SUBSET (DOMAIN w), S # {}
    PROVE  Max(S) \in S /\ \A n \in S : n <= Max(S)
<1>1. S \in SUBSET Nat /\ Len(w) \in Nat /\ \A n \in S : n <= Len(w)
  BY RecordIs, LenProperties
<1>2. PICK x \in S : \A y \in S : y <= x
  BY <1>1, MaxExists
<1> QED
  BY <1>1, <1>2, MaxIs

(* Where the log ends that is read from a snapshot.                        *)
LEMMA EndIs ==
    ASSUME NEW w \in Seq(WalRecord), NEW s \in Nat
    PROVE  LET end == Reached(w, s, Len(w) + 1)
           IN  /\ end \in Nat /\ end >= s
               /\ s <= MaxIndex => end <= MaxIndex
               /\ \A i \in Nat : Reaches(w, s, i) <=> i <= end
               /\ end > s => \E n \in Behind(w, s) :
                                w[n].index = end /\ \A m \in Behind(w, s) : m <= n
<1> DEFINE before == {m \in Behind(w, s) : m < Len(w) + 1}
<1>1. before = Behind(w, s)
  BY BehindIs, LenProperties
<1>2. CASE Behind(w, s) = {}
  BY <1>1, <1>2 DEF Reached, Reaches
<1>3. CASE Behind(w, s) # {}
  <2> DEFINE last == Max(Behind(w, s))
  <2>1. last \in Behind(w, s) /\ \A n \in Behind(w, s) : n <= last
    BY <1>3, Greatest DEF Behind, Records
  <2>2. Reached(w, s, Len(w) + 1) = w[last].index
    BY <1>1, <1>3 DEF Reached
  <2>3. w[last].index \in s + 1 .. MaxIndex /\ w[last].index \in Nat
    BY <2>1, BehindIs
  <2> HIDE DEF last
  <2>4. ASSUME NEW i \in Nat, Reaches(w, s, i) PROVE i <= w[last].index
    <3>1. CASE i <= s
      BY <2>3, <3>1, RaftLoopAssumption
    <3>2. ASSUME NEW n \in Behind(w, s), w[n].index >= i, \A m \in Behind(w, s) : m <= n
          PROVE  i <= w[last].index
      <4>1. n <= last /\ last <= n /\ n \in Nat /\ last \in Nat
        BY <2>1, <3>2, BehindIs
      <4>2. n = last
        BY <4>1
      <4> QED
        BY <3>2, <4>2, <2>3
    <3> QED
      BY <2>4, <3>1, <3>2 DEF Reaches
  <2>5. ASSUME NEW i \in Nat, i <= w[last].index PROVE Reaches(w, s, i)
    BY <2>1, <2>3, <2>5 DEF Reaches
  <2> QED
    BY <2>1, <2>2, <2>3, <2>4, <2>5, RaftLoopAssumption
<1> QED
  BY <1>2, <1>3

(* A later snapshot leaves no gap either, and does not end earlier.        *)
LEMMA ReachesLater ==
    ASSUME NEW w \in Seq(WalRecord), NEW s \in Nat, NEW t \in Nat, s <= t,
           NEW i \in Nat, Reaches(w, s, i)
    PROVE  Reaches(w, t, i)
<1>1. CASE i <= t
  BY <1>1 DEF Reaches
<1>2. CASE i > t
  <2>1. PICK n \in Behind(w, s) : w[n].index >= i /\ \A m \in Behind(w, s) : m <= n
    BY <1>2 DEF Reaches
  <2>2. n \in Behind(w, t)
    BY <1>2, <2>1, BehindIs DEF Behind
  <2>3. \A m \in Behind(w, t) : m \in Behind(w, s)
    BY BehindIs DEF Behind
  <2> QED
    BY <2>1, <2>2, <2>3 DEF Reaches
<1> QED
  BY <1>1, <1>2

LEMMA GaplessLater ==
    ASSUME NEW w \in Seq(WalRecord), NEW s \in Nat, NEW t \in Nat, s <= t, Gapless(w, s)
    PROVE  Gapless(w, t)
<1> SUFFICES ASSUME NEW n \in Behind(w, t)
             PROVE  \/ w[n].index = t + 1
                    \/ \E m \in Behind(w, t) : Before(w, t, m, n) /\ w[n].index <= w[m].index + 1
  BY DEF Gapless
<1>1. \A m \in Behind(w, t) : m \in Behind(w, s) /\ m \in Nat /\ w[m].index \in Nat /\ w[m].index > t
  BY BehindIs DEF Behind
<1>2. \A m \in Behind(w, s) : m \in Nat /\ w[m].index \in Nat /\ w[m].index > s
                              /\ (w[m].index > t => m \in Behind(w, t))
  BY BehindIs DEF Behind
<1>3. \/ w[n].index = s + 1
      \/ \E m \in Behind(w, s) : Before(w, s, m, n) /\ w[n].index <= w[m].index + 1
  BY <1>1 DEF Gapless
<1> DEFINE earlier == {m \in Behind(w, t) : m < n}
<1>4. CASE earlier = {}
  <2>1. CASE w[n].index = s + 1
    BY <1>1, <2>1
  <2>2. ASSUME NEW m \in Behind(w, s), Before(w, s, m, n), w[n].index <= w[m].index + 1
        PROVE  w[n].index = t + 1
    <3>1. m \notin Behind(w, t)
      BY <1>4, <2>2 DEF Before
    <3>2. w[m].index <= t /\ w[m].index \in Nat
      BY <1>2, <3>1
    <3>3. w[n].index > t /\ w[n].index \in Nat
      BY <1>1
    <3> QED
      BY <2>2, <3>2, <3>3
  <2> QED
    BY <1>3, <2>1, <2>2
<1>5. CASE earlier # {}
  <2>1. earlier \in SUBSET DOMAIN w
    BY BehindIs
  <2>2. PICK p \in earlier : \A q \in earlier : q <= p
    BY <1>5, <2>1, Greatest
  <2>3. Before(w, t, p, n)
    BY <2>2 DEF Before
  <2>4. w[n].index <= w[p].index + 1
    <3>1. CASE w[n].index = s + 1
      BY <1>1, <2>2, <3>1
    <3>2. ASSUME NEW m \in Behind(w, s), Before(w, s, m, n), w[n].index <= w[m].index + 1
          PROVE  w[n].index <= w[p].index + 1
      <4>1. p <= m
        BY <1>1, <2>2, <3>2 DEF Before
      <4>2. CASE m \in Behind(w, t)
        <5>1. m <= p
          BY <2>2, <3>2, <4>2 DEF Before
        <5>2. m = p
          BY <1>1, <1>2, <2>2, <4>1, <5>1
        <5> QED
          BY <3>2, <5>2
      <4>3. CASE m \notin Behind(w, t)
        <5>1. w[m].index <= t /\ w[m].index \in Nat
          BY <1>2, <4>3
        <5>2. w[p].index > t /\ w[p].index \in Nat /\ w[n].index \in Nat
          BY <1>1
        <5>3. w[n].index <= t + 1
          BY <3>2, <5>1, <5>2
        <5> QED
          BY <5>2, <5>3
      <4> QED
        BY <4>2, <4>3
    <3> QED
      BY <1>3, <3>1, <3>2
  <2> QED
    BY <2>2, <2>3, <2>4
<1> QED
  BY <1>4, <1>5

LEMMA LinkedLater ==
    ASSUME NEW w \in Seq(WalRecord), NEW s \in Nat, NEW t \in Nat, s <= t,
           NEW before, Linked(w, s, before)
    PROVE  Linked(w, t, before)
<1> SUFFICES ASSUME NEW n \in Behind(w, t), NEW p \in Behind(w, t),
                    w[n].index > Peers, w[n].index = w[p].index + 1, p < n,
                    \A q \in Behind(w, t) : p < q /\ q < n => w[q].index # w[p].index
             PROVE  w[p].term = before[w[n].term]
  BY DEF Linked
<1>1. \A m \in Behind(w, t) : m \in Behind(w, s) /\ w[m].index > t
  BY BehindIs DEF Behind
<1>2. \A m \in Behind(w, s) : w[m].index > t => m \in Behind(w, t)
  BY BehindIs DEF Behind
<1>3. \A q \in Behind(w, s) : p < q /\ q < n => w[q].index # w[p].index
  BY <1>1, <1>2
<1> QED
  BY <1>1, <1>3 DEF Linked

(* From one record to a later one of a greater index, every index between  *)
(* is written.                                                             *)
LEMMA Climb ==
    ASSUME NEW w \in Seq(WalRecord), NEW s \in Nat, Gapless(w, s),
           NEW m \in Behind(w, s), NEW n \in Behind(w, s), m < n,
           NEW i \in Nat, w[m].index < i, i <= w[n].index
    PROVE  \E p \in Behind(w, s) : m < p /\ p <= n /\ w[p].index = i
<1> DEFINE Over(k) == m < k /\ i <= w[k].index
           T == {k \in Behind(w, s) : Over(k) /\ \A p \in Behind(w, s) : m < p /\ p <= k => w[p].index # i}
<1>1. \A k \in Behind(w, s) : k \in Nat /\ w[k].index \in Nat /\ w[k].index > s
  BY BehindIs
<1>2. SUFFICES ASSUME T # {} PROVE FALSE
  BY <1>1
<1>3. PICK k \in T : \A q \in T : k <= q
  <2>1. T \in SUBSET Nat
    BY <1>1
  <2> QED
    BY <1>2, <2>1, MinExists
<1>4. w[k].index > i
  BY <1>1, <1>3
<1>5. PICK q \in Behind(w, s) : Before(w, s, q, k) /\ w[k].index <= w[q].index + 1
  <2>1. w[k].index # s + 1
    BY <1>1, <1>4
  <2> QED
    BY <1>3, <2>1 DEF Gapless
<1>6. q < k /\ m <= q /\ i <= w[q].index
  BY <1>1, <1>3, <1>4, <1>5 DEF Before
<1>7. m < q
  BY <1>1, <1>6
<1>8. q \in T
  BY <1>1, <1>3, <1>6, <1>7
<1> QED
  BY <1>1, <1>3, <1>6, <1>8

LEMMA ClimbFirst ==
    ASSUME NEW w \in Seq(WalRecord), NEW s \in Nat, Gapless(w, s),
           NEW n \in Behind(w, s), NEW i \in Nat, s < i, i <= w[n].index
    PROVE  \E p \in Behind(w, s) : w[p].index = i
<1> DEFINE T == {k \in Behind(w, s) : i <= w[k].index}
<1>1. \A k \in Behind(w, s) : k \in Nat /\ w[k].index \in Nat /\ w[k].index > s
  BY BehindIs
<1>2. PICK k \in T : \A q \in T : k <= q
  <2>1. T \in SUBSET Nat /\ T # {}
    BY <1>1
  <2> QED
    BY <2>1, MinExists
<1>3. CASE w[k].index = s + 1
  BY <1>1, <1>2, <1>3
<1>4. ASSUME NEW q \in Behind(w, s), Before(w, s, q, k), w[k].index <= w[q].index + 1
      PROVE  w[k].index = i
  <2>1. q < k
    BY <1>4 DEF Before
  <2>2. q \notin T
    BY <1>1, <1>2, <2>1
  <2> QED
    BY <1>1, <1>2, <1>4, <2>2
<1> QED
  BY <1>2, <1>3, <1>4 DEF Gapless

(* Of the entries of a log that was read, each follows the one before it   *)
(* in the cluster's log.                                                   *)
LEMMA ReadLinked ==
    ASSUME NEW w \in Seq(WalRecord), NEW s \in Nat, Gapless(w, s),
           NEW before, Linked(w, s, before),
           NEW i \in Nat, s < i, Reaches(w, s, i + 1), i + 1 > Peers,
           NEW t, OnDisk(w, i, t), NEW u, OnDisk(w, i + 1, u)
    PROVE  t = before[u]
<1>1. PICK m \in Records(w, "entry") : LastOf(w, i, m) /\ w[m].term = t
  BY DEF OnDisk
<1>2. PICK n \in Records(w, "entry") : LastOf(w, i + 1, n) /\ w[n].term = u
  BY DEF OnDisk
<1>3. m \in Behind(w, s) /\ n \in Behind(w, s)
  BY <1>1, <1>2 DEF LastOf, Behind
<1>4. \A k \in Behind(w, s) : k \in Nat /\ w[k].index \in Nat /\ k \in Records(w, "entry")
  BY BehindIs
<1>5. m < n
  <2>1. SUFFICES ASSUME n < m PROVE FALSE
    <3>1. m # n
      BY <1>1, <1>2 DEF LastOf
    <3> QED
      BY <1>3, <1>4, <2>1, <3>1
  <2>2. PICK k \in Behind(w, s) : w[k].index >= i + 1 /\ \A q \in Behind(w, s) : q <= k
    BY DEF Reaches
  <2>3. m < k
    <3>1. w[m].index = i /\ m <= k
      BY <1>1, <1>3, <2>2 DEF LastOf
    <3> QED
      BY <1>3, <1>4, <2>2, <3>1
  <2>4. PICK p \in Behind(w, s) : m < p /\ w[p].index = i + 1
    BY <1>1, <1>3, <2>2, <2>3, Climb DEF LastOf
  <2> QED
    BY <1>2, <1>3, <1>4, <2>1, <2>4 DEF LastOf
<1>6. \A q \in Behind(w, s) : m < q /\ q < n => w[q].index # i
  BY <1>1, <1>3, <1>4 DEF LastOf
<1> QED
  BY <1>1, <1>2, <1>3, <1>5, <1>6 DEF Linked, LastOf

Typed(w) == \A n \in Records(w, "entry") : w[n].term \in 1 .. MaxTerm

LEMMA WrittenIs ==
    ASSUME NEW w \in Seq(WalRecord), NEW s \in Nat, NEW i \in Nat, s < i,
           NEW t, OnDisk(w, i, t)
    PROVE  Written(w, s, i) = t
<1> DEFINE S == {n \in Behind(w, s) : w[n].index = i}
<1>1. PICK n \in Records(w, "entry") : LastOf(w, i, n) /\ w[n].term = t
  BY DEF OnDisk
<1>2. n \in S /\ \A m \in S : m <= n
  BY <1>1 DEF LastOf, Behind
<1>3. S \in SUBSET Nat
  BY BehindIs
<1>4. Max(S) = n
  BY <1>2, <1>3, MaxIs
<1> QED
  BY <1>1, <1>4 DEF Written

LEMMA OnDiskExists ==
    ASSUME NEW w \in Seq(WalRecord), NEW i \in Nat,
           NEW p \in Records(w, "entry"), w[p].index = i
    PROVE  \E n \in Records(w, "entry") : LastOf(w, i, n) /\ OnDisk(w, i, w[n].term)
<1> DEFINE S == {n \in Records(w, "entry") : w[n].index = i}
<1>1. S \in SUBSET DOMAIN w /\ S # {}
  BY DEF Records
<1>2. Max(S) \in S /\ \A n \in S : n <= Max(S)
  BY <1>1, Greatest
<1> QED
  BY <1>2 DEF LastOf, OnDisk

LEMMA OnDiskIsOne ==
    ASSUME NEW w \in Seq(WalRecord), NEW i, NEW t, NEW u, OnDisk(w, i, t), OnDisk(w, i, u)
    PROVE  t = u
<1>1. PICK m \in Records(w, "entry") : LastOf(w, i, m) /\ w[m].term = t
  BY DEF OnDisk
<1>2. PICK n \in Records(w, "entry") : LastOf(w, i, n) /\ w[n].term = u
  BY DEF OnDisk
<1>3. m \in Nat /\ n \in Nat /\ m <= n /\ n <= m
  BY <1>1, <1>2, RecordIs DEF LastOf, Records
<1>4. m = n
  BY <1>3
<1> QED
  BY <1>1, <1>2, <1>4

LEMMA FunctionIsSequence ==
    ASSUME NEW S, NEW n \in Nat, NEW f \in [1 .. n -> S]
    PROVE  f \in Seq(S) /\ Len(f) = n
OBVIOUS

LEMMA ReadIs ==
    ASSUME NEW w \in Seq(WalRecord), NEW s \in 0 .. MaxIndex, Gapless(w, s), Typed(w)
    PROVE  LET l == ReadAll(w, s)
           IN  /\ l \in Log /\ l # Gap /\ l.base = s
               /\ LastIndex(l) \in s .. MaxIndex
               /\ \A i \in s + 1 .. LastIndex(l) : OnDisk(w, i, At(l, i))
               /\ \A i \in Nat : Reaches(w, s, i) <=> i <= LastIndex(l)
<1> DEFINE end == Reached(w, s, Len(w) + 1)
<1>1. s \in Nat /\ MaxIndex \in Nat
  BY RaftLoopAssumption
<1>2. /\ end \in Nat /\ end >= s /\ end <= MaxIndex
      /\ \A i \in Nat : Reaches(w, s, i) <=> i <= end
      /\ end > s => \E n \in Behind(w, s) : w[n].index = end
  <2>1. s \in Nat /\ s <= MaxIndex
    BY <1>1
  <2> HIDE DEF end
  <2>2. /\ end \in Nat /\ end >= s
        /\ s <= MaxIndex => end <= MaxIndex
        /\ \A i \in Nat : Reaches(w, s, i) <=> i <= end
        /\ end > s => \E n \in Behind(w, s) :
                         w[n].index = end /\ \A m \in Behind(w, s) : m <= n
    BY <2>1, EndIs DEF end
  <2> QED
    BY <2>1, <2>2
<1>3. ASSUME NEW n \in Behind(w, s) PROVE w[n].index <= Reached(w, s, n) + 1
  <2> DEFINE before == {m \in Behind(w, s) : m < n}
  <2>1. CASE before = {}
    <3>1. Reached(w, s, n) = s
      BY <2>1 DEF Reached
    <3>2. w[n].index = s + 1
      BY <2>1 DEF Gapless, Before
    <3> QED
      BY <1>1, <3>1, <3>2
  <2>2. CASE before # {}
    <3> DEFINE last == Max(before)
    <3>1. last \in before /\ \A m \in before : m <= last
      <4>1. before \in SUBSET DOMAIN w
        BY <1>1, BehindIs
      <4> QED
        BY <2>2, <4>1, Greatest
    <3>2. Reached(w, s, n) = w[last].index
      BY <2>2 DEF Reached
    <3> HIDE DEF last
    <3>3. w[last].index \in Nat /\ w[last].index > s /\ w[n].index \in Nat
      BY <1>1, <3>1, BehindIs
    <3>4. CASE w[n].index = s + 1
      BY <1>1, <3>2, <3>3, <3>4
    <3>5. ASSUME NEW m \in Behind(w, s), Before(w, s, m, n), w[n].index <= w[m].index + 1
          PROVE  w[n].index <= Reached(w, s, n) + 1
      <4>1. m <= last /\ last <= m /\ m \in Nat /\ last \in Nat
        BY <1>1, <3>1, <3>5, BehindIs DEF Before
      <4>2. m = last
        BY <4>1
      <4> QED
        BY <3>2, <3>5, <4>2
    <3> QED
      BY <3>4, <3>5 DEF Gapless
  <2> QED
    BY <2>1, <2>2
<1>4. \A n \in Behind(w, s) : ~(w[n].index > Reached(w, s, n) + 1)
  <2> SUFFICES ASSUME NEW n \in Behind(w, s) PROVE ~(w[n].index > Reached(w, s, n) + 1)
    OBVIOUS
  <2>1. w[n].index \in Nat
    BY <1>1, BehindIs
  <2>2. Reached(w, s, n) \in Nat
    <3> DEFINE before == {m \in Behind(w, s) : m < n}
    <3>1. CASE before = {}
      BY <1>1, <3>1 DEF Reached
    <3>2. CASE before # {}
      <4>1. before \in SUBSET DOMAIN w
        BY <1>1, BehindIs
      <4>2. Max(before) \in Behind(w, s)
        BY <3>2, <4>1, Greatest
      <4>3. w[Max(before)].index \in Nat
        BY <1>1, <4>2, BehindIs
      <4> QED
        BY <3>2, <4>3 DEF Reached
    <3> QED
      BY <3>1, <3>2
  <2> QED
    BY <1>3, <2>1, <2>2
<1> DEFINE read == [base |-> s, ents |-> [i \in 1 .. end - s |-> Written(w, s, s + i)]]
<1>5. ReadAll(w, s) = read
  BY <1>4 DEF ReadAll
<1>6. ASSUME NEW i \in s + 1 .. end PROVE OnDisk(w, i, Written(w, s, i)) /\ Written(w, s, i) \in 1 .. MaxTerm
  <2>1. i \in Nat /\ s < i /\ i <= end /\ end > s
    BY <1>1, <1>2
  <2>2. PICK n \in Behind(w, s) : w[n].index = end
    BY <1>2, <2>1
  <2>3. PICK p \in Behind(w, s) : w[p].index = i
    BY <1>1, <2>1, <2>2, ClimbFirst
  <2>4. PICK m \in Records(w, "entry") : OnDisk(w, i, w[m].term)
    BY <1>1, <2>1, <2>3, BehindIs, OnDiskExists
  <2>5. Written(w, s, i) = w[m].term
    BY <1>1, <2>1, <2>4, WrittenIs
  <2> QED
    BY <2>4, <2>5 DEF Typed
<1> HIDE DEF end
<1>7. end - s \in Nat /\ \A i \in 1 .. end - s : s + i \in s + 1 .. end
  BY <1>1, <1>2
<1>8. read.ents \in Seq(1 .. MaxTerm) /\ Len(read.ents) = end - s
  <2>1. read.ents \in [1 .. end - s -> 1 .. MaxTerm]
    BY <1>6, <1>7
  <2> QED
    BY <1>7, <2>1, FunctionIsSequence
<1>9. read.base = s /\ LastIndex(read) = end
  BY <1>1, <1>2, <1>8 DEF LastIndex
<1>10. \A i \in s + 1 .. end : At(read, i) = Written(w, s, i)
  <2> SUFFICES ASSUME NEW i \in s + 1 .. end PROVE At(read, i) = Written(w, s, i)
    OBVIOUS
  <2>1. i - s \in 1 .. end - s /\ s + (i - s) = i
    BY <1>1, <1>2
  <2> QED
    BY <2>1 DEF At
<1>11. read # Gap
  <2>1. ASSUME read = Gap PROVE FALSE
    <3>1. read.ents = <<0>>
      BY <2>1 DEF Gap
    <3>2. Len(read.ents) = 1 /\ read.ents[1] = 0
      BY <3>1
    <3>3. \A q \in Seq(1 .. MaxTerm) : Len(q) = 1 => q[1] \in 1 .. MaxTerm
      <4> SUFFICES ASSUME NEW q \in Seq(1 .. MaxTerm), Len(q) = 1 PROVE q[1] \in 1 .. MaxTerm
        OBVIOUS
      <4>1. 1 \in 1 .. Len(q)
        OBVIOUS
      <4> QED
        BY <4>1, ElementOfSeq
    <3> HIDE DEF read
    <3>4. read.ents[1] \in 1 .. MaxTerm
      BY <1>8, <3>2, <3>3
    <3> QED
      BY <3>2, <3>4, RaftLoopAssumption
  <2> QED
    BY <2>1
<1>12. read \in Log
  BY <1>8 DEF Log
<1>13. \A i \in s + 1 .. end : OnDisk(w, i, At(read, i))
  BY <1>6, <1>10
<1>14. end \in s .. MaxIndex
  BY <1>1, <1>2
<1> HIDE DEF read
<1> QED
  BY <1>2, <1>5, <1>9, <1>11, <1>12, <1>13, <1>14

(* The snapshot a restart begins from.                                     *)
LEMMA LoadIs ==
    ASSUME NEW w \in Seq(WalRecord), SnapRec(0) \in {w[i] : i \in DOMAIN w},
           NEW F \in SUBSET Snapshot
    PROVE  /\ Load(w, F) \in LoadableOf(w, F) /\ Load(w, F) \in Snapshot
           /\ \A o \in LoadableOf(w, F) : o.index <= Base(w, F)
           /\ Base(w, F) \in 0 .. MaxIndex /\ Base(w, F) <= LastState(w).index
<1>1. LastState(w).index \in Nat
  <2> DEFINE S == Records(w, "state")
  <2>1. CASE S = {}
    BY <2>1 DEF LastState, StateRec
  <2>2. CASE S # {}
    <3>1. S \in SUBSET DOMAIN w
      BY DEF Records
    <3>2. Max(S) \in DOMAIN w
      BY <2>2, <3>1, Greatest
    <3>3. w[Max(S)].index \in Nat
      BY <3>2, RecordIs
    <3> QED
      BY <2>2, <3>3 DEF LastState
  <2> QED
    BY <2>1, <2>2
<1> DEFINE none == [index |-> 0, conf |-> 0]
           I == {s.index : s \in LoadableOf(w, F)}
<1>2. none \in LoadableOf(w, F)
  BY <1>1 DEF LoadableOf
<1>3. \A s \in LoadableOf(w, F) : s \in Snapshot
  BY RaftLoopAssumption DEF LoadableOf, Snapshot
<1>4. \A s \in LoadableOf(w, F) : s.index \in 0 .. MaxIndex /\ s.index <= LastState(w).index
  BY <1>3 DEF LoadableOf, Snapshot
<1>5. I \in SUBSET Nat /\ I # {} /\ \A x \in I : x <= MaxIndex
  BY <1>2, <1>4
<1>6. PICK x \in I : \A y \in I : y <= x
  BY <1>5, MaxExists, RaftLoopAssumption
<1>7. \E s \in LoadableOf(w, F) : \A o \in LoadableOf(w, F) : o.index <= s.index
  BY <1>6
<1>8. /\ Load(w, F) \in LoadableOf(w, F)
      /\ \A o \in LoadableOf(w, F) : o.index <= Load(w, F).index
  BY <1>7, Zenon DEF Load
<1> QED
  BY <1>3, <1>4, <1>8 DEF Base

-----------------------------------------------------------------------------
(* What writing to a WAL changes of what is read from it.                  *)
Same(w, v, kind) ==
    /\ Records(w, kind) = Records(v, kind)
    /\ \A n \in Records(w, kind) : w[n] = v[n]

LEMMA SameLog ==
    ASSUME NEW w, NEW v, Same(w, v, "entry"), NEW s, NEW before
    PROVE  /\ \A i : Reaches(w, s, i) <=> Reaches(v, s, i)
           /\ \A i, t : OnDisk(w, i, t) <=> OnDisk(v, i, t)
           /\ Gapless(w, s) <=> Gapless(v, s)
           /\ Linked(w, s, before) <=> Linked(v, s, before)
<1>1. Behind(w, s) = Behind(v, s) /\ \A n \in Behind(w, s) : w[n] = v[n]
  BY DEF Same, Behind
<1>2. \A i, n : LastOf(w, i, n) <=> LastOf(v, i, n)
  BY DEF Same, LastOf
<1>3. \A i : Reaches(w, s, i) <=> Reaches(v, s, i)
  BY <1>1 DEF Reaches
<1>4. \A i, t : OnDisk(w, i, t) <=> OnDisk(v, i, t)
  BY <1>2 DEF OnDisk, Same
<1>5. Gapless(w, s) <=> Gapless(v, s)
  BY <1>1 DEF Gapless, Before
<1>6. Linked(w, s, before) <=> Linked(v, s, before)
  BY <1>1 DEF Linked
<1> QED
  BY <1>3, <1>4, <1>5, <1>6

LEMMA LastStateIs ==
    ASSUME NEW w \in Seq(WalRecord)
    PROVE  /\ Records(w, "state") = {} => LastState(w) = StateRec(0, 0)
           /\ \A n \in Records(w, "state") :
                 (\A m \in Records(w, "state") : m <= n) => LastState(w) = w[n]
           /\ Records(w, "state") # {} => \E n \in Records(w, "state") :
                 LastState(w) = w[n] /\ \A m \in Records(w, "state") : m <= n
           /\ LastState(w).index \in 0 .. MaxIndex /\ LastState(w).term \in 0 .. MaxTerm
<1> DEFINE S == Records(w, "state")
<1>1. S = {} => LastState(w) = StateRec(0, 0)
  BY DEF LastState
<1>2. ASSUME NEW n \in S, \A m \in S : m <= n PROVE LastState(w) = w[n]
  <2>1. S \in SUBSET Nat
    BY RecordIs DEF Records
  <2>2. Max(S) = n
    BY <1>2, <2>1, MaxIs
  <2> QED
    BY <1>2, <2>2 DEF LastState
<1>3. S # {} => Max(S) \in S /\ \A m \in S : m <= Max(S)
  BY Greatest DEF Records
<1>4. S # {} => \E n \in S : LastState(w) = w[n] /\ \A m \in S : m <= n
  BY <1>2, <1>3
<1>5. LastState(w).index \in 0 .. MaxIndex /\ LastState(w).term \in 0 .. MaxTerm
  BY <1>1, <1>4, RecordIs, RaftLoopAssumption DEF Records, StateRec
<1> QED
  BY <1>1, <1>2, <1>4, <1>5

LEMMA SameState ==
    ASSUME NEW w \in Seq(WalRecord), NEW v, Same(w, v, "state")
    PROVE  LastState(w) = LastState(v)
<1>1. Records(w, "state") = Records(v, "state") /\ \A n \in Records(w, "state") : w[n] = v[n]
  BY DEF Same
<1>2. CASE Records(w, "state") = {}
  BY <1>1, <1>2 DEF LastState
<1>3. CASE Records(w, "state") # {}
  <2>1. LastState(w) = w[Max(Records(w, "state"))] /\ LastState(v) = v[Max(Records(w, "state"))]
    BY <1>1, <1>3 DEF LastState
  <2>2. Max(Records(w, "state")) \in Records(w, "state")
    BY <1>3, Greatest DEF Records
  <2> QED
    BY <1>1, <2>1, <2>2
<1> QED
  BY <1>2, <1>3

LEMMA PrefixIs ==
    ASSUME NEW w \in Seq(WalRecord), NEW k \in 0 .. Len(w)
    PROVE  LET v == SubSeq(w, 1, k)
           IN  /\ v \in Seq(WalRecord) /\ Len(v) = k
               /\ DOMAIN v = 1 .. k /\ \A n \in 1 .. k : v[n] = w[n]
<1>1. \A i \in 1 .. k : w[i] \in WalRecord
  BY ElementOfSeq, LenProperties
<1>2. /\ SubSeq(w, 1, k) \in Seq(WalRecord)
      /\ Len(SubSeq(w, 1, k)) = IF 1 <= k THEN k - 1 + 1 ELSE 0
      /\ \A i \in 1 .. k - 1 + 1 : SubSeq(w, 1, k)[i] = w[1 + i - 1]
  BY <1>1, LenProperties, SubSeqProperties
<1>3. k \in Nat /\ k - 1 + 1 = k /\ \A i \in 1 .. k : 1 + i - 1 = i
  BY LenProperties
<1>4. Len(SubSeq(w, 1, k)) = k
  BY <1>2, <1>3
<1> QED
  BY <1>2, <1>3, <1>4, LenProperties

LEMMA AppendedIs ==
    ASSUME NEW w \in Seq(WalRecord), NEW u \in Seq(WalRecord)
    PROVE  LET v == w \o u
           IN  /\ v \in Seq(WalRecord) /\ Len(v) = Len(w) + Len(u)
               /\ DOMAIN v = 1 .. Len(w) + Len(u) /\ DOMAIN w = 1 .. Len(w)
               /\ DOMAIN w \subseteq DOMAIN v
               /\ \A n \in DOMAIN w : v[n] = w[n]
               /\ \A n \in DOMAIN v : n \notin DOMAIN w => n - Len(w) \in 1 .. Len(u) /\ v[n] = u[n - Len(w)]
               /\ \A i \in 1 .. Len(u) : Len(w) + i \in DOMAIN v /\ Len(w) + i \notin DOMAIN w /\ v[Len(w) + i] = u[i]
<1> DEFINE v == w \o u
<1>1. /\ v \in Seq(WalRecord) /\ Len(v) = Len(w) + Len(u)
      /\ \A i \in 1 .. Len(w) + Len(u) : v[i] = IF i <= Len(w) THEN w[i] ELSE u[i - Len(w)]
  BY ConcatProperties
<1>2. Len(w) \in Nat /\ Len(u) \in Nat /\ DOMAIN w = 1 .. Len(w) /\ DOMAIN v = 1 .. Len(w) + Len(u)
  BY <1>1, LenProperties
<1> HIDE DEF v
<1>3. \A n \in DOMAIN w : n \in DOMAIN v /\ v[n] = w[n]
  BY <1>1, <1>2
<1>4. \A n \in DOMAIN v : n \notin DOMAIN w => n - Len(w) \in 1 .. Len(u) /\ v[n] = u[n - Len(w)]
  BY <1>1, <1>2
<1>5. ASSUME NEW i \in 1 .. Len(u)
      PROVE  Len(w) + i \in DOMAIN v /\ Len(w) + i \notin DOMAIN w /\ v[Len(w) + i] = u[i]
  <2>1. Len(w) + i \in 1 .. Len(w) + Len(u) /\ ~(Len(w) + i <= Len(w)) /\ (Len(w) + i) - Len(w) = i
    BY <1>2
  <2> QED
    BY <1>1, <1>2, <2>1
<1> QED
  BY <1>1, <1>2, <1>3, <1>4, <1>5 DEF v

LEMMA AppendOther ==
    ASSUME NEW w \in Seq(WalRecord), NEW r \in WalRecord, NEW kind, r.kind # kind
    PROVE  Same(w \o <<r>>, w, kind)
<1> DEFINE v == w \o <<r>>
<1>1. <<r>> \in Seq(WalRecord) /\ Len(<<r>>) = 1 /\ <<r>>[1] = r
  OBVIOUS
<1>2. /\ DOMAIN w \subseteq DOMAIN v /\ \A n \in DOMAIN w : v[n] = w[n]
      /\ \A n \in DOMAIN v : n \notin DOMAIN w => n - Len(w) \in 1 .. 1 /\ v[n] = <<r>>[n - Len(w)]
  BY <1>1, AppendedIs
<1>3. \A n \in DOMAIN v : n \notin DOMAIN w => v[n] = r
  BY <1>1, <1>2
<1> QED
  BY <1>2, <1>3 DEF Same, Records

LEMMA AppendSnap ==
    ASSUME NEW w \in Seq(WalRecord), NEW i \in 0 .. MaxIndex
    PROVE  LET v == w \o <<SnapRec(i)>>
           IN  /\ v \in Seq(WalRecord) /\ Same(v, w, "entry") /\ Same(v, w, "state")
               /\ LastState(v) = LastState(w)
<1>1. SnapRec(i) \in WalRecord
  BY RaftLoopAssumption DEF SnapRec, WalRecord
<1>2. w \o <<SnapRec(i)>> \in Seq(WalRecord)
  BY <1>1, AppendedIs
<1>3. SnapRec(i).kind # "entry" /\ SnapRec(i).kind # "state"
  BY DEF SnapRec
<1>4. Same(w \o <<SnapRec(i)>>, w, "entry") /\ Same(w \o <<SnapRec(i)>>, w, "state")
  BY <1>1, <1>3, AppendOther
<1> QED
  BY <1>2, <1>4, SameState

LEMMA AppendState ==
    ASSUME NEW w \in Seq(WalRecord), NEW t \in 0 .. MaxTerm, NEW c \in 0 .. MaxIndex
    PROVE  LET v == w \o <<StateRec(t, c)>>
           IN  /\ v \in Seq(WalRecord) /\ Same(v, w, "entry") /\ Same(v, w, "snap")
               /\ LastState(v) = StateRec(t, c)
<1> DEFINE r == StateRec(t, c)
           v == w \o <<r>>
<1>1. r \in WalRecord /\ r.kind = "state"
  BY RaftLoopAssumption DEF StateRec, WalRecord
<1> HIDE DEF r
<1>2. <<r>> \in Seq(WalRecord) /\ Len(<<r>>) = 1 /\ <<r>>[1] = r
  BY <1>1
<1>3. /\ v \in Seq(WalRecord) /\ DOMAIN v = 1 .. Len(w) + 1
      /\ Len(w) + 1 \in DOMAIN v /\ v[Len(w) + 1] = r
  <2>1. 1 \in 1 .. Len(<<r>>)
    BY <1>2
  <2> QED
    BY <1>2, <2>1, AppendedIs
<1>4. r.kind # "entry" /\ r.kind # "snap"
  BY <1>1
<1>5. Same(v, w, "entry") /\ Same(v, w, "snap")
  BY <1>1, <1>4, AppendOther
<1>6. Len(w) + 1 \in Records(v, "state") /\ \A m \in Records(v, "state") : m <= Len(w) + 1
  BY <1>1, <1>3, LenProperties DEF Records
<1> HIDE DEF v
<1>7. LastState(v) = r
  BY <1>3, <1>6, LastStateIs
<1> QED
  BY <1>3, <1>5, <1>7 DEF r, v

(* The records of the entries e behind index from.                         *)
EntryRecs(from, e) == [i \in 1 .. Len(e) |-> EntryRec(from + i, e[i])]

Adds(w, from, e) == w \o EntryRecs(from, e)

LEMMA EntryRecsIs ==
    ASSUME NEW from \in Nat, NEW e \in Seq(1 .. MaxTerm), from + Len(e) <= MaxIndex
    PROVE  /\ EntryRecs(from, e) \in Seq(WalRecord) /\ Len(EntryRecs(from, e)) = Len(e)
           /\ \A i \in 1 .. Len(e) : EntryRecs(from, e)[i] = EntryRec(from + i, e[i])
<1>1. \A i \in 1 .. Len(e) : e[i] \in 1 .. MaxTerm
  BY ElementOfSeq
<1>2. \A i \in 1 .. Len(e) : from + i \in 0 .. MaxIndex
  BY LenProperties, RaftLoopAssumption
<1>3. \A i \in 1 .. Len(e) : EntryRec(from + i, e[i]) \in WalRecord
  BY <1>1, <1>2, RaftLoopAssumption DEF EntryRec, WalRecord
<1>4. EntryRecs(from, e) \in [1 .. Len(e) -> WalRecord] /\ Len(e) \in Nat
  BY <1>3, LenProperties DEF EntryRecs
<1>5. EntryRecs(from, e) \in Seq(WalRecord) /\ Len(EntryRecs(from, e)) = Len(e)
  BY <1>4, FunctionIsSequence
<1> QED
  BY <1>5 DEF EntryRecs

LEMMA AddsIs ==
    ASSUME NEW w \in Seq(WalRecord), NEW from \in Nat, NEW e \in Seq(1 .. MaxTerm),
           from + Len(e) <= MaxIndex
    PROVE  LET v == Adds(w, from, e)
           IN  /\ v \in Seq(WalRecord) /\ Len(v) = Len(w) + Len(e)
               /\ Same(v, w, "state") /\ Same(v, w, "snap") /\ LastState(v) = LastState(w)
               /\ Records(w, "entry") \subseteq Records(v, "entry")
               /\ \A n \in Records(w, "entry") : v[n] = w[n] /\ n <= Len(w) /\ n \in Nat
               /\ \A n \in Records(v, "entry") : n \notin Records(w, "entry") =>
                     /\ n - Len(w) \in 1 .. Len(e)
                     /\ v[n].index = from + (n - Len(w)) /\ v[n].term = e[n - Len(w)]
               /\ \A i \in 1 .. Len(e) :
                     /\ Len(w) + i \in Records(v, "entry") /\ Len(w) + i \notin Records(w, "entry")
                     /\ v[Len(w) + i].index = from + i /\ v[Len(w) + i].term = e[i]
               /\ Len(w) \in Nat /\ Len(e) \in Nat
<1> DEFINE u == EntryRecs(from, e)
           v == w \o u
<1>1. /\ u \in Seq(WalRecord) /\ Len(u) = Len(e)
      /\ \A i \in 1 .. Len(e) : u[i] = EntryRec(from + i, e[i])
  BY EntryRecsIs
<1> HIDE DEF u
<1>2. /\ v \in Seq(WalRecord) /\ Len(v) = Len(w) + Len(u)
      /\ DOMAIN v = 1 .. Len(w) + Len(u) /\ DOMAIN w = 1 .. Len(w)
      /\ DOMAIN w \subseteq DOMAIN v
      /\ \A n \in DOMAIN w : v[n] = w[n]
      /\ \A n \in DOMAIN v : n \notin DOMAIN w => n - Len(w) \in 1 .. Len(u) /\ v[n] = u[n - Len(w)]
      /\ \A i \in 1 .. Len(u) : Len(w) + i \in DOMAIN v /\ Len(w) + i \notin DOMAIN w /\ v[Len(w) + i] = u[i]
  BY <1>1, AppendedIs
<1> HIDE DEF v
<1>3. \A i \in 1 .. Len(e) : u[i].kind = "entry" /\ u[i].index = from + i /\ u[i].term = e[i]
  <2> SUFFICES ASSUME NEW i \in 1 .. Len(e)
               PROVE  u[i].kind = "entry" /\ u[i].index = from + i /\ u[i].term = e[i]
    OBVIOUS
  <2>1. u[i] = [kind |-> "entry", index |-> from + i, term |-> e[i]]
    BY <1>1 DEF EntryRec
  <2> QED
    BY <2>1
<1>4. Same(v, w, "state") /\ Same(v, w, "snap")
  <2>1. ASSUME NEW n \in DOMAIN v, n \notin DOMAIN w PROVE v[n].kind = "entry"
    <3>1. n - Len(w) \in 1 .. Len(e) /\ v[n] = u[n - Len(w)]
      BY <1>1, <1>2, <2>1
    <3> QED
      BY <1>3, <3>1
  <2>2. ASSUME NEW kind, kind # "entry" PROVE Same(v, w, kind)
    BY <1>2, <2>1, <2>2 DEF Same, Records
  <2> QED
    BY <2>2
<1>5. LastState(v) = LastState(w)
  BY <1>2, <1>4, SameState
<1>6. Records(w, "entry") \subseteq Records(v, "entry")
  BY <1>2 DEF Records
<1>7. \A n \in Records(w, "entry") : v[n] = w[n] /\ n <= Len(w) /\ n \in Nat
  BY <1>2 DEF Records
<1>8. ASSUME NEW n \in Records(v, "entry"), n \notin Records(w, "entry")
      PROVE  /\ n - Len(w) \in 1 .. Len(e)
             /\ v[n].index = from + (n - Len(w)) /\ v[n].term = e[n - Len(w)]
  <2>1. n \in DOMAIN v /\ n \notin DOMAIN w
    BY <1>2, <1>8 DEF Records
  <2>2. n - Len(w) \in 1 .. Len(e) /\ v[n] = u[n - Len(w)]
    BY <1>1, <1>2, <2>1
  <2> QED
    BY <1>3, <2>2
<1>9. \A i \in 1 .. Len(e) :
         /\ Len(w) + i \in Records(v, "entry") /\ Len(w) + i \notin Records(w, "entry")
         /\ v[Len(w) + i].index = from + i /\ v[Len(w) + i].term = e[i]
  BY <1>1, <1>2, <1>3 DEF Records
<1>10. Len(w) \in Nat /\ Len(e) \in Nat
  BY LenProperties
<1>11. Len(v) = Len(w) + Len(e)
  BY <1>1, <1>2
<1>12. v = Adds(w, from, e)
  BY DEF Adds, u, v
<1> QED
  BY <1>2, <1>4, <1>5, <1>6, <1>7, <1>8, <1>9, <1>10, <1>11, <1>12

LEMMA AddedIs ==
    ASSUME NEW w \in Seq(WalRecord), NEW from \in Nat, NEW e \in Seq(1 .. MaxTerm),
           from + Len(e) <= MaxIndex,
           NEW n \in Records(Adds(w, from, e), "entry"), n \notin Records(w, "entry")
    PROVE  \E i \in 1 .. Len(e) :
              Adds(w, from, e)[n].index = from + i /\ Adds(w, from, e)[n].term = e[i]
<1> DEFINE v == Adds(w, from, e)
<1> HIDE DEF v
<1>1. \A k \in Records(v, "entry") : k \notin Records(w, "entry") =>
         /\ k - Len(w) \in 1 .. Len(e)
         /\ v[k].index = from + (k - Len(w)) /\ v[k].term = e[k - Len(w)]
  BY AddsIs DEF v
<1>2. n \in Records(v, "entry")
  BY DEF v
<1>3. \E i \in 1 .. Len(e) : v[n].index = from + i /\ v[n].term = e[i]
  BY <1>1, <1>2, Zenon
<1> QED
  BY <1>3 DEF v

(* What is on disk after that.                                             *)
LEMMA AddsOnDisk ==
    ASSUME NEW w \in Seq(WalRecord), NEW from \in Nat, NEW e \in Seq(1 .. MaxTerm),
           from + Len(e) <= MaxIndex
    PROVE  LET v == Adds(w, from, e)
           IN  /\ \A i \in 1 .. Len(e) : OnDisk(v, from + i, e[i])
               /\ \A t : \A i \in 0 .. from : OnDisk(w, i, t) => OnDisk(v, i, t)
               /\ e # <<>> => \A s \in Nat : Reaches(v, s, from + Len(e))
<1> DEFINE v == Adds(w, from, e)
<1> HIDE DEF v
<1>1. /\ v \in Seq(WalRecord) /\ Len(v) = Len(w) + Len(e)
      /\ Records(w, "entry") \subseteq Records(v, "entry")
      /\ \A n \in Records(w, "entry") : v[n] = w[n] /\ n <= Len(w) /\ n \in Nat
      /\ \A n \in Records(v, "entry") : n \notin Records(w, "entry") =>
            /\ n - Len(w) \in 1 .. Len(e)
            /\ v[n].index = from + (n - Len(w)) /\ v[n].term = e[n - Len(w)]
      /\ \A i \in 1 .. Len(e) :
            /\ Len(w) + i \in Records(v, "entry")
            /\ v[Len(w) + i].index = from + i /\ v[Len(w) + i].term = e[i]
      /\ Len(w) \in Nat /\ Len(e) \in Nat
  BY AddsIs DEF v
<1>2. \A n \in Records(v, "entry") : n \in Nat /\ v[n].index \in Nat /\ n <= Len(v)
  BY <1>1, RecordIs, LenProperties DEF Records
<1>3. ASSUME NEW i \in 1 .. Len(e) PROVE OnDisk(v, from + i, e[i])
  <2>1. ASSUME NEW m \in Records(v, "entry"), v[m].index = from + i PROVE m <= Len(w) + i
    <3>1. CASE m \in Records(w, "entry")
      BY <1>1, <3>1
    <3>2. CASE m \notin Records(w, "entry")
      <4>1. from + (m - Len(w)) = from + i /\ m \in Nat
        BY <1>1, <1>2, <2>1, <3>2
      <4> QED
        BY <1>1, <4>1
    <3> QED
      BY <3>1, <3>2
  <2>2. LastOf(v, from + i, Len(w) + i)
    BY <1>1, <2>1 DEF LastOf
  <2> QED
    BY <1>1, <2>2 DEF OnDisk
<1>4. ASSUME NEW i \in 0 .. from, NEW t, OnDisk(w, i, t) PROVE OnDisk(v, i, t)
  <2>1. PICK n \in Records(w, "entry") : LastOf(w, i, n) /\ w[n].term = t
    BY <1>4 DEF OnDisk
  <2>2. ASSUME NEW m \in Records(v, "entry"), v[m].index = i PROVE m <= n
    <3>1. m \in Records(w, "entry")
      <4>1. ASSUME m \notin Records(w, "entry") PROVE FALSE
        <5>1. m - Len(w) \in 1 .. Len(e) /\ from + (m - Len(w)) = i
          BY <1>1, <2>2, <4>1
        <5> QED
          BY <1>1, <5>1
      <4> QED
        BY <4>1
    <3> QED
      BY <1>1, <2>1, <2>2, <3>1 DEF LastOf
  <2>3. LastOf(v, i, n)
    BY <1>1, <2>1, <2>2 DEF LastOf
  <2> QED
    BY <1>1, <2>1, <2>3 DEF OnDisk
<1>5. ASSUME e # <<>>, NEW s \in Nat PROVE Reaches(v, s, from + Len(e))
  <2>1. Len(e) \in 1 .. Len(e)
    BY <1>5, EmptySeq
  <2> DEFINE n == Len(w) + Len(e)
  <2>2. n \in Records(v, "entry") /\ v[n].index = from + Len(e)
    BY <1>1, <2>1
  <2>3. CASE from + Len(e) <= s
    BY <2>3 DEF Reaches
  <2>4. CASE ~(from + Len(e) <= s)
    <3>1. n \in Behind(v, s)
      BY <1>1, <2>2, <2>4 DEF Behind
    <3>2. \A m \in Behind(v, s) : m <= n
      BY <1>1, <1>2 DEF Behind
    <3>3. v[n].index >= from + Len(e)
      BY <1>1, <2>2
    <3> QED
      BY <3>1, <3>2, <3>3 DEF Reaches
  <2> QED
    BY <2>3, <2>4
<1> QED
  BY <1>3, <1>4, <1>5 DEF v

(* Entries that join on to the log leave no gap.                           *)
LEMMA AddsGapless ==
    ASSUME NEW w \in Seq(WalRecord), NEW from \in Nat, NEW e \in Seq(1 .. MaxTerm),
           from + Len(e) <= MaxIndex,
           NEW s \in Nat, Gapless(w, s), Reaches(w, s, from)
    PROVE  Gapless(Adds(w, from, e), s)
<1> DEFINE v == Adds(w, from, e)
<1> HIDE DEF v
<1>1. /\ v \in Seq(WalRecord)
      /\ Records(w, "entry") \subseteq Records(v, "entry")
      /\ \A n \in Records(w, "entry") : v[n] = w[n] /\ n <= Len(w) /\ n \in Nat
      /\ \A n \in Records(v, "entry") : n \notin Records(w, "entry") =>
            n - Len(w) \in 1 .. Len(e) /\ v[n].index = from + (n - Len(w))
      /\ \A i \in 1 .. Len(e) :
            Len(w) + i \in Records(v, "entry") /\ v[Len(w) + i].index = from + i
      /\ Len(w) \in Nat /\ Len(e) \in Nat
  BY AddsIs DEF v
<1>2. \A n \in Behind(v, s) : n \in Nat /\ n \in Records(v, "entry") /\ v[n].index \in Nat /\ v[n].index > s
  BY <1>1, BehindIs
<1>3. \A n \in Behind(w, s) : n \in Behind(v, s) /\ n <= Len(w) /\ v[n] = w[n]
  BY <1>1 DEF Behind
<1>4. \A n \in Behind(v, s) : n \in Behind(w, s) \/ n - Len(w) \in 1 .. Len(e)
  BY <1>1 DEF Behind
<1> SUFFICES ASSUME NEW n \in Behind(v, s)
             PROVE  \/ v[n].index = s + 1
                    \/ \E m \in Behind(v, s) : Before(v, s, m, n) /\ v[n].index <= v[m].index + 1
  BY DEF Gapless, v
<1>5. CASE n \in Behind(w, s)
  <2>1. ASSUME NEW m \in Behind(w, s), Before(w, s, m, n), w[n].index <= w[m].index + 1
        PROVE  Before(v, s, m, n) /\ v[n].index <= v[m].index + 1
    <3>1. \A q \in Behind(v, s) : q < n => q \in Behind(w, s)
      BY <1>1, <1>2, <1>3, <1>4, <1>5
    <3> QED
      BY <1>3, <1>5, <2>1, <3>1 DEF Before
  <2> QED
    BY <1>3, <1>5, <2>1 DEF Gapless
<1>6. CASE n \notin Behind(w, s)
  <2> DEFINE j == n - Len(w)
  <2>1. j \in 1 .. Len(e) /\ n = Len(w) + j /\ v[n].index = from + j
    <3>1. j \in 1 .. Len(e) /\ n \in Nat
      BY <1>2, <1>4, <1>6
    <3>2. n = Len(w) + j
      BY <1>1, <3>1
    <3> QED
      BY <1>1, <3>1, <3>2
  <2> HIDE DEF j
  <2>2. CASE j = 1 /\ from <= s
    BY <1>2, <2>1, <2>2
  <2>3. CASE j = 1 /\ from > s
    <3>1. PICK m \in Behind(w, s) : w[m].index >= from /\ \A q \in Behind(w, s) : q <= m
      BY <2>3 DEF Reaches
    <3>2. m \in Behind(v, s) /\ m < n
      BY <1>1, <1>2, <1>3, <2>1, <3>1
    <3>3. ASSUME NEW q \in Behind(v, s), q < n PROVE q <= m
      <4>1. q \in Behind(w, s)
        <5>1. ~(q - Len(w) \in 1 .. Len(e))
          BY <1>1, <1>2, <2>1, <2>3, <3>3
        <5> QED
          BY <1>4, <5>1
      <4> QED
        BY <3>1, <4>1
    <3>4. v[n].index <= v[m].index + 1
      <4>1. v[m] = w[m] /\ w[m].index >= from
        BY <1>3, <3>1
      <4>2. v[n].index = from + 1
        BY <2>1, <2>3
      <4>3. v[m].index \in Nat
        BY <1>2, <3>2
      <4> QED
        BY <4>1, <4>2, <4>3
    <3> QED
      BY <3>2, <3>3, <3>4 DEF Before
  <2>4. CASE j > 1
    <3> DEFINE m == Len(w) + (j - 1)
    <3>1. j - 1 \in 1 .. Len(e) /\ m \in Nat /\ m < n /\ n = m + 1
      BY <1>1, <2>1, <2>4
    <3>2. m \in Records(v, "entry") /\ v[m].index = from + (j - 1)
      BY <1>1, <3>1
    <3> HIDE DEF m
    <3>3. v[n].index = v[m].index + 1 /\ v[m].index \in Nat
      <4>1. v[n].index = from + j /\ j \in Nat
        BY <2>1
      <4>2. \A a, b \in Nat : b > 1 => a + b = (a + (b - 1)) + 1 /\ a + (b - 1) \in Nat
        OBVIOUS
      <4> QED
        BY <2>4, <3>2, <4>1, <4>2
    <3>4. CASE v[m].index > s
      <4>1. m \in Behind(v, s)
        BY <3>2, <3>4 DEF Behind
      <4>2. \A q \in Behind(v, s) : q < n => q <= m
        BY <1>2, <3>1
      <4>3. v[n].index <= v[m].index + 1
        BY <1>2, <3>3, <4>1
      <4> QED
        BY <3>1, <4>1, <4>2, <4>3 DEF Before
    <3>5. CASE ~(v[m].index > s)
      <4>1. \A a, b \in Nat : b = a + 1 /\ b > s /\ ~(a > s) => b = s + 1
        OBVIOUS
      <4>2. v[n].index \in Nat /\ v[n].index > s
        BY <1>2
      <4>3. v[n].index = s + 1
        BY <3>3, <3>5, <4>1, <4>2
      <4> QED
        BY <4>3
    <3> QED
      BY <3>4, <3>5
  <2> QED
    BY <2>1, <2>2, <2>3, <2>4
<1> QED
  BY <1>5, <1>6

(* ... and follow each other as they did in the log they are from.         *)
Joins(w, from, e, s, before) ==
    /\ \A i \in 1 .. Len(e) : i > 1 /\ from + i > Peers => e[i - 1] = before[e[i]]
    /\ e # <<>> /\ from > s /\ from + 1 > Peers =>
          \A t : OnDisk(w, from, t) => t = before[e[1]]

LEMMA AddsLinked ==
    ASSUME NEW w \in Seq(WalRecord), NEW from \in Nat, NEW e \in Seq(1 .. MaxTerm),
           from + Len(e) <= MaxIndex,
           NEW s \in Nat, NEW before, Linked(w, s, before), Joins(w, from, e, s, before)
    PROVE  Linked(Adds(w, from, e), s, before)
<1> DEFINE v == Adds(w, from, e)
<1> HIDE DEF v
<1>0. Len(w) \in Nat /\ Len(e) \in Nat
  BY LenProperties
<1>1. /\ v \in Seq(WalRecord)
      /\ Records(w, "entry") \subseteq Records(v, "entry")
      /\ \A n \in Records(w, "entry") : v[n] = w[n] /\ n <= Len(w) /\ n \in Nat
      /\ \A n \in Records(v, "entry") : n \notin Records(w, "entry") =>
            /\ n - Len(w) \in 1 .. Len(e)
            /\ v[n].index = from + (n - Len(w)) /\ v[n].term = e[n - Len(w)]
      /\ \A i \in 1 .. Len(e) :
            /\ Len(w) + i \in Records(v, "entry")
            /\ v[Len(w) + i].index = from + i /\ v[Len(w) + i].term = e[i]
  BY AddsIs DEF v
<1>2. \A n \in Behind(v, s) : n \in Nat /\ n \in Records(v, "entry") /\ v[n].index \in Nat /\ v[n].index > s
  <2>1. v \in Seq(WalRecord)
    BY <1>1
  <2> QED
    BY <2>1, BehindIs
<1>3. \A n \in Behind(w, s) : n \in Behind(v, s) /\ n <= Len(w) /\ v[n] = w[n]
  BY <1>1 DEF Behind
<1>4. \A n \in Behind(v, s) :
         \/ n \in Behind(w, s)
         \/ /\ n \notin Records(w, "entry") /\ n - Len(w) \in 1 .. Len(e)
            /\ v[n].index = from + (n - Len(w)) /\ v[n].term = e[n - Len(w)]
  BY <1>1 DEF Behind
<1> SUFFICES ASSUME NEW n \in Behind(v, s), NEW p \in Behind(v, s),
                    v[n].index > Peers, v[n].index = v[p].index + 1, p < n,
                    \A q \in Behind(v, s) : p < q /\ q < n => v[q].index # v[p].index
             PROVE  v[p].term = before[v[n].term]
  BY DEF Linked, v
<1>5. CASE n \in Behind(w, s)
  <2>1. p \in Behind(w, s)
    BY <1>1, <1>2, <1>3, <1>4, <1>5
  <2>2. \A q \in Behind(w, s) : p < q /\ q < n => w[q].index # w[p].index
    BY <1>3, <2>1
  <2> QED
    BY <1>3, <1>5, <2>1, <2>2 DEF Linked
<1>6. CASE n \notin Behind(w, s)
  <2> DEFINE j == n - Len(w)
  <2>1. /\ j \in 1 .. Len(e) /\ n = Len(w) + j /\ v[n].index = from + j /\ v[n].term = e[j]
        /\ v[p].index = from + (j - 1)
    <3>1. /\ j \in 1 .. Len(e) /\ n \in Nat
          /\ v[n].index = from + j /\ v[n].term = e[j]
      BY <1>2, <1>4, <1>6
    <3> HIDE DEF j
    <3>2. n = Len(w) + j
      BY <1>0, <3>1 DEF j
    <3>3. j \in Nat /\ v[p].index \in Nat /\ v[p].index + 1 = from + j
      BY <1>0, <1>2, <3>1
    <3>4. v[p].index = from + (j - 1)
      BY <3>3
    <3> QED
      BY <3>1, <3>2, <3>4
  <2> HIDE DEF j
  <2>2. CASE j = 1
    <3>1. v[p].index = from /\ from > s /\ from + 1 > Peers
      BY <1>2, <2>1, <2>2
    <3>2. p \in Behind(w, s)
      <4>1. ASSUME p - Len(w) \in 1 .. Len(e), v[p].index = from + (p - Len(w)) PROVE FALSE
        BY <1>1, <1>2, <3>1, <4>1
      <4> QED
        BY <1>4, <4>1
    <3>3. ASSUME NEW m \in Records(w, "entry"), w[m].index = from PROVE m <= p
      <4>1. m \in Records(v, "entry") /\ v[m] = w[m] /\ m <= Len(w) /\ m \in Nat
        BY <1>1
      <4>2. m \in Behind(v, s) /\ v[m].index = v[p].index
        BY <3>1, <3>3, <4>1 DEF Behind
      <4>3. m < n
        BY <1>0, <2>1, <2>2, <4>1
      <4> QED
        BY <1>2, <4>1, <4>2, <4>3
    <3>4. LastOf(w, from, p)
      BY <1>3, <3>1, <3>2, <3>3 DEF LastOf, Behind
    <3>5. OnDisk(w, from, w[p].term)
      BY <3>4 DEF OnDisk, LastOf
    <3>6. e # <<>>
      BY <2>1
    <3>7. w[p].term = before[e[1]]
      BY <3>1, <3>5, <3>6 DEF Joins
    <3> QED
      BY <1>3, <2>1, <2>2, <3>2, <3>7
  <2>3. CASE j > 1
    <3> DEFINE m == Len(w) + (j - 1)
    <3>0. j \in Nat /\ j <= Len(e) /\ n = Len(w) + j
      BY <1>0, <2>1
    <3>1. j - 1 \in 1 .. Len(e) /\ m \in Nat /\ m < n /\ n = m + 1
      BY <1>0, <2>3, <3>0
    <3>2. m \in Records(v, "entry") /\ v[m].index = from + (j - 1) /\ v[m].term = e[j - 1]
      BY <1>1, <3>1
    <3> HIDE DEF m
    <3>3. m \in Behind(v, s)
      BY <1>2, <2>1, <3>2 DEF Behind
    <3>4. p = m
      <4>1. ~(p < m)
        BY <2>1, <3>1, <3>2, <3>3
      <4> QED
        BY <1>2, <3>1, <4>1
    <3>5. e[j - 1] = before[e[j]]
      BY <2>1, <2>3 DEF Joins
    <3> QED
      BY <2>1, <3>2, <3>4, <3>5
  <2> QED
    BY <2>1, <2>2, <2>3
<1> QED
  BY <1>5, <1>6

-----------------------------------------------------------------------------
(* What the state is made of, and what the invariant says of restarts.     *)

(* The numbers of the state.                                               *)
LEMMA ConstantsAre ==
    /\ Peers \in Nat /\ Peers >= 1 /\ SnapCount \in Nat /\ MaxTerm \in Nat /\ MaxTerm >= 1
    /\ MaxIndex \in Nat /\ Peers <= MaxIndex /\ Peers <= SnapCount + 1
BY RaftLoopAssumption

LEMMA LibIs ==
    ASSUME PeerTypeOK
    PROVE  /\ lib.term \in Nat /\ lib.commit \in Nat /\ lib.matched \in Nat
           /\ lib.stable \in Nat /\ lib.snap \in Nat /\ lib.applied \in Nat
BY ConstantsAre DEF PeerTypeOK

LEMMA AcksAre ==
    ASSUME PeerTypeOK
    PROVE  /\ lib.ack.term \in Nat /\ lib.ack.index \in Nat
           /\ rd.ack.term \in Nat /\ rd.ack.index \in Nat
           /\ promise.term \in Nat /\ promise.index \in Nat
<1>1. lib.ack \in Ack /\ rd.ack \in Ack /\ promise \in Ack
  BY DEF PeerTypeOK
<1>2. \A a \in Ack : a.term \in Nat /\ a.index \in Nat
  BY ConstantsAre DEF Ack
<1> QED
  BY <1>1, <1>2

LEMMA LogIs ==
    ASSUME NEW l \in Log
    PROVE  /\ l.base \in Nat /\ l.base \in 0 .. MaxIndex /\ l.ents \in Seq(1 .. MaxTerm)
           /\ Len(l.ents) \in Nat /\ LastIndex(l) \in Nat /\ LastIndex(l) = l.base + Len(l.ents)
           /\ l = [base |-> l.base, ents |-> l.ents]
<1>1. /\ l.base \in Nat /\ l.base \in 0 .. MaxIndex /\ l.ents \in Seq(1 .. MaxTerm)
      /\ l = [base |-> l.base, ents |-> l.ents]
  BY ConstantsAre DEF Log
<1>2. Len(l.ents) \in Nat
  BY <1>1, LenProperties
<1> QED
  BY <1>1, <1>2 DEF LastIndex

LEMMA LibLogIs ==
    ASSUME PeerTypeOK
    PROVE  /\ lib.log \in Log /\ lib.log.base \in Nat /\ lib.log.ents \in Seq(1 .. MaxTerm)
           /\ Len(lib.log.ents) \in Nat /\ LastIndex(lib.log) \in Nat
<1>1. lib.log \in Log
  BY DEF PeerTypeOK
<1> QED
  BY <1>1, LogIs

LEMMA ReadyIs ==
    ASSUME PeerTypeOK
    PROVE  /\ rd.ents \in Seq(1 .. MaxTerm) /\ Len(rd.ents) \in Nat
           /\ rd.snap \in Nat /\ rd.from \in Nat /\ rd.term \in Nat /\ rd.commit \in Nat
           /\ rd.lo \in Nat /\ rd.hi \in Nat
<1>1. /\ rd.ents \in Seq(1 .. MaxTerm)
      /\ rd.snap \in 0 .. MaxIndex /\ rd.from \in 0 .. MaxIndex /\ rd.term \in 0 .. MaxTerm
      /\ rd.commit \in 0 .. MaxIndex /\ rd.lo \in 1 .. MaxIndex + 1 /\ rd.hi \in 0 .. MaxIndex
  BY DEF PeerTypeOK
<1>2. Len(rd.ents) \in Nat
  BY <1>1, LenProperties
<1>3. \A b \in Nat : (\A x \in 0 .. b : x \in Nat) /\ (\A x \in 1 .. b + 1 : x \in Nat)
  OBVIOUS
<1>4. MaxIndex \in Nat /\ MaxTerm \in Nat
  BY ConstantsAre
<1> QED
  BY <1>1, <1>2, <1>3, <1>4, Zenon

LEMMA LoopIs ==
    ASSUME PeerTypeOK
    PROVE  /\ applied \in Nat /\ snapshotIndex \in Nat /\ confState \in Nat
           /\ mem.offset \in Nat /\ mem.snap.index \in Nat
BY ConstantsAre DEF PeerTypeOK, Snapshot

LEMMA WalIs ==
    ASSUME PeerTypeOK
    PROVE  /\ wal \in Seq(WalRecord) /\ Len(wal) \in Nat /\ flushed \in Nat
           /\ LastState(wal).term \in Nat /\ LastState(wal).index \in Nat
           /\ LastState(wal).term \in 0 .. MaxTerm /\ LastState(wal).index \in 0 .. MaxIndex
<1>1. wal \in Seq(WalRecord) /\ Len(wal) \in Nat /\ flushed \in Nat
  BY LenProperties DEF PeerTypeOK
<1>2. LastState(wal).term \in 0 .. MaxTerm /\ LastState(wal).index \in 0 .. MaxIndex
  BY <1>1, LastStateIs
<1> QED
  BY <1>1, <1>2, ConstantsAre

LEMMA ReachesLess ==
    ASSUME NEW w \in Seq(WalRecord), NEW s \in Nat, NEW i \in Nat, Reaches(w, s, i),
           NEW j \in Nat, j <= i
    PROVE  Reaches(w, s, j)
<1>1. CASE i <= s
  BY <1>1 DEF Reaches
<1>2. CASE ~(i <= s)
  <2>1. PICK n \in Behind(w, s) : w[n].index >= i /\ \A m \in Behind(w, s) : m <= n
    BY <1>2 DEF Reaches
  <2>2. w[n].index >= j
    BY <2>1, BehindIs
  <2> QED
    BY <2>1, <2>2 DEF Reaches
<1> QED
  BY <1>1, <1>2

(* What a crash may leave of the WAL.                                      *)
LEMMA LeavingIs ==
    ASSUME PeerTypeOK, WalInv, NEW w \in Leavings
    PROVE  /\ w \in Seq(WalRecord)
           /\ Same(w, wal, "entry") /\ Same(w, wal, "snap")
           /\ w[1] = SnapRec(0) /\ SnapRec(0) \in {w[i] : i \in DOMAIN w}
           /\ Typed(w) /\ Len(w) >= 1
           /\ \A n \in DOMAIN w : n \in DOMAIN wal /\ w[n] = wal[n]
<1>1. wal \in Seq(WalRecord) /\ flushed \in 0 .. Len(wal) /\ Len(wal) \in Nat
  BY LenProperties DEF PeerTypeOK
<1>2. PICK k \in flushed .. Len(wal) : w = SubSeq(wal, 1, k)
  BY DEF Leavings
<1>3. k \in 0 .. Len(wal) /\ k \in Nat /\ k >= 1 /\ k <= Len(wal) /\ flushed <= k
  BY <1>1 DEF WalInv, WalFormat
<1>4. w \in Seq(WalRecord) /\ Len(w) = k /\ DOMAIN w = 1 .. k /\ \A n \in 1 .. k : w[n] = wal[n]
  BY <1>1, <1>2, <1>3, PrefixIs
<1>5. DOMAIN wal = 1 .. Len(wal)
  BY <1>1, LenProperties
<1>6. \A n \in DOMAIN wal : n \notin DOMAIN w => wal[n].kind = "state"
  <2> SUFFICES ASSUME NEW n \in DOMAIN wal, n \notin DOMAIN w PROVE wal[n].kind = "state"
    OBVIOUS
  <2>1. n > flushed
    BY <1>1, <1>3, <1>4, <1>5
  <2> QED
    BY <2>1 DEF WalInv, WalFormat
<1>7. \A n \in DOMAIN w : n \in DOMAIN wal /\ w[n] = wal[n]
  BY <1>3, <1>4, <1>5
<1>8. ASSUME NEW kind, kind # "state" PROVE Same(w, wal, kind)
  BY <1>6, <1>7, <1>8 DEF Same, Records
<1>9. 1 \in DOMAIN w /\ w[1] = SnapRec(0)
  BY <1>3, <1>4 DEF WalInv, WalFormat
<1>10. Typed(w)
  <2> SUFFICES ASSUME NEW n \in Records(w, "entry") PROVE w[n].term \in 1 .. MaxTerm
    BY DEF Typed
  <2>1. n \in Records(wal, "entry") /\ w[n] = wal[n]
    BY <1>8 DEF Same
  <2>2. wal[n].term = 1 \/ wal[n].term \in 2 .. MaxTerm
    BY <2>1 DEF WalInv, WalFormat
  <2> QED
    BY <2>1, <2>2, RaftLoopAssumption
<1> QED
  BY <1>3, <1>4, <1>7, <1>8, <1>9, <1>10

LEMMA WalIsLeft ==
    ASSUME PeerTypeOK
    PROVE  wal \in Leavings
<1>1. wal \in Seq(WalRecord) /\ flushed \in 0 .. Len(wal) /\ Len(wal) \in Nat
  BY LenProperties DEF PeerTypeOK
<1>2. SubSeq(wal, 1, Len(wal)) = wal
  BY <1>1, PrefixIs, LenProperties, SeqEqual
<1>3. Len(wal) \in flushed .. Len(wal)
  BY <1>1
<1> QED
  BY <1>2, <1>3 DEF Leavings

(* A restart from what is left.                                            *)
LEMMA ReplayIs ==
    ASSUME PeerTypeOK, WalInv, NEW w \in Leavings, Survives(w)
    PROVE  LET s == Base(w, files)
               l == replayWAL(w)
           IN  /\ loadSnapshot(w) = Load(w, files) /\ loadSnapshot(w) \in Snapshot
               /\ s \in 0 .. MaxIndex /\ s <= LastState(w).index
               /\ l = ReadAll(w, s) /\ l \in Log /\ l # Gap /\ l.base = s
               /\ LastIndex(l) \in s .. MaxIndex
               /\ \A i \in s + 1 .. LastIndex(l) : OnDisk(w, i, At(l, i))
               /\ \A i \in Nat : Reaches(w, s, i) <=> i <= LastIndex(l)
<1> DEFINE s == Base(w, files)
<1>1. w \in Seq(WalRecord) /\ SnapRec(0) \in {w[i] : i \in DOMAIN w} /\ Typed(w)
  BY LeavingIs
<1>2. files \in SUBSET Snapshot
  BY DEF PeerTypeOK
<1>3. loadSnapshot(w) = Load(w, files)
  BY DEF loadSnapshot, Load, Loadable, LoadableOf
<1>4. Load(w, files) \in Snapshot /\ s \in 0 .. MaxIndex /\ s <= LastState(w).index
  BY <1>1, <1>2, LoadIs
<1>5. replayWAL(w) = ReadAll(w, s)
  BY <1>3 DEF replayWAL, Base
<1>6. Gapless(w, s)
  BY DEF Survives, Recovers
<1> HIDE DEF s
<1>7. LET l == ReadAll(w, s)
      IN  /\ l \in Log /\ l # Gap /\ l.base = s
          /\ LastIndex(l) \in s .. MaxIndex
          /\ \A i \in s + 1 .. LastIndex(l) : OnDisk(w, i, At(l, i))
          /\ \A i \in Nat : Reaches(w, s, i) <=> i <= LastIndex(l)
  BY <1>1, <1>4, <1>6, ReadIs
<1> QED
  BY <1>3, <1>4, <1>5, <1>7 DEF s

(* An index of the log that was read has the entry that is on disk.        *)
LEMMA ReadAt ==
    ASSUME PeerTypeOK, WalInv, NEW w \in Leavings, Survives(w),
           NEW i \in Nat, NEW t, OnDisk(w, i, t),
           i > replayWAL(w).base, i <= LastIndex(replayWAL(w))
    PROVE  Holds(replayWAL(w), i, t) /\ At(replayWAL(w), i) = t
<1> DEFINE l == replayWAL(w)
<1>1. l.base \in Nat /\ LastIndex(l) \in Nat /\ OnDisk(w, i, At(l, i)) /\ w \in Seq(WalRecord)
  <2>1. l.base = Base(w, files) /\ l.base \in Nat /\ LastIndex(l) \in l.base .. MaxIndex
        /\ \A j \in l.base + 1 .. LastIndex(l) : OnDisk(w, j, At(l, j))
    BY ReplayIs
  <2>2. w \in Seq(WalRecord)
    BY LeavingIs
  <2> HIDE DEF l
  <2>3. LastIndex(l) \in Nat /\ i \in l.base + 1 .. LastIndex(l)
    BY <2>1, RaftLoopAssumption DEF l
  <2> QED
    BY <2>1, <2>2, <2>3
<1>2. At(l, i) = t
  BY <1>1, OnDiskIsOne
<1> QED
  BY <1>2 DEF Holds, At

-----------------------------------------------------------------------------
(* What the invariant says.                                                *)
LEMMA RestartFollows ==
    ASSUME IInv
    PROVE  RestartIsPossible
<1> SUFFICES ASSUME NEW w \in Leavings
             PROVE  replayWAL(w) # Gap /\ LastState(w).index <= LastIndex(replayWAL(w))
  BY DEF RestartIsPossible
<1>1. PeerTypeOK /\ WalInv /\ Survives(w)
  BY DEF IInv
<1>2. w \in Seq(WalRecord) /\ LastState(w).index \in Nat
  BY <1>1, LeavingIs, LastStateIs, RaftLoopAssumption
<1>3. Reaches(w, Base(w, files), LastState(w).index)
  BY <1>1 DEF Survives, Recovers
<1>4. /\ replayWAL(w) # Gap
      /\ \A i \in Nat : Reaches(w, Base(w, files), i) <=> i <= LastIndex(replayWAL(w))
  BY <1>1, ReplayIs
<1> QED
  BY <1>2, <1>3, <1>4

LEMMA AcksFollow ==
    ASSUME IInv
    PROVE  AcksSurvive
<1> SUFFICES ASSUME NEW w \in Leavings
             PROVE  LET l == replayWAL(w) IN
                    /\ LastState(w).term >= promise.term
                    /\ LastState(w).term = promise.term =>
                          promise.index <= l.base \/ Holds(l, promise.index, promise.of)
  BY DEF AcksSurvive
<1> DEFINE l == replayWAL(w)
<1>1. PeerTypeOK /\ WalInv /\ Survives(w)
  BY DEF IInv
<1>2. w \in Seq(WalRecord) /\ LastState(w).term \in Nat
  BY <1>1, LeavingIs, LastStateIs, RaftLoopAssumption
<1>3. promise.term \in Nat /\ promise.index \in Nat
  BY <1>1, RaftLoopAssumption DEF PeerTypeOK, Ack
<1>4. HasAck(w, Base(w, files), promise)
  BY <1>1 DEF Survives
<1>5. /\ l.base = Base(w, files) /\ l.base \in Nat
      /\ \A i \in Nat : Reaches(w, Base(w, files), i) <=> i <= LastIndex(l)
  BY <1>1, ReplayIs, RaftLoopAssumption
<1> HIDE DEF l
<1>6. LastState(w).term >= promise.term
  BY <1>2, <1>3, <1>4 DEF HasAck
<1>7. ASSUME LastState(w).term = promise.term, ~(promise.index <= l.base)
      PROVE  Holds(l, promise.index, promise.of)
  <2>1. Reaches(w, Base(w, files), promise.index) /\ OnDisk(w, promise.index, promise.of)
    BY <1>4, <1>5, <1>7 DEF HasAck
  <2>2. promise.index > l.base /\ promise.index <= LastIndex(l)
    BY <1>3, <1>5, <1>7, <2>1
  <2> QED
    BY <1>1, <1>3, <2>1, <2>2, ReadAt DEF l
<1> QED
  BY <1>6, <1>7 DEF l

LEMMA AppliedFollows ==
    ASSUME IInv
    PROVE  AppliedIsOnDisk
<1> SUFFICES ASSUME NEW w \in Leavings
             PROVE  LET l == replayWAL(w) IN
                    /\ applied <= LastIndex(l)
                    /\ \A i \in 1 .. applied : i > l.base /\ i > lib.log.base =>
                          Holds(l, i, lib.log.ents[i - lib.log.base])
  BY DEF AppliedIsOnDisk
<1> DEFINE l == replayWAL(w)
<1>1. PeerTypeOK /\ WalInv /\ Survives(w)
  BY DEF IInv
<1>2. applied \in Nat /\ lib.log.base \in Nat
  BY <1>1, RaftLoopAssumption DEF PeerTypeOK, Log
<1>3. HasApplied(w, Base(w, files), lib.log, applied)
  BY <1>1 DEF Survives
<1>4. /\ l.base = Base(w, files) /\ l.base \in Nat /\ LastIndex(l) \in l.base .. MaxIndex
      /\ \A i \in Nat : Reaches(w, Base(w, files), i) <=> i <= LastIndex(l)
  BY <1>1, ReplayIs, RaftLoopAssumption
<1> HIDE DEF l
<1>5. applied <= LastIndex(l) /\ LastIndex(l) \in Nat
  BY <1>2, <1>3, <1>4, RaftLoopAssumption DEF HasApplied
<1>6. ASSUME NEW i \in 1 .. applied, i > l.base, i > lib.log.base
      PROVE  Holds(l, i, At(lib.log, i))
  <2>1. i \in Nat /\ i <= LastIndex(l)
    BY <1>2, <1>5
  <2>2. OnDisk(w, i, At(lib.log, i))
    BY <1>3, <1>4, <1>6 DEF HasApplied
  <2> QED
    BY <1>1, <1>6, <2>1, <2>2, ReadAt DEF l
<1> QED
  BY <1>5, <1>6 DEF l, At

LEMMA NoStopFollows ==
    ASSUME IInv
    PROVE  NoFatalStop
<1>1. PeerTypeOK /\ LogInv /\ ReadyInv /\ SnapInv
  BY DEF IInv
<1>2. /\ applied \in Nat /\ snapshotIndex \in Nat /\ SnapCount \in Nat /\ Peers \in Nat
      /\ lib.log.base \in Nat /\ lib.applied \in Nat /\ lib.snap \in Nat
      /\ mem.offset \in Nat /\ mem.snap.index \in Nat
      /\ rd.hi \in Nat /\ rd.lo \in Nat /\ rd.snap \in Nat
  BY <1>1, ConstantsAre, LibIs, LibLogIs, ReadyIs, LoopIs
<1>3. mem.offset <= mem.snap.index /\ snapshotIndex <= applied
  BY <1>1 DEF SnapInv
<1>4. ASSUME step = "publish" PROVE rd.lo <= applied + 1
  <2>1. rd.snap = 0 /\ rd.snap = lib.snap /\ rd.lo = NextToApply
    BY <1>1, <1>4 DEF ReadyInv, Busy
  <2>2. lib.log.base <= applied /\ lib.applied <= applied
    BY <1>1, <2>1 DEF LogInv
  <2> QED
    BY <1>2, <2>1, <2>2 DEF NextToApply
<1>5. ASSUME step = "install" PROVE rd.snap > applied
  <2>1. rd.snap # 0 /\ rd.snap = lib.snap
    BY <1>1, <1>5 DEF ReadyInv, Busy
  <2>2. applied < lib.snap
    BY <1>1, <2>1 DEF LogInv
  <2> QED
    BY <1>2, <2>1, <2>2
<1>6. ASSUME step = "trigger", MustSnapshot
      PROVE  /\ applied > mem.snap.index
             /\ mem.offset < CompactTo /\ CompactTo <= applied
  <2>1. mem.snap.index = snapshotIndex
    BY <1>1, <1>6 DEF SnapInv
  <2>2. applied - snapshotIndex > SnapCount
    BY <1>6 DEF MustSnapshot
  <2>3. CompactTo = applied - SnapCount
    BY <1>2, <2>2 DEF CompactTo
  <2> QED
    BY <1>2, <1>3, <2>1, <2>2, <2>3
<1> QED
  BY <1>3, <1>4, <1>5, <1>6 DEF NoFatalStop

LEMMA SnapshotsFollow ==
    ASSUME IInv
    PROVE  SnapshotsNameEveryPeer
BY DEF IInv, SnapInv, SnapshotsNameEveryPeer

-----------------------------------------------------------------------------
(* The library hears.                                                      *)

(* What is on disk does not change, nor the entries that are applied.      *)
LEMMA SurvivesHearing ==
    ASSUME \A w \in Leavings : Survives(w),
           UNCHANGED <<wal, flushed, files, applied, promise, parent>>,
           lib'.snap = 0 => lib.snap = 0 /\ lib'.log.base = lib.log.base,
           \A j \in 1 .. applied : j > lib'.log.base =>
              j > lib.log.base /\ At(lib'.log, j) = At(lib.log, j)
    PROVE  (\A w \in Leavings : Survives(w))'
<1>1. Leavings' = Leavings
  BY DEF Leavings
<1> SUFFICES ASSUME NEW w \in Leavings
             PROVE  Survives(w)'
  BY <1>1
<1> DEFINE s == Base(w, files)
<1>2. Base(w, files') = s
  OBVIOUS
<1>3. /\ Recovers(w, s, LastState(wal), parent)
      /\ lib.snap = 0 => lib.log.base <= s
      /\ HasAck(w, s, promise)
      /\ HasApplied(w, s, lib.log, applied)
  BY DEF Survives
<1> HIDE DEF s
<1>4. HasApplied(w, s, lib'.log, applied')
  BY <1>3 DEF HasApplied
<1>5. /\ Recovers(w, s, LastState(wal'), parent')
      /\ lib'.snap = 0 => lib'.log.base <= s
      /\ HasAck(w, s, promise')
  BY <1>3
<1> QED
  BY <1>2, <1>4, <1>5 DEF Survives

LEMMA HearTermKeeps ==
    ASSUME IInv, step \in {"idle", "advance"}, NEW t \in 2 .. MaxTerm, HearTerm(t)
    PROVE  IInv'
<1>1. /\ PeerTypeOK /\ LogInv /\ AckInv /\ ReadyInv /\ SnapInv /\ WalInv /\ DiskInv
      /\ \A w \in Leavings : Survives(w)
  BY DEF IInv
<1>2. /\ lib' = [lib EXCEPT !.term = t, !.matched = 0,
                            !.ack = [term |-> t, index |-> 0, of |-> 0]]
      /\ t > lib.term
      /\ UNCHANGED <<loop, disk, promise, crashes, parent>>
  BY DEF HearTerm
<1>3. UNCHANGED <<rd, step, applied, snapshotIndex, confState, mem, wal, flushed, files,
                  promise, crashes, parent>>
  BY <1>2 DEF loop, disk
<1>4. /\ lib'.term = t /\ lib'.matched = 0 /\ lib'.ack = [term |-> t, index |-> 0, of |-> 0]
      /\ lib'.log = lib.log /\ lib'.commit = lib.commit /\ lib'.stable = lib.stable
      /\ lib'.snap = lib.snap /\ lib'.applied = lib.applied
  BY <1>1, <1>2 DEF PeerTypeOK
<1>5. ~Busy /\ ~Busy'
  BY <1>3 DEF Busy
<1>6. PeerTypeOK'
  <2>1. t \in 0 .. MaxTerm /\ 0 \in 0 .. MaxIndex /\ 0 \in 0 .. MaxTerm
    BY RaftLoopAssumption
  <2>2. lib' \in [log : Log, term : 0 .. MaxTerm, commit : 0 .. MaxIndex,
                  matched : 0 .. MaxIndex, stable : 0 .. MaxIndex, snap : 0 .. MaxIndex,
                  applied : 0 .. MaxIndex, ack : Ack]
    BY <1>1, <1>2, <2>1 DEF PeerTypeOK, Ack
  <2> QED
    BY <1>1, <1>3, <2>2 DEF PeerTypeOK
<1>7. LogInv'
  BY <1>1, <1>3, <1>4, LibLogIs DEF LogInv
<1>8. AckInv'
  <2>1. Kept(lib'.log, lib'.matched, lib'.ack)
    BY <1>1, <1>4, LibLogIs DEF Kept
  <2>2. promise.term <= lib.term /\ promise.term \in Nat /\ lib.term \in Nat
    BY <1>1, LibIs, AcksAre DEF AckInv
  <2>3. promise'.term <= lib'.term /\ promise'.term # lib'.term
    BY <1>2, <1>3, <1>4, <2>2
  <2>4. lib'.ack.term = lib'.term
    BY <1>4
  <2> QED
    BY <1>5, <2>1, <2>3, <2>4 DEF AckInv, Remembered
<1>9. ReadyInv'
  BY <1>1, <1>3, <1>5 DEF ReadyInv
<1>10. SnapInv'
  BY <1>1, <1>3 DEF SnapInv, MustSnapshot
<1>11. WalInv'
  <2>1. LastState(wal).term <= lib.term /\ LastState(wal).term \in Nat /\ lib.term \in Nat
    BY <1>1, LibIs, WalIs DEF WalInv
  <2>2. LastState(wal').term <= lib'.term
    BY <1>2, <1>3, <1>4, <2>1
  <2> QED
    BY <1>1, <1>3, <1>4, <1>5, <2>2 DEF WalInv, WalFormat
<1>12. DiskInv'
  BY <1>1, <1>3, <1>4 DEF DiskInv, Saved
<1>13. (\A w \in Leavings : Survives(w))'
  BY <1>1, <1>3, <1>4, SurvivesHearing
<1> QED
  BY <1>6, <1>7, <1>8, <1>9, <1>10, <1>11, <1>12, <1>13 DEF IInv

LEMMA HearCommitKeeps ==
    ASSUME IInv, step \in {"idle", "advance"}, NEW i \in 1 .. MaxIndex, HearCommit(i)
    PROVE  IInv'
<1>1. /\ PeerTypeOK /\ LogInv /\ AckInv /\ ReadyInv /\ SnapInv /\ WalInv /\ DiskInv
      /\ \A w \in Leavings : Survives(w)
  BY DEF IInv
<1>2. /\ lib' = [lib EXCEPT !.commit = i]
      /\ i > lib.commit /\ i <= lib.matched
      /\ UNCHANGED <<loop, disk, promise, crashes, parent>>
  BY DEF HearCommit
<1>3. UNCHANGED <<rd, step, applied, snapshotIndex, confState, mem, wal, flushed, files,
                  promise, crashes, parent>>
  BY <1>2 DEF loop, disk
<1>4. /\ lib'.commit = i /\ lib'.log = lib.log /\ lib'.term = lib.term
      /\ lib'.matched = lib.matched /\ lib'.stable = lib.stable /\ lib'.ack = lib.ack
      /\ lib'.snap = lib.snap /\ lib'.applied = lib.applied
  BY <1>1, <1>2 DEF PeerTypeOK
<1>5. ~Busy /\ ~Busy'
  BY <1>3 DEF Busy
<1>6. PeerTypeOK'
  <2>1. i \in 0 .. MaxIndex
    BY ConstantsAre
  <2>2. lib' \in [log : Log, term : 0 .. MaxTerm, commit : 0 .. MaxIndex,
                  matched : 0 .. MaxIndex, stable : 0 .. MaxIndex, snap : 0 .. MaxIndex,
                  applied : 0 .. MaxIndex, ack : Ack]
    BY <1>1, <1>2, <2>1 DEF PeerTypeOK
  <2> QED
    BY <1>1, <1>3, <2>2 DEF PeerTypeOK
<1>7. LogInv'
  <2>1. /\ lib.log.base <= lib.commit /\ applied <= lib.commit /\ lib.matched <= LastIndex(lib.log)
    BY <1>1 DEF LogInv
  <2>2. /\ lib.log.base \in Nat /\ lib.commit \in Nat /\ applied \in Nat /\ i \in Nat
        /\ lib.matched \in Nat /\ LastIndex(lib.log) \in Nat
    BY <1>1, LibIs, LibLogIs, LoopIs
  <2>3. lib.log.base <= i /\ applied <= i /\ i <= LastIndex(lib.log)
    BY <1>2, <2>1, <2>2
  <2> QED
    BY <1>1, <1>3, <1>4, <2>3 DEF LogInv
<1>8. AckInv'
  BY <1>1, <1>3, <1>4, <1>5 DEF AckInv, Remembered
<1>9. ReadyInv'
  BY <1>1, <1>3, <1>5 DEF ReadyInv
<1>10. SnapInv'
  BY <1>1, <1>3 DEF SnapInv, MustSnapshot
<1>11. WalInv'
  <2>1. LastState(wal).index <= lib.commit /\ LastState(wal).index \in Nat /\ lib.commit \in Nat
    BY <1>1, LibIs, WalIs DEF WalInv
  <2>2. LastState(wal').index <= lib'.commit
    BY <1>2, <1>3, <1>4, <2>1
  <2> QED
    BY <1>1, <1>3, <1>4, <1>5, <2>2 DEF WalInv, WalFormat
<1>12. DiskInv'
  BY <1>1, <1>3, <1>4 DEF DiskInv, Saved
<1>13. (\A w \in Leavings : Survives(w))'
  BY <1>1, <1>3, <1>4, SurvivesHearing
<1> QED
  BY <1>6, <1>7, <1>8, <1>9, <1>10, <1>11, <1>12, <1>13 DEF IInv

LEMMA HearSnapshotKeeps ==
    ASSUME IInv, step \in {"idle", "advance"}, NEW t \in 2 .. MaxTerm, NEW i \in 1 .. MaxIndex,
           HearSnapshot(t, i)
    PROVE  IInv'
<1>1. /\ PeerTypeOK /\ LogInv /\ AckInv /\ ReadyInv /\ SnapInv /\ WalInv /\ DiskInv
      /\ \A w \in Leavings : Survives(w)
  BY DEF IInv
<1> DEFINE l == [base |-> i, ents |-> <<>>]
<1>2. /\ lib' = [lib EXCEPT
                    !.term = t, !.log = l, !.commit = i, !.matched = i,
                    !.stable = i, !.snap = i, !.ack = [term |-> t, index |-> i, of |-> 0]]
      /\ t >= lib.term /\ i > lib.commit /\ i > SnapCount
      /\ t = lib.term => i > lib.matched
      /\ UNCHANGED <<loop, disk, promise, crashes, parent>>
  BY DEF HearSnapshot
<1>3. UNCHANGED <<rd, step, applied, snapshotIndex, confState, mem, wal, flushed, files,
                  promise, crashes, parent>>
  BY <1>2 DEF loop, disk
<1>4. i \in Nat /\ t \in Nat /\ i # 0 /\ i \in 0 .. MaxIndex /\ t \in 0 .. MaxTerm
      /\ 0 \in 0 .. MaxTerm /\ i <= MaxIndex
  BY ConstantsAre
<1>5. l \in Log /\ l.base = i /\ LastIndex(l) = i
  <2>1. <<>> \in Seq(1 .. MaxTerm) /\ Len(<<>>) = 0
    OBVIOUS
  <2>2. l.base = i /\ l.ents = <<>>
    OBVIOUS
  <2>3. i + 0 = i
    BY <1>4
  <2> QED
    BY <1>4, <2>1, <2>2, <2>3 DEF Log, LastIndex
<1> HIDE DEF l
<1>6. /\ lib'.log = l /\ lib'.commit = i /\ lib'.term = t /\ lib'.matched = i /\ lib'.stable = i
      /\ lib'.snap = i /\ lib'.applied = lib.applied
      /\ lib'.ack = [term |-> t, index |-> i, of |-> 0]
  BY <1>1, <1>2 DEF PeerTypeOK
<1>7. ~Busy /\ ~Busy'
  BY <1>3 DEF Busy
<1>8. /\ lib.commit \in Nat /\ lib.term \in Nat /\ lib.matched \in Nat /\ applied \in Nat
      /\ applied <= lib.commit
  BY <1>1, LibIs, LoopIs DEF LogInv
<1>9. applied < i
  BY <1>2, <1>4, <1>8
<1>10. PeerTypeOK'
  <2>1. lib' \in [log : Log, term : 0 .. MaxTerm, commit : 0 .. MaxIndex,
                  matched : 0 .. MaxIndex, stable : 0 .. MaxIndex, snap : 0 .. MaxIndex,
                  applied : 0 .. MaxIndex, ack : Ack]
    BY <1>1, <1>2, <1>4, <1>5 DEF PeerTypeOK, Ack
  <2> QED
    BY <1>1, <1>3, <2>1 DEF PeerTypeOK
<1>11. LogInv'
  <2>1. Chain(l, parent)
    BY <1>4, <1>5 DEF Chain
  <2>2. applied <= i /\ i <= i
    BY <1>4, <1>8, <1>9
  <2>3. lib.applied <= applied
    BY <1>1 DEF LogInv
  <2> QED
    BY <1>2, <1>3, <1>4, <1>5, <1>6, <1>9, <2>1, <2>2, <2>3 DEF LogInv
<1>12. AckInv'
  <2>1. Kept(lib'.log, lib'.matched, lib'.ack) /\ lib'.ack.term = lib'.term
    BY <1>4, <1>5, <1>6 DEF Kept
  <2>2. promise.term <= lib.term /\ promise.term \in Nat /\ promise.index \in Nat
    BY <1>1, AcksAre DEF AckInv
  <2>3. promise'.term <= lib'.term
    BY <1>2, <1>3, <1>4, <1>6, <1>8, <2>2
  <2>4. ASSUME promise.term = t PROVE promise.index <= i
    <3>1. t = lib.term
      BY <1>2, <1>4, <1>8, <2>2, <2>4
    <3>2. promise.index <= lib.matched /\ i > lib.matched
      BY <1>1, <1>2, <2>4, <3>1 DEF AckInv, Kept
    <3> QED
      BY <1>4, <1>8, <2>2, <3>2
  <2>5. promise'.term = lib'.term => Kept(lib'.log, lib'.matched, promise')
    BY <1>3, <1>5, <1>6, <2>4 DEF Kept
  <2> QED
    BY <1>7, <2>1, <2>3, <2>5 DEF AckInv, Remembered
<1>13. ReadyInv'
  BY <1>1, <1>3, <1>7 DEF ReadyInv
<1>14. SnapInv'
  BY <1>1, <1>3 DEF SnapInv, MustSnapshot
<1>15. LastState(wal).index < i /\ LastState(wal).index \in Nat
  <2>1. LastState(wal).index <= lib.commit /\ LastState(wal).index \in Nat
    BY <1>1, WalIs DEF WalInv
  <2> QED
    BY <1>2, <1>4, <1>8, <2>1
<1>16. WalInv'
  <2>1. LastState(wal).term <= lib.term /\ LastState(wal).term \in Nat
    BY <1>1, WalIs DEF WalInv
  <2>2. LastState(wal').index <= lib'.commit /\ LastState(wal').term <= lib'.term
    BY <1>2, <1>3, <1>4, <1>6, <1>8, <1>15, <2>1
  <2> QED
    BY <1>1, <1>3, <1>7, <2>2 DEF WalInv, WalFormat
<1>17. DiskInv'
  <2>1. Mirrors(wal, l, i)
    BY <1>4, <1>5 DEF Mirrors, Reaches
  <2>2. LastState(wal').index <= lib'.stable
    BY <1>3, <1>4, <1>6, <1>15
  <2> QED
    BY <1>1, <1>3, <1>6, <2>1, <2>2 DEF DiskInv, Saved
<1>18. (\A w \in Leavings : Survives(w))'
  <2>1. \A j \in 1 .. applied : ~(j > lib'.log.base)
    BY <1>4, <1>5, <1>6, <1>8, <1>9
  <2> QED
    BY <1>1, <1>3, <1>4, <1>6, <2>1, SurvivesHearing
<1> QED
  BY <1>10, <1>11, <1>12, <1>13, <1>14, <1>16, <1>17, <1>18 DEF IInv

LEMMA PartIs ==
    ASSUME NEW S, NEW q \in Seq(S), NEW a \in Nat, NEW b \in Nat,
           1 <= a, a <= b + 1, b <= Len(q)
    PROVE  LET p == SubSeq(q, a, b)
           IN  /\ p \in Seq(S) /\ Len(p) = b - a + 1
               /\ \A i \in 1 .. b - a + 1 : p[i] = q[a + i - 1]
<1>1. \A i \in a .. b : i \in 1 .. Len(q)
  BY LenProperties
<1>2. \A i \in a .. b : q[i] \in S
  BY <1>1, ElementOfSeq
<1>3. /\ SubSeq(q, a, b) \in Seq(S)
      /\ Len(SubSeq(q, a, b)) = IF a <= b THEN b - a + 1 ELSE 0
      /\ \A i \in 1 .. b - a + 1 : SubSeq(q, a, b)[i] = q[a + i - 1]
  BY <1>2, SubSeqProperties
<1>4. (IF a <= b THEN b - a + 1 ELSE 0) = b - a + 1
  OBVIOUS
<1> QED
  BY <1>3, <1>4

LEMMA FirstPartIs ==
    ASSUME NEW S, NEW q \in Seq(S), NEW n \in Nat, n <= Len(q)
    PROVE  LET p == SubSeq(q, 1, n)
           IN  /\ p \in Seq(S) /\ Len(p) = n
               /\ \A i \in 1 .. n : p[i] = q[i]
<1>1. 1 \in Nat /\ 1 <= 1 /\ 1 <= n + 1
  OBVIOUS
<1> DEFINE p == SubSeq(q, 1, n)
<1>2. /\ p \in Seq(S) /\ Len(p) = n - 1 + 1
      /\ \A i \in 1 .. n - 1 + 1 : p[i] = q[1 + i - 1]
  BY <1>1, PartIs
<1> HIDE DEF p
<1>3. n - 1 + 1 = n /\ \A i \in 1 .. n : 1 + i - 1 = i
  OBVIOUS
<1> QED
  BY <1>2, <1>3 DEF p

LEMMA EntsReplaced ==
    ASSUME NEW l, NEW b, NEW s, l = [base |-> b, ents |-> s], NEW t
    PROVE  [l EXCEPT !.ents = t] = [base |-> b, ents |-> t]
OBVIOUS

(* The log up to k with an entry put behind it.                            *)
LEMMA CutAndAppendIs ==
    ASSUME NEW l \in Log, NEW k \in Nat, l.base <= k, k <= LastIndex(l), k < MaxIndex,
           NEW e \in 1 .. MaxTerm
    PROVE  LET m == PutAfter(l, k, e)
           IN  /\ m \in Log /\ m.base = l.base /\ LastIndex(m) = k + 1
               /\ \A i \in l.base + 1 .. k : At(m, i) = At(l, i)
               /\ At(m, k + 1) = e
<1> DEFINE n == k - l.base
           cut == SubSeq(l.ents, 1, n)
           m == [base |-> l.base, ents |-> Append(cut, e)]
<1>1. /\ l.base \in Nat /\ l.base \in 0 .. MaxIndex /\ l.ents \in Seq(1 .. MaxTerm)
      /\ Len(l.ents) \in Nat /\ LastIndex(l) = l.base + Len(l.ents)
      /\ l = [base |-> l.base, ents |-> l.ents]
  BY LogIs
<1>2. PutAfter(l, k, e) = m
  <2>1. UpTo(l, k) = [base |-> l.base, ents |-> cut]
    BY <1>1, EntsReplaced, Zenon DEF UpTo
  <2> HIDE DEF cut
  <2>2. UpTo(l, k).ents = cut
    BY <2>1
  <2> QED
    BY <2>1, <2>2, EntsReplaced, Zenon DEF PutAfter
<1>3. n \in Nat /\ n <= Len(l.ents) /\ l.base + n = k
  BY <1>1
<1> HIDE DEF n
<1>4. cut \in Seq(1 .. MaxTerm) /\ Len(cut) = n /\ \A j \in 1 .. n : cut[j] = l.ents[j]
  BY <1>1, <1>3, FirstPartIs
<1> HIDE DEF cut
<1>5. /\ m.ents \in Seq(1 .. MaxTerm) /\ Len(m.ents) = n + 1
      /\ \A j \in 1 .. n : m.ents[j] = cut[j]
      /\ m.ents[n + 1] = e
  BY <1>3, <1>4
<1>6. m.base = l.base
  OBVIOUS
<1> HIDE DEF m
<1>7. m \in Log
  BY <1>1, <1>5, <1>6 DEF m, Log
<1>8. LastIndex(m) = k + 1
  BY <1>1, <1>3, <1>5, <1>6 DEF LastIndex
<1>9. ASSUME NEW i \in l.base + 1 .. k PROVE At(m, i) = At(l, i)
  <2>1. i - l.base \in 1 .. n
    BY <1>1, <1>3
  <2> QED
    BY <1>4, <1>5, <1>6, <2>1 DEF At
<1>10. At(m, k + 1) = e
  <2>1. (k + 1) - l.base = n + 1
    BY <1>1, <1>3
  <2> QED
    BY <1>5, <1>6, <2>1 DEF At
<1> QED
  BY <1>2, <1>6, <1>7, <1>8, <1>9, <1>10

(* What the library has after an entry that it heard.                      *)
LEMMA EntryIs ==
    ASSUME PeerTypeOK, LogInv, DiskInv,
           NEW t \in 2 .. MaxTerm, NEW k \in 0 .. MaxIndex, NEW e \in 1 .. MaxTerm,
           HearEntry(t, k, e)
    PROVE  /\ lib'.log \in Log /\ lib'.log.base = lib.log.base
           /\ LastIndex(lib'.log) <= MaxIndex /\ k + 1 <= LastIndex(lib'.log)
           /\ \A i \in lib.log.base + 1 .. k : At(lib'.log, i) = At(lib.log, i)
           /\ Holds(lib'.log, k + 1, e)
           /\ Chain(lib'.log, parent)
           /\ lib.log.base <= lib'.stable /\ lib'.stable <= LastIndex(lib'.log)
           /\ lib'.stable \in 0 .. MaxIndex
           /\ lib'.stable = lib.stable \/ lib'.stable = k
           /\ Mirrors(wal, lib'.log, lib'.stable)
<1> DEFINE l == lib.log
           m == PutAfter(l, k, e)
           new == ~Holds(l, k + 1, e)
<1>1. /\ k >= lib.commit /\ k <= LastIndex(l) /\ k < MaxIndex
      /\ IF k < Peers THEN e = 1 ELSE e \in 2 .. t
      /\ k > l.base /\ e # 1 => Holds(l, k, parent[e])
      /\ lib'.log = IF new THEN m ELSE l
      /\ lib'.stable = IF new /\ k < lib.stable THEN k ELSE lib.stable
  <2>1. lib' = [lib EXCEPT
                  !.term    = t,
                  !.log     = IF new THEN m ELSE l,
                  !.stable  = IF new /\ k < lib.stable THEN k ELSE lib.stable,
                  !.matched = k + 1,
                  !.ack     = [term |-> t, index |-> k + 1, of |-> e]]
    BY DEF HearEntry
  <2>2. DOMAIN lib = {"log", "term", "commit", "matched", "stable", "snap", "applied", "ack"}
    BY DEF PeerTypeOK
  <2> HIDE DEF new, m
  <2>3. lib'.log = IF new THEN m ELSE l
    BY <2>1, <2>2
  <2>4. lib'.stable = IF new /\ k < lib.stable THEN k ELSE lib.stable
    BY <2>1, <2>2
  <2> QED
    BY <2>3, <2>4 DEF HearEntry, new
<1>2. /\ l \in Log /\ l.base \in Nat /\ LastIndex(l) \in Nat /\ k \in Nat
      /\ lib.commit \in Nat /\ lib.stable \in Nat /\ lib.stable \in 0 .. MaxIndex
  <2>1. lib.stable \in 0 .. MaxIndex
    BY DEF PeerTypeOK
  <2> QED
    BY <2>1, LibIs, LibLogIs, ConstantsAre
<1>3. /\ l.base <= lib.commit /\ l.base <= lib.stable /\ lib.stable <= LastIndex(l)
      /\ LastIndex(l) <= MaxIndex /\ Chain(l, parent)
  BY DEF LogInv
<1>4. l.base <= k
  BY <1>1, <1>2, <1>3
<1>5. Mirrors(wal, l, lib.stable) /\ wal \in Seq(WalRecord)
  BY WalIs DEF DiskInv
<1>6. CASE ~new
  <2>1. lib'.log = l /\ lib'.stable = lib.stable
    BY <1>1, <1>6
  <2>2. Holds(l, k + 1, e)
    BY <1>6
  <2>3. k + 1 <= LastIndex(l)
    BY <2>2 DEF Holds
  <2> QED
    BY <1>2, <1>3, <1>5, <2>1, <2>2, <2>3
<1>7. CASE new
  <2> HIDE DEF new
  <2>1. /\ m \in Log /\ m.base = l.base /\ LastIndex(m) = k + 1
        /\ \A i \in l.base + 1 .. k : At(m, i) = At(l, i)
        /\ At(m, k + 1) = e
    BY <1>1, <1>2, <1>4, CutAndAppendIs
  <2> HIDE DEF m
  <2>2. lib'.log = m
    BY <1>1, <1>7
  <2> DEFINE s == lib'.stable
  <2>3. /\ s = lib.stable \/ s = k
        /\ s \in Nat /\ s <= k /\ s <= lib.stable /\ l.base <= s
    BY <1>1, <1>2, <1>3, <1>4, <1>7
  <2> HIDE DEF s
  <2>4. Chain(m, parent)
    <3> SUFFICES ASSUME NEW i \in m.base + 1 .. LastIndex(m)
                 PROVE  /\ IF i <= Peers THEN At(m, i) = 1 ELSE At(m, i) \in 2 .. MaxTerm
                        /\ i > Peers /\ i - 1 > m.base => At(m, i - 1) = parent[At(m, i)]
      BY DEF Chain
    <3>1. CASE i = k + 1
      <4>1. At(m, i) = e /\ i - 1 = k
        BY <1>2, <2>1, <3>1
      <4>2. IF i <= Peers THEN e = 1 ELSE e \in 2 .. MaxTerm
        BY <1>1, <1>2, <3>1, ConstantsAre
      <4>3. ASSUME i > Peers, k > m.base PROVE At(m, k) = parent[e]
        <5>1. e # 1
          BY <4>2, <4>3, <1>2, <3>1, ConstantsAre
        <5>2. At(l, k) = parent[e]
          BY <1>1, <2>1, <4>3, <5>1 DEF Holds, At
        <5> QED
          BY <1>2, <2>1, <4>3, <5>2
      <4> QED
        BY <4>1, <4>2, <4>3
    <3>2. CASE i # k + 1
      <4>1. i \in l.base + 1 .. k /\ i \in l.base + 1 .. LastIndex(l) /\ i \in Nat
        BY <1>1, <1>2, <2>1, <3>2
      <4>2. i - 1 > l.base => i - 1 \in l.base + 1 .. k
        BY <1>2, <4>1
      <4>3. At(m, i) = At(l, i) /\ (i - 1 > l.base => At(m, i - 1) = At(l, i - 1))
        BY <2>1, <4>1, <4>2
      <4> QED
        BY <1>3, <2>1, <4>1, <4>3 DEF Chain
    <3> QED
      BY <3>1, <3>2
  <2>5. Mirrors(wal, m, s)
    <3>1. Reaches(wal, l.base, s)
      BY <1>2, <1>5, <2>3, ReachesLess DEF Mirrors
    <3>2. ASSUME NEW i \in l.base + 1 .. s PROVE OnDisk(wal, i, At(m, i))
      <4>1. i \in l.base + 1 .. k /\ i \in l.base + 1 .. lib.stable
        BY <1>2, <2>3
      <4> QED
        BY <1>5, <2>1, <4>1 DEF Mirrors
    <3> QED
      BY <2>1, <3>1, <3>2 DEF Mirrors
  <2>6. Holds(m, k + 1, e)
    BY <1>2, <1>4, <2>1 DEF Holds, At
  <2>7. k + 1 <= MaxIndex /\ s <= k + 1 /\ s \in 0 .. MaxIndex
    BY <1>1, <1>2, <2>3, ConstantsAre
  <2>8. k + 1 <= k + 1
    BY <1>2
  <2> QED
    BY <2>1, <2>2, <2>3, <2>4, <2>5, <2>6, <2>7, <2>8 DEF s
<1> QED
  BY <1>6, <1>7

LEMMA HearEntryKeeps ==
    ASSUME IInv, step \in {"idle", "advance"},
           NEW t \in 2 .. MaxTerm, NEW k \in 0 .. MaxIndex, NEW e \in 1 .. MaxTerm,
           HearEntry(t, k, e)
    PROVE  IInv'
<1>1. /\ PeerTypeOK /\ LogInv /\ AckInv /\ ReadyInv /\ SnapInv /\ WalInv /\ DiskInv
      /\ \A w \in Leavings : Survives(w)
  BY DEF IInv
<1> DEFINE l == lib'.log
           s == lib'.stable
           a == [term |-> t, index |-> k + 1, of |-> e]
<1>2. /\ t >= lib.term /\ k >= lib.commit /\ k < MaxIndex
      /\ t = lib.term => k >= lib.matched
      /\ UNCHANGED <<loop, disk, promise, crashes, parent>>
  BY DEF HearEntry
<1>3. UNCHANGED <<rd, step, applied, snapshotIndex, confState, mem, wal, flushed, files,
                  promise, crashes, parent>>
  BY <1>2 DEF loop, disk
<1>4. /\ lib' = [log |-> l, term |-> t, commit |-> lib.commit, matched |-> k + 1,
                 stable |-> s, snap |-> lib.snap, applied |-> lib.applied, ack |-> a]
  <2>1. \E x, y : lib' = [lib EXCEPT !.term = t, !.log = x, !.stable = y,
                                    !.matched = k + 1, !.ack = a]
    BY DEF HearEntry
  <2>2. lib = [log |-> lib.log, term |-> lib.term, commit |-> lib.commit,
               matched |-> lib.matched, stable |-> lib.stable, snap |-> lib.snap,
               applied |-> lib.applied, ack |-> lib.ack]
    BY <1>1 DEF PeerTypeOK
  <2> HIDE DEF a
  <2> QED
    BY <2>1, <2>2
<1>5. /\ l \in Log /\ l.base = lib.log.base
      /\ LastIndex(l) <= MaxIndex /\ k + 1 <= LastIndex(l)
      /\ \A i \in lib.log.base + 1 .. k : At(l, i) = At(lib.log, i)
      /\ Holds(l, k + 1, e)
      /\ Chain(l, parent)
      /\ lib.log.base <= s /\ s <= LastIndex(l) /\ s \in 0 .. MaxIndex
      /\ s = lib.stable \/ s = k
      /\ Mirrors(wal, l, s)
  BY <1>1, EntryIs
<1> HIDE DEF l, s
<1>6. /\ lib'.log = l /\ lib'.term = t /\ lib'.commit = lib.commit /\ lib'.matched = k + 1
      /\ lib'.stable = s /\ lib'.snap = lib.snap /\ lib'.applied = lib.applied /\ lib'.ack = a
  BY <1>4
<1>7. k \in Nat /\ k + 1 \in 0 .. MaxIndex /\ t \in 0 .. MaxTerm /\ e \in 0 .. MaxTerm /\ t \in Nat
  BY <1>2, ConstantsAre
<1>8. ~Busy /\ ~Busy'
  BY <1>3 DEF Busy
<1>9. /\ lib.commit \in Nat /\ lib.term \in Nat /\ lib.matched \in Nat /\ applied \in Nat
      /\ applied <= lib.commit /\ lib.log.base \in Nat /\ lib.log.base <= lib.commit
      /\ LastIndex(lib.log) \in Nat /\ LastIndex(l) \in Nat
  BY <1>1, <1>5, LibIs, LibLogIs, LogIs, LoopIs DEF LogInv
<1>10. PeerTypeOK'
  <2>1. a \in Ack
    BY <1>7 DEF Ack
  <2> HIDE DEF a
  <2>2. lib' \in [log : Log, term : 0 .. MaxTerm, commit : 0 .. MaxIndex,
                  matched : 0 .. MaxIndex, stable : 0 .. MaxIndex, snap : 0 .. MaxIndex,
                  applied : 0 .. MaxIndex, ack : Ack]
    BY <1>1, <1>4, <1>5, <1>7, <2>1 DEF PeerTypeOK
  <2> QED
    BY <1>1, <1>3, <2>2 DEF PeerTypeOK
<1>11. LogInv'
  <2>1. lib.commit <= LastIndex(l)
    BY <1>2, <1>5, <1>7, <1>9
  <2> QED
    BY <1>1, <1>3, <1>5, <1>6, <2>1 DEF LogInv
<1>12. AckInv'
  <2>1. Kept(l, k + 1, a) /\ a.term = t
    BY <1>5, <1>7 DEF Kept
  <2> HIDE DEF a
  <2>2. promise.term <= lib.term /\ promise.term \in Nat /\ promise.index \in Nat
    BY <1>1, AcksAre DEF AckInv
  <2>3. promise.term <= t
    BY <1>2, <1>7, <1>9, <2>2
  <2>4. ASSUME promise.term = t PROVE Kept(l, k + 1, promise)
    <3>1. t = lib.term
      BY <1>2, <1>7, <1>9, <2>2, <2>4
    <3>2. Kept(lib.log, lib.matched, promise) /\ k >= lib.matched
      BY <1>1, <1>2, <2>4, <3>1 DEF AckInv
    <3>3. promise.index <= lib.matched
      BY <3>2 DEF Kept
    <3>4. promise.index <= k
      BY <1>7, <1>9, <2>2, <3>2, <3>3
    <3>5. CASE promise.index <= lib.log.base
      BY <1>5, <1>7, <2>2, <3>4, <3>5 DEF Kept
    <3>6. CASE ~(promise.index <= lib.log.base)
      <4>1. At(lib.log, promise.index) = promise.of
        BY <3>2, <3>6 DEF Kept, Holds, At
      <4>2. promise.index \in lib.log.base + 1 .. k
        BY <1>7, <1>9, <2>2, <3>4, <3>6
      <4>3. At(l, promise.index) = promise.of
        BY <1>5, <4>1, <4>2
      <4>4. promise.index <= k + 1 /\ promise.index <= LastIndex(l) /\ promise.index > l.base
        BY <1>5, <1>7, <1>9, <2>2, <3>4, <4>2
      <4> QED
        BY <4>3, <4>4 DEF Kept, Holds, At
    <3> QED
      BY <3>5, <3>6
  <2> QED
    BY <1>3, <1>6, <1>8, <2>1, <2>3, <2>4 DEF AckInv, Remembered
<1>13. ReadyInv'
  BY <1>1, <1>3, <1>8 DEF ReadyInv
<1>14. SnapInv'
  BY <1>1, <1>3 DEF SnapInv, MustSnapshot
<1>15. WalInv'
  <2>1. LastState(wal).term <= lib.term /\ LastState(wal).term \in Nat
    BY <1>1, WalIs DEF WalInv
  <2>2. LastState(wal').term <= lib'.term
    BY <1>2, <1>3, <1>6, <1>7, <1>9, <2>1
  <2> QED
    BY <1>1, <1>3, <1>6, <1>8, <2>2 DEF WalInv, WalFormat
<1>16. DiskInv'
  <2>1. LastState(wal).index <= lib.commit /\ LastState(wal).index \in Nat
    BY <1>1, WalIs DEF WalInv
  <2>2. LastState(wal).index <= k
    BY <1>2, <1>7, <1>9, <2>1
  <2>3. step = "advance" /\ s < rd.from => LastState(wal).index <= s
    BY <1>1, <1>5, <2>2 DEF DiskInv
  <2> QED
    BY <1>1, <1>3, <1>5, <1>6, <2>3 DEF DiskInv, Saved
<1>17. (\A w \in Leavings : Survives(w))'
  <2>1. ASSUME NEW j \in 1 .. applied, j > lib'.log.base
        PROVE  j > lib.log.base /\ At(lib'.log, j) = At(lib.log, j)
    <3>1. j \in lib.log.base + 1 .. k
      BY <1>2, <1>5, <1>6, <1>7, <1>9, <2>1
    <3> QED
      BY <1>5, <1>6, <2>1, <3>1
  <2> QED
    BY <1>1, <1>3, <1>5, <1>6, <2>1, SurvivesHearing
<1> QED
  BY <1>10, <1>11, <1>12, <1>13, <1>14, <1>15, <1>16, <1>17 DEF IInv

LEMMA HearKeeps ==
    ASSUME IInv, Hear
    PROVE  IInv'
BY HearTermKeeps, HearEntryKeeps, HearCommitKeeps, HearSnapshotKeeps DEF Hear

-----------------------------------------------------------------------------
(* The steps of serveChannels that leave the WAL alone.                    *)

(* A WAL with the same entries, read from a snapshot that is no older.     *)
LEMMA RecoversLater ==
    ASSUME NEW w \in Seq(WalRecord), NEW v \in Seq(WalRecord), Same(v, w, "entry"),
           LastState(v) = LastState(w),
           NEW s \in Nat, NEW t \in Nat, s <= t,
           NEW last, NEW before, Recovers(w, s, last, before)
    PROVE  Recovers(v, t, last, before)
<1>1. LastState(w).index \in Nat
  BY LastStateIs, ConstantsAre
<1>2. Gapless(w, t) /\ Linked(w, t, before) /\ Reaches(w, t, LastState(w).index)
  BY <1>1, GaplessLater, LinkedLater, ReachesLater DEF Recovers
<1>3. Gapless(v, t) /\ Linked(v, t, before) /\ Reaches(v, t, LastState(v).index)
  BY <1>2, SameLog
<1> QED
  BY <1>3 DEF Recovers

LEMMA HasAckLater ==
    ASSUME NEW w \in Seq(WalRecord), NEW v \in Seq(WalRecord), Same(v, w, "entry"),
           LastState(v) = LastState(w),
           NEW s \in Nat, NEW t \in Nat, s <= t,
           NEW a, a.index \in Nat, HasAck(w, s, a)
    PROVE  HasAck(v, t, a)
<1>1. a.term <= LastState(v).term
  BY DEF HasAck
<1>2. ASSUME LastState(v).term = a.term
      PROVE  a.index <= t \/ (Reaches(v, t, a.index) /\ OnDisk(v, a.index, a.of))
  <2>1. CASE a.index <= s
    BY <2>1
  <2>2. CASE Reaches(w, s, a.index) /\ OnDisk(w, a.index, a.of)
    <3>1. Reaches(w, t, a.index)
      BY <2>2, ReachesLater
    <3> QED
      BY <2>2, <3>1, SameLog
  <2> QED
    BY <1>2, <2>1, <2>2 DEF HasAck
<1> QED
  BY <1>1, <1>2 DEF HasAck

LEMMA HasAppliedLater ==
    ASSUME NEW w \in Seq(WalRecord), NEW v \in Seq(WalRecord), Same(v, w, "entry"),
           NEW s \in Nat, NEW t \in Nat, s <= t,
           NEW l, NEW i \in Nat, HasApplied(w, s, l, i)
    PROVE  HasApplied(v, t, l, i)
<1>1. Reaches(w, t, i)
  BY ReachesLater DEF HasApplied
<1>2. Reaches(v, t, i)
  BY <1>1, SameLog
<1>3. ASSUME NEW j \in 1 .. i, j > t, j > l.base PROVE OnDisk(v, j, At(l, j))
  <2>1. j > s
    BY <1>3
  <2>2. OnDisk(w, j, At(l, j))
    BY <1>3, <2>1 DEF HasApplied
  <2> QED
    BY <2>2, SameLog
<1> QED
  BY <1>2, <1>3 DEF HasApplied

(* What is written can only make the snapshot to begin from a newer one.   *)
LEMMA BaseGrows ==
    ASSUME NEW w \in Seq(WalRecord), NEW v \in Seq(WalRecord),
           SnapRec(0) \in {w[i] : i \in DOMAIN w},
           \A n \in Records(w, "snap") : n \in DOMAIN v /\ v[n] = w[n],
           LastState(w).index <= LastState(v).index,
           NEW F \in SUBSET Snapshot
    PROVE  Base(w, F) <= Base(v, F) /\ Base(w, F) \in Nat /\ Base(v, F) \in Nat
<1>1. \A i : SnapRec(i) \in {w[n] : n \in DOMAIN w} => SnapRec(i) \in {v[n] : n \in DOMAIN v}
  <2> SUFFICES ASSUME NEW i, NEW n \in DOMAIN w, w[n] = SnapRec(i)
               PROVE  SnapRec(i) \in {v[m] : m \in DOMAIN v}
    OBVIOUS
  <2>1. n \in Records(w, "snap")
    BY DEF Records, SnapRec
  <2> QED
    BY <2>1
<1>2. SnapRec(0) \in {v[n] : n \in DOMAIN v}
  BY <1>1
<1>3. /\ Load(w, F) \in LoadableOf(w, F)
      /\ Base(w, F) \in 0 .. MaxIndex /\ Base(w, F) <= LastState(w).index
  BY LoadIs
<1>4. /\ \A o \in LoadableOf(v, F) : o.index <= Base(v, F)
      /\ Base(v, F) \in 0 .. MaxIndex
  BY <1>2, LoadIs
<1>5. LastState(w).index \in Nat /\ LastState(v).index \in Nat
  BY LastStateIs, ConstantsAre
<1>6. Base(w, F) <= LastState(v).index /\ Base(w, F) \in Nat /\ Base(v, F) \in Nat
  BY <1>3, <1>4, <1>5, ConstantsAre
<1>7. Load(w, F) \in LoadableOf(v, F)
  BY <1>1, <1>3, <1>6 DEF LoadableOf, Base
<1> QED
  BY <1>4, <1>6, <1>7 DEF Base

LEMMA LeavingsSynced ==
    ASSUME wal' \in Seq(WalRecord), flushed' = Len(wal')
    PROVE  Leavings' = {wal'}
<1>1. Len(wal') \in Nat
  BY LenProperties
<1>2. SubSeq(wal', 1, Len(wal')) = wal'
  <2> DEFINE w == wal'
  <2>1. w \in Seq(WalRecord)
    OBVIOUS
  <2> HIDE DEF w
  <2>2. SubSeq(w, 1, Len(w)) = w
    BY <2>1, PrefixIs, LenProperties, SeqEqual
  <2> QED
    BY <2>2 DEF w
<1>3. flushed' .. Len(wal') = {Len(wal')}
  BY <1>1
<1> QED
  BY <1>2, <1>3 DEF Leavings

(* A snapshot's file alone, without its record in the WAL, is not loaded.  *)
LEMMA FileAlone ==
    ASSUME PeerTypeOK, WalInv, NEW w \in Leavings, NEW i \in Nat, i # 0
    PROVE  Base(w, files \cup {[index |-> i, conf |-> Peers]}) = Base(w, files)
<1> DEFINE f == [index |-> i, conf |-> Peers]
<1>1. Same(w, wal, "snap")
  BY LeavingIs
<1>2. ASSUME SnapRec(i) \in {w[n] : n \in DOMAIN w} PROVE f \in files
  <2>1. PICK n \in DOMAIN w : w[n] = SnapRec(i)
    BY <1>2
  <2>2. n \in Records(w, "snap")
    BY <2>1 DEF Records, SnapRec
  <2>3. n \in Records(wal, "snap") /\ wal[n] = SnapRec(i)
    BY <1>1, <2>1, <2>2 DEF Same
  <2>4. wal[n].index = i /\ wal[n] # SnapRec(0)
    BY <2>3 DEF SnapRec
  <2> QED
    BY <2>3, <2>4 DEF WalInv, WalFormat
<1>3. LoadableOf(w, files \cup {f}) = LoadableOf(w, files)
  BY <1>2 DEF LoadableOf
<1> QED
  BY <1>3, Zenon DEF Base, Load

-----------------------------------------------------------------------------
(* The steps of the loop.                                                  *)

LEMMA LastPartIs ==
    ASSUME NEW S, NEW q \in Seq(S), NEW k \in Nat, k <= Len(q)
    PROVE  LET p == SubSeq(q, k + 1, Len(q))
           IN  /\ p \in Seq(S) /\ Len(p) = Len(q) - k
               /\ \A i \in 1 .. Len(p) : p[i] = q[k + i]
<1>1. /\ Len(q) \in Nat /\ k + 1 \in Nat /\ 1 <= k + 1 /\ k + 1 <= Len(q) + 1
      /\ Len(q) <= Len(q)
  BY LenProperties
<1> DEFINE p == SubSeq(q, k + 1, Len(q))
<1>2. /\ p \in Seq(S) /\ Len(p) = Len(q) - (k + 1) + 1
      /\ \A i \in 1 .. Len(q) - (k + 1) + 1 : p[i] = q[(k + 1) + i - 1]
  BY <1>1, PartIs
<1> HIDE DEF p
<1>3. Len(q) - (k + 1) + 1 = Len(q) - k
  BY <1>1
<1>4. \A i \in 1 .. Len(p) : (k + 1) + i - 1 = k + i
  BY <1>1, <1>2
<1> QED
  BY <1>2, <1>3, <1>4 DEF p

(* The entries that are not stable, as the Ready has them.                 *)
LEMMA UnsavedAre ==
    ASSUME NEW l \in Log, NEW n \in Nat, l.base <= n, n <= LastIndex(l),
           LastIndex(l) <= MaxIndex, NEW before, Chain(l, before)
    PROVE  LET e == SubSeq(l.ents, n - l.base + 1, Len(l.ents))
           IN  /\ e \in Seq(1 .. MaxTerm) /\ n + Len(e) = LastIndex(l)
               /\ \A i \in 1 .. Len(e) : e[i] = At(l, n + i)
               /\ Chain([base |-> n, ents |-> e], before)
<1> DEFINE k == n - l.base
           e == SubSeq(l.ents, k + 1, Len(l.ents))
<1>1. /\ l.base \in Nat /\ l.ents \in Seq(1 .. MaxTerm) /\ Len(l.ents) \in Nat
      /\ LastIndex(l) = l.base + Len(l.ents) /\ LastIndex(l) \in Nat
  BY LogIs
<1>2. k \in Nat /\ k <= Len(l.ents) /\ Len(l.ents) - k = LastIndex(l) - n
  BY <1>1
<1>3. \A i \in Nat : k + i = (n + i) - l.base
  BY <1>1
<1> HIDE DEF k
<1>4. /\ e \in Seq(1 .. MaxTerm) /\ Len(e) = Len(l.ents) - k
      /\ \A i \in 1 .. Len(e) : e[i] = l.ents[k + i]
  BY <1>1, <1>2, LastPartIs
<1> HIDE DEF e
<1>5. Len(e) = LastIndex(l) - n
  BY <1>2, <1>4
<1>6. ASSUME NEW i \in 1 .. Len(e) PROVE e[i] = At(l, n + i)
  <2>1. e[i] = l.ents[k + i]
    BY <1>4
  <2>2. i \in Nat
    OBVIOUS
  <2>3. k + i = (n + i) - l.base
    BY <1>3, <2>2
  <2> QED
    BY <2>1, <2>3 DEF At
<1>7. n + Len(e) = LastIndex(l)
  BY <1>1, <1>5
<1> DEFINE m == [base |-> n, ents |-> e]
<1>8. Chain(m, before)
  <2>1. m.base = n /\ LastIndex(m) = LastIndex(l)
    BY <1>7 DEF LastIndex
  <2>2. ASSUME NEW i \in n + 1 .. LastIndex(l) PROVE At(m, i) = At(l, i)
    <3>1. i - n \in 1 .. Len(e) /\ n + (i - n) = i
      BY <1>1, <1>5
    <3>2. At(m, i) = e[i - n]
      BY DEF At
    <3> QED
      BY <1>6, <3>1, <3>2
  <2> HIDE DEF m
  <2> SUFFICES ASSUME NEW i \in n + 1 .. LastIndex(l)
               PROVE  /\ IF i <= Peers THEN At(m, i) = 1 ELSE At(m, i) \in 2 .. MaxTerm
                      /\ i > Peers /\ i - 1 > n => At(m, i - 1) = before[At(m, i)]
    BY <2>1 DEF Chain
  <2>3. i \in l.base + 1 .. LastIndex(l) /\ (i - 1 > n => i - 1 \in n + 1 .. LastIndex(l))
        /\ (i - 1 > n => i - 1 > l.base)
    BY <1>1
  <2>4. At(m, i) = At(l, i) /\ (i - 1 > n => At(m, i - 1) = At(l, i - 1))
    BY <2>2, <2>3
  <2> QED
    BY <2>3, <2>4 DEF Chain
<1> QED
  BY <1>4, <1>6, <1>7, <1>8 DEF e, k

LEMMA ReadyKeeps ==
    ASSUME IInv, Ready
    PROVE  IInv'
<1>1. /\ PeerTypeOK /\ LogInv /\ AckInv /\ ReadyInv /\ SnapInv /\ WalInv /\ DiskInv
      /\ \A w \in Leavings : Survives(w)
  BY DEF IInv
<1> DEFINE e == SubSeq(lib.log.ents, lib.stable - lib.log.base + 1, Len(lib.log.ents))
<1>2. /\ step = "idle" /\ step' = After("idle", lib.snap)
      /\ rd' = [snap |-> lib.snap, from |-> lib.stable, ents |-> e,
                term |-> lib.term, commit |-> lib.commit,
                lo |-> NextToApply, hi |-> lib.commit, ack |-> lib.ack]
      /\ lib' = [lib EXCEPT !.ack = NoAck]
      /\ UNCHANGED <<applied, snapshotIndex, confState, mem, disk, promise, crashes, parent>>
  BY DEF Ready
<1>3. UNCHANGED <<applied, snapshotIndex, confState, mem, wal, flushed, files,
                  promise, crashes, parent>>
  BY <1>2 DEF disk
<1>4. /\ lib'.log = lib.log /\ lib'.commit = lib.commit /\ lib'.term = lib.term
      /\ lib'.matched = lib.matched /\ lib'.stable = lib.stable
      /\ lib'.snap = lib.snap /\ lib'.applied = lib.applied /\ lib'.ack = NoAck
  BY <1>1, <1>2 DEF PeerTypeOK
<1>5. step' = IF lib.snap = 0 THEN "saveWal" ELSE "saveFile"
  BY <1>2 DEF After
<1>6. Busy' /\ ~Saved'
  BY <1>5 DEF Busy, Saved
<1>7. /\ e \in Seq(1 .. MaxTerm) /\ lib.stable + Len(e) = LastIndex(lib.log)
      /\ \A i \in 1 .. Len(e) : e[i] = At(lib.log, lib.stable + i)
      /\ Chain([base |-> lib.stable, ents |-> e], parent)
      /\ LastIndex(lib.log) <= MaxIndex
  <2>1. /\ lib.log \in Log /\ lib.stable \in Nat /\ lib.log.base <= lib.stable
        /\ lib.stable <= LastIndex(lib.log) /\ LastIndex(lib.log) <= MaxIndex
        /\ Chain(lib.log, parent)
    BY <1>1, LibIs, LibLogIs DEF LogInv
  <2> QED
    BY <2>1, UnsavedAre
<1> HIDE DEF e
<1>8. /\ rd'.snap = lib.snap /\ rd'.from = lib.stable /\ rd'.ents = e /\ rd'.term = lib.term
      /\ rd'.commit = lib.commit /\ rd'.lo = NextToApply /\ rd'.hi = lib.commit
      /\ rd'.ack = lib.ack
  BY <1>2
<1>9. PeerTypeOK'
  <2>1. lib' \in [log : Log, term : 0 .. MaxTerm, commit : 0 .. MaxIndex,
                  matched : 0 .. MaxIndex, stable : 0 .. MaxIndex, snap : 0 .. MaxIndex,
                  applied : 0 .. MaxIndex, ack : Ack]
    <3>1. NoAck \in Ack
      BY ConstantsAre DEF Ack, NoAck
    <3> QED
      BY <1>1, <1>2, <3>1 DEF PeerTypeOK
  <2>2. NextToApply \in 1 .. MaxIndex + 1
    <3>1. lib.applied \in 0 .. MaxIndex /\ lib.log.base \in 0 .. MaxIndex
      BY <1>1, LibLogIs, LogIs DEF PeerTypeOK
    <3> QED
      BY <3>1, ConstantsAre DEF NextToApply
  <2>3. /\ lib.snap \in 0 .. MaxIndex /\ lib.stable \in 0 .. MaxIndex /\ lib.term \in 0 .. MaxTerm
        /\ lib.commit \in 0 .. MaxIndex /\ lib.ack \in Ack
    BY <1>1 DEF PeerTypeOK
  <2>4. rd' \in [snap : 0 .. MaxIndex, from : 0 .. MaxIndex, ents : Seq(1 .. MaxTerm),
                 term : 0 .. MaxTerm, commit : 0 .. MaxIndex,
                 lo : 1 .. MaxIndex + 1, hi : 0 .. MaxIndex, ack : Ack]
    BY <1>2, <1>7, <2>2, <2>3
  <2>5. step' \in Step
    BY <1>5 DEF Step
  <2> QED
    BY <1>1, <1>3, <2>1, <2>4, <2>5 DEF PeerTypeOK
<1>10. LogInv'
  BY <1>1, <1>3, <1>4 DEF LogInv
<1>11. AckInv'
  BY <1>1, <1>3, <1>4, <1>8 DEF AckInv, Remembered
<1>12. ReadyInv'
  <2>1. NextToApply' = NextToApply
    BY <1>4 DEF NextToApply
  <2>2. lib.snap # 0 \/ step' = "saveWal"
    BY <1>5
  <2>3. step' \notin {"send", "publish", "trigger", "markOwn", "advance"}
        /\ (step' \in {"saveFile", "saveMark", "install", "blocked"} => lib.snap # 0)
    BY <1>5
  <2> QED
    BY <1>3, <1>4, <1>7, <1>8, <2>1, <2>3 DEF ReadyInv
<1>13. SnapInv'
  <2>1. mem.snap.index = snapshotIndex
    BY <1>1, <1>2 DEF SnapInv
  <2>2. step' # "markOwn"
    BY <1>5
  <2> QED
    BY <1>1, <1>3, <2>1, <2>2 DEF SnapInv
<1>14. WalInv'
  <2>1. step' \in {"saveMark", "saveWal"} => rd'.snap = 0
    BY <1>5, <1>8
  <2>2. step' # "markOwn"
    BY <1>5
  <2> QED
    BY <1>1, <1>3, <1>4, <1>6, <2>1, <2>2 DEF WalInv, WalFormat
<1>15. DiskInv'
  <2>1. step' # "advance"
    BY <1>5
  <2> QED
    BY <1>1, <1>3, <1>4, <1>6, <2>1 DEF DiskInv
<1>16. (\A w \in Leavings : Survives(w))'
  BY <1>1, <1>3, <1>4, SurvivesHearing
<1> QED
  BY <1>9, <1>10, <1>11, <1>12, <1>13, <1>14, <1>15, <1>16 DEF IInv

(* A file is added, and nothing else that a restart reads changes.         *)
LEMMA SurvivesFile ==
    ASSUME PeerTypeOK, WalInv, \A w \in Leavings : Survives(w), NEW i \in Nat, i # 0,
           files' = files \cup {[index |-> i, conf |-> Peers]},
           UNCHANGED <<lib, applied, wal, flushed, promise, parent>>
    PROVE  (\A w \in Leavings : Survives(w))'
<1>1. Leavings' = Leavings
  BY DEF Leavings
<1> SUFFICES ASSUME NEW w \in Leavings
             PROVE  Survives(w)'
  BY <1>1
<1>2. Base(w, files') = Base(w, files)
  BY FileAlone
<1> QED
  BY <1>2 DEF Survives

LEMMA SaveFileKeeps ==
    ASSUME IInv, SaveFile
    PROVE  IInv'
<1>1. /\ PeerTypeOK /\ LogInv /\ AckInv /\ ReadyInv /\ SnapInv /\ WalInv /\ DiskInv
      /\ \A w \in Leavings : Survives(w)
  BY DEF IInv
<1> DEFINE f == [index |-> rd.snap, conf |-> Peers]
<1>2. /\ step = "saveFile" /\ step' = "saveMark"
      /\ files' = files \cup {f}
      /\ UNCHANGED <<lib, rd, applied, snapshotIndex, confState, mem, wal, flushed,
                     promise, crashes, parent>>
  BY DEF SaveFile, Goes, After
<1>3. Busy /\ Busy' /\ ~Saved /\ ~Saved'
  BY <1>2 DEF Busy, Saved
<1>4. rd.snap = lib.snap /\ rd.snap # 0 /\ rd.snap \in 0 .. MaxIndex /\ rd.snap \in Nat
  BY <1>1, <1>2, <1>3, ReadyIs DEF ReadyInv, PeerTypeOK
<1>5. f.conf = Peers /\ f.index >= Peers /\ f \in Snapshot
  <2>1. rd.snap > SnapCount
    BY <1>1, <1>4 DEF LogInv
  <2>2. rd.snap >= Peers
    BY <1>4, <2>1, ConstantsAre
  <2> QED
    BY <1>4, <2>2, ConstantsAre DEF Snapshot
<1>6. PeerTypeOK'
  <2>1. "saveMark" \in Step
    BY DEF Step
  <2> QED
    BY <1>1, <1>2, <1>5, <2>1 DEF PeerTypeOK
<1>7. LogInv'
  BY <1>1, <1>2 DEF LogInv
<1>8. AckInv'
  BY <1>1, <1>2, <1>3 DEF AckInv, Remembered
<1>9. ReadyInv'
  BY <1>1, <1>2, <1>3, <1>4 DEF ReadyInv, NextToApply
<1>10. SnapInv'
  <2>1. mem.snap.index = snapshotIndex
    BY <1>1, <1>2 DEF SnapInv
  <2> QED
    BY <1>1, <1>2, <1>5, <2>1 DEF SnapInv
<1>11. WalInv'
  BY <1>1, <1>2, <1>3 DEF WalInv, WalFormat
<1>12. DiskInv'
  BY <1>1, <1>2, <1>3 DEF DiskInv
<1>13. (\A w \in Leavings : Survives(w))'
  BY <1>1, <1>2, <1>4, SurvivesFile
<1> QED
  BY <1>6, <1>7, <1>8, <1>9, <1>10, <1>11, <1>12, <1>13 DEF IInv

LEMMA InstallKeeps ==
    ASSUME IInv, Install
    PROVE  IInv'
<1>1. /\ PeerTypeOK /\ LogInv /\ AckInv /\ ReadyInv /\ SnapInv /\ WalInv /\ DiskInv
      /\ \A w \in Leavings : Survives(w)
  BY DEF IInv
<1>2. /\ step = "install" /\ step' = "blocked"
      /\ mem' = [offset |-> rd.snap, snap |-> [index |-> rd.snap, conf |-> Peers]]
      /\ UNCHANGED <<lib, rd, applied, snapshotIndex, confState, wal, flushed, files,
                     promise, crashes, parent>>
  BY DEF Install, disk
<1>3. Busy /\ Busy' /\ Saved /\ Saved'
  BY <1>2 DEF Busy, Saved
<1>4. rd.snap # 0 /\ rd.snap \in 0 .. MaxIndex /\ rd.snap \in Nat
  BY <1>1, <1>2, ReadyIs DEF ReadyInv, PeerTypeOK
<1>5. mem'.offset = rd.snap /\ mem'.snap.index = rd.snap /\ rd.snap <= rd.snap
  BY <1>2, <1>4
<1>6. PeerTypeOK'
  <2>1. "blocked" \in Step
    BY DEF Step
  <2>2. mem' \in [offset : 0 .. MaxIndex, snap : Snapshot]
    BY <1>2, <1>4, ConstantsAre DEF Snapshot
  <2> QED
    BY <1>1, <1>2, <2>1, <2>2 DEF PeerTypeOK
<1>7. LogInv'
  BY <1>1, <1>2 DEF LogInv
<1>8. AckInv'
  BY <1>1, <1>2, <1>3 DEF AckInv, Remembered
<1>9. ReadyInv'
  BY <1>1, <1>2, <1>3, <1>4 DEF ReadyInv, NextToApply
<1>10. SnapInv'
  BY <1>1, <1>2, <1>5 DEF SnapInv
<1>11. WalInv'
  BY <1>1, <1>2, <1>3 DEF WalInv, WalFormat
<1>12. DiskInv'
  BY <1>1, <1>2, <1>3 DEF DiskInv
<1>13. (\A w \in Leavings : Survives(w))'
  BY <1>1, <1>2, SurvivesHearing
<1> QED
  BY <1>6, <1>7, <1>8, <1>9, <1>10, <1>11, <1>12, <1>13 DEF IInv

(* A Ready that is saved: the WAL has the whole log.                       *)
LEMMA MirrorsWhole ==
    ASSUME NEW w \in Seq(WalRecord), NEW l \in Log, NEW from \in Nat, NEW e \in Seq(1 .. MaxTerm),
           l.base <= from, from + Len(e) = LastIndex(l), Mirrors(w, l, from),
           \A i \in 1 .. Len(e) : e[i] = At(l, from + i) /\ OnDisk(w, from + i, e[i]),
           e # <<>> => Reaches(w, l.base, from + Len(e))
    PROVE  Mirrors(w, l, LastIndex(l))
<1>1. Len(e) \in Nat /\ l.base \in Nat /\ LastIndex(l) \in Nat
  BY LogIs, LenProperties
<1>2. Reaches(w, l.base, LastIndex(l))
  <2>1. CASE e = <<>>
    <3>1. Len(e) = 0
      BY <2>1
    <3>2. from = LastIndex(l)
      BY <1>1, <3>1
    <3> QED
      BY <3>2 DEF Mirrors
  <2>2. CASE e # <<>>
    BY <2>2
  <2> QED
    BY <2>1, <2>2
<1>3. ASSUME NEW i \in l.base + 1 .. LastIndex(l) PROVE OnDisk(w, i, At(l, i))
  <2>1. CASE i <= from
    <3>1. i \in l.base + 1 .. from
      BY <1>1, <2>1
    <3> QED
      BY <3>1 DEF Mirrors
  <2>2. CASE ~(i <= from)
    <3>1. i - from \in 1 .. Len(e) /\ from + (i - from) = i
      BY <1>1, <2>2
    <3> QED
      BY <3>1
  <2> QED
    BY <2>1, <2>2
<1> QED
  BY <1>2, <1>3 DEF Mirrors

LEMMA WholeLogIsThere ==
    ASSUME PeerTypeOK, LogInv, ReadyInv, DiskInv, Busy, Saved
    PROVE  Mirrors(wal, lib.log, LastIndex(lib.log))
<1>1. /\ wal \in Seq(WalRecord) /\ lib.log \in Log /\ rd.from \in Nat
      /\ rd.ents \in Seq(1 .. MaxTerm) /\ lib.log.base \in 0 .. MaxIndex
  BY WalIs, LibLogIs, LogIs, ReadyIs
<1>2. /\ lib.log.base <= rd.from /\ rd.from + Len(rd.ents) = LastIndex(lib.log)
      /\ Mirrors(wal, lib.log, rd.from)
  BY DEF ReadyInv, LogInv, DiskInv
<1>3. \A i \in 1 .. Len(rd.ents) :
         rd.ents[i] = At(lib.log, rd.from + i) /\ OnDisk(wal, rd.from + i, rd.ents[i])
  BY DEF ReadyInv, DiskInv
<1>4. rd.ents # <<>> => Reaches(wal, lib.log.base, rd.from + Len(rd.ents))
  BY <1>1 DEF DiskInv
<1> QED
  BY <1>1, <1>2, <1>3, <1>4, MirrorsWhole

(* What a WAL that has the log, and any with the same entries, gives a     *)
(* restart from a snapshot that is not before the log's.                   *)
LEMMA MirrorGives ==
    ASSUME NEW w \in Seq(WalRecord), NEW v \in Seq(WalRecord), Same(v, w, "entry"),
           NEW l \in Log, NEW n \in Nat, Mirrors(w, l, n),
           NEW s \in Nat, l.base <= s
    PROVE  /\ \A i \in 0 .. n : Reaches(v, s, i) /\ HasApplied(v, s, l, i)
           /\ \A i \in l.base + 1 .. n : OnDisk(v, i, At(l, i))
<1>1. l.base \in Nat
  BY LogIs
<1>2. Reaches(v, s, n)
  <2>1. Reaches(w, s, n)
    BY <1>1, ReachesLater DEF Mirrors
  <2> QED
    BY <2>1, SameLog
<1>3. ASSUME NEW i \in l.base + 1 .. n PROVE OnDisk(v, i, At(l, i))
  <2>1. OnDisk(w, i, At(l, i))
    BY DEF Mirrors
  <2> QED
    BY <2>1, SameLog
<1>4. ASSUME NEW i \in 0 .. n PROVE Reaches(v, s, i) /\ HasApplied(v, s, l, i)
  <2>1. Reaches(v, s, i)
    BY <1>2, ReachesLess
  <2>2. ASSUME NEW j \in 1 .. i, j > l.base PROVE OnDisk(v, j, At(l, j))
    <3>1. j \in l.base + 1 .. n
      BY <1>1, <2>2
    <3> QED
      BY <1>3, <3>1
  <2> QED
    BY <2>1, <2>2 DEF HasApplied
<1> QED
  BY <1>3, <1>4

LEMMA MirrorHasAck ==
    ASSUME NEW w \in Seq(WalRecord), NEW v \in Seq(WalRecord), Same(v, w, "entry"),
           NEW l \in Log, Mirrors(w, l, LastIndex(l)),
           NEW s \in Nat, l.base <= s,
           NEW a, a.index \in Nat, NEW matched, Kept(l, matched, a)
    PROVE  a.index <= s \/ (Reaches(v, s, a.index) /\ OnDisk(v, a.index, a.of))
<1>1. l.base \in Nat /\ LastIndex(l) \in Nat
  BY LogIs
<1>2. CASE a.index <= l.base
  BY <1>1, <1>2
<1>3. CASE a.index > l.base
  <2>1. a.index <= LastIndex(l) /\ At(l, a.index) = a.of
    BY <1>1, <1>3 DEF Kept, Holds, At
  <2>2. a.index \in l.base + 1 .. LastIndex(l) /\ a.index \in 0 .. LastIndex(l)
    BY <1>1, <1>3, <2>1
  <2> QED
    BY <1>1, <2>1, <2>2, MirrorGives
<1> QED
  BY <1>1, <1>2, <1>3

LEMMA SendKeeps ==
    ASSUME IInv, Send
    PROVE  IInv'
<1>1. /\ PeerTypeOK /\ LogInv /\ AckInv /\ ReadyInv /\ SnapInv /\ WalInv /\ DiskInv
      /\ \A w \in Leavings : Survives(w)
  BY DEF IInv
<1>2. /\ step = "send" /\ step' = "publish"
      /\ promise' = IF rd.ack = NoAck THEN promise ELSE rd.ack
      /\ UNCHANGED <<lib, rd, applied, snapshotIndex, confState, mem, wal, flushed, files,
                     crashes, parent>>
  BY DEF Send, Goes, After, disk
<1>3. Busy /\ Busy' /\ Saved /\ Saved'
  BY <1>2 DEF Busy, Saved
<1>4. rd.snap = 0 /\ lib.snap = 0
  BY <1>1, <1>2, <1>3 DEF ReadyInv
<1>5. promise' # promise => promise' = rd.ack /\ Remembered(rd.ack)
  BY <1>1, <1>2, <1>3 DEF AckInv
<1>6. PeerTypeOK'
  <2>1. "publish" \in Step
    BY DEF Step
  <2>2. promise' \in Ack
    BY <1>1, <1>2 DEF PeerTypeOK
  <2> QED
    BY <1>1, <1>2, <2>1, <2>2 DEF PeerTypeOK
<1>7. LogInv'
  BY <1>1, <1>2 DEF LogInv
<1>8. AckInv'
  <2>1. /\ promise'.term <= lib.term
        /\ promise'.term = lib.term => Kept(lib.log, lib.matched, promise')
    <3>1. CASE promise' = promise
      BY <1>1, <3>1 DEF AckInv
    <3>2. CASE promise' # promise
      BY <1>1, <1>5, <3>2, LibIs DEF Remembered
    <3> QED
      BY <3>1, <3>2
  <2> QED
    BY <1>1, <1>2, <1>3, <2>1 DEF AckInv, Remembered
<1>9. ReadyInv'
  BY <1>1, <1>2, <1>3, <1>4 DEF ReadyInv, NextToApply
<1>10. SnapInv'
  <2>1. mem.snap.index = snapshotIndex
    BY <1>1, <1>2 DEF SnapInv
  <2> QED
    BY <1>1, <1>2, <2>1 DEF SnapInv
<1>11. WalInv'
  BY <1>1, <1>2, <1>3 DEF WalInv, WalFormat
<1>12. DiskInv'
  BY <1>1, <1>2, <1>3 DEF DiskInv
<1>13. (\A w \in Leavings : Survives(w))'
  <2>1. Leavings' = Leavings
    BY <1>2 DEF Leavings
  <2> SUFFICES ASSUME NEW w \in Leavings
               PROVE  Survives(w)'
    BY <2>1
  <2>2. Survives(w)
    BY <1>1
  <2>3. HasAck(w, Base(w, files), promise')
    <3>1. CASE promise' = promise
      BY <2>2, <3>1 DEF Survives
    <3>2. CASE promise' # promise
      <4>1. promise' = rd.ack /\ rd.ack.term = lib.term /\ Kept(lib.log, lib.matched, rd.ack)
        BY <1>5, <3>2 DEF Remembered
      <4>2. LastState(wal).term = lib.term
        BY <1>1, <1>3 DEF WalInv, StateRec
      <4>3. LastState(w).term = lib.term
        BY <2>2, <4>2 DEF Survives, Recovers
      <4>4. lib.log.base <= Base(w, files)
        BY <1>4, <2>2 DEF Survives
      <4>5. w \in Seq(WalRecord) /\ Same(w, wal, "entry") /\ Base(w, files) \in Nat
        BY <1>1, <2>2, LeavingIs, ReplayIs, ConstantsAre
      <4>6. wal \in Seq(WalRecord) /\ lib.log \in Log /\ rd.ack.index \in Nat /\ lib.term \in Nat
        BY <1>1, WalIs, LibIs, LibLogIs, AcksAre
      <4>7. Mirrors(wal, lib.log, LastIndex(lib.log))
        BY <1>1, <1>3, WholeLogIsThere
      <4>8. \/ rd.ack.index <= Base(w, files)
            \/ Reaches(w, Base(w, files), rd.ack.index) /\ OnDisk(w, rd.ack.index, rd.ack.of)
        BY <4>1, <4>4, <4>5, <4>6, <4>7, MirrorHasAck
      <4> QED
        BY <4>1, <4>3, <4>6, <4>8 DEF HasAck
    <3> QED
      BY <3>1, <3>2
  <2> QED
    BY <1>2, <2>2, <2>3 DEF Survives
<1> QED
  BY <1>6, <1>7, <1>8, <1>9, <1>10, <1>11, <1>12, <1>13 DEF IInv

LEMMA PublishKeeps ==
    ASSUME IInv, Publish
    PROVE  IInv'
<1>1. /\ PeerTypeOK /\ LogInv /\ AckInv /\ ReadyInv /\ SnapInv /\ WalInv /\ DiskInv
      /\ \A w \in Leavings : Survives(w)
  BY DEF IInv
<1>2. /\ step = "publish" /\ step' = "trigger"
      /\ IF rd.hi > applied /\ rd.hi >= rd.lo
         THEN /\ applied' = rd.hi
              /\ confState' = IF applied < Peers THEN (IF rd.hi < Peers THEN rd.hi ELSE Peers)
                                                 ELSE confState
         ELSE UNCHANGED <<applied, confState>>
      /\ UNCHANGED <<lib, rd, snapshotIndex, mem, wal, flushed, files,
                     promise, crashes, parent>>
  BY DEF Publish, Goes, After, disk
<1>3. Busy /\ Busy' /\ Saved /\ Saved'
  BY <1>2 DEF Busy, Saved
<1>4. rd.snap = 0 /\ lib.snap = 0 /\ rd.hi = lib.commit /\ rd.lo = NextToApply
  BY <1>1, <1>2, <1>3 DEF ReadyInv
<1>5. /\ lib.log.base <= applied /\ lib.applied <= applied /\ applied <= lib.commit
      /\ lib.commit <= LastIndex(lib.log)
  BY <1>1, <1>4 DEF LogInv
<1>6. /\ applied \in Nat /\ snapshotIndex \in Nat /\ lib.log.base \in Nat /\ lib.applied \in Nat
      /\ lib.commit \in Nat /\ LastIndex(lib.log) \in Nat /\ Peers \in Nat
  BY <1>1, LibIs, LibLogIs, LoopIs, ConstantsAre
<1>7. /\ applied' = applied \/ applied' = lib.commit
      /\ applied' \in Nat /\ applied <= applied' /\ applied' <= lib.commit
      /\ rd.hi <= applied'
  <2>1. CASE rd.hi > applied /\ rd.hi >= rd.lo
    BY <1>2, <1>4, <1>6, <2>1
  <2>2. CASE ~(rd.hi > applied /\ rd.hi >= rd.lo)
    <3>1. rd.lo <= applied + 1 /\ rd.lo \in Nat
      BY <1>4, <1>5, <1>6 DEF NextToApply
    <3>2. rd.hi <= applied
      BY <1>4, <1>6, <2>2, <3>1
    <3> QED
      BY <1>2, <1>5, <1>6, <2>2, <3>2
  <2> QED
    BY <2>1, <2>2
<1>8. confState' = IF applied' < Peers THEN applied' ELSE Peers
  <2>1. confState = IF applied < Peers THEN applied ELSE Peers
    BY <1>1 DEF SnapInv
  <2>2. CASE rd.hi > applied /\ rd.hi >= rd.lo
    <3>1. applied' = rd.hi
          /\ confState' = IF applied < Peers THEN (IF rd.hi < Peers THEN rd.hi ELSE Peers)
                                             ELSE confState
      BY <1>2, <2>2
    <3> QED
      BY <1>4, <1>6, <2>1, <2>2, <3>1
  <2>3. CASE ~(rd.hi > applied /\ rd.hi >= rd.lo)
    BY <1>2, <2>1, <2>3
  <2> QED
    BY <2>2, <2>3
<1>9. PeerTypeOK'
  <2>1. "trigger" \in Step
    BY DEF Step
  <2>2. applied' \in 0 .. MaxIndex
    BY <1>1, <1>7 DEF PeerTypeOK
  <2>3. confState' \in 0 .. Peers
    BY <1>6, <1>7, <1>8
  <2> QED
    BY <1>1, <1>2, <2>1, <2>2, <2>3 DEF PeerTypeOK
<1>10. LogInv'
  <2>1. lib.applied <= applied' /\ lib.log.base <= applied'
    BY <1>5, <1>6, <1>7
  <2> QED
    BY <1>1, <1>2, <1>4, <1>7, <2>1 DEF LogInv
<1>11. AckInv'
  BY <1>1, <1>2, <1>3 DEF AckInv, Remembered
<1>12. ReadyInv'
  BY <1>1, <1>2, <1>3, <1>4, <1>7 DEF ReadyInv, NextToApply
<1>13. SnapInv'
  <2>1. mem.snap.index = snapshotIndex /\ snapshotIndex <= applied
    BY <1>1, <1>2 DEF SnapInv
  <2>2. snapshotIndex <= applied'
    BY <1>6, <1>7, <2>1
  <2> QED
    BY <1>1, <1>2, <1>8, <2>1, <2>2 DEF SnapInv
<1>14. WalInv'
  BY <1>1, <1>2, <1>3 DEF WalInv, WalFormat
<1>15. DiskInv'
  BY <1>1, <1>2, <1>3 DEF DiskInv
<1>16. (\A w \in Leavings : Survives(w))'
  <2>1. Leavings' = Leavings
    BY <1>2 DEF Leavings
  <2> SUFFICES ASSUME NEW w \in Leavings
               PROVE  Survives(w)'
    BY <2>1
  <2>2. Survives(w)
    BY <1>1
  <2>3. HasApplied(w, Base(w, files), lib.log, applied')
    <3>1. lib.log.base <= Base(w, files)
      BY <1>4, <2>2 DEF Survives
    <3>2. w \in Seq(WalRecord) /\ Same(w, wal, "entry") /\ Base(w, files) \in Nat
      BY <1>1, <2>2, LeavingIs, ReplayIs, ConstantsAre
    <3>3. wal \in Seq(WalRecord) /\ lib.log \in Log
      BY <1>1, WalIs, LibLogIs
    <3>4. Mirrors(wal, lib.log, LastIndex(lib.log))
      BY <1>1, <1>3, WholeLogIsThere
    <3>5. applied' \in 0 .. LastIndex(lib.log)
      BY <1>5, <1>6, <1>7
    <3> QED
      BY <1>6, <3>1, <3>2, <3>3, <3>4, <3>5, MirrorGives
  <2> QED
    BY <1>2, <2>2, <2>3 DEF Survives
<1> QED
  BY <1>9, <1>10, <1>11, <1>12, <1>13, <1>14, <1>15, <1>16 DEF IInv

LEMMA TriggerKeeps ==
    ASSUME IInv, Trigger
    PROVE  IInv'
<1>1. /\ PeerTypeOK /\ LogInv /\ AckInv /\ ReadyInv /\ SnapInv /\ WalInv /\ DiskInv
      /\ \A w \in Leavings : Survives(w)
  BY DEF IInv
<1>2. /\ step = "trigger"
      /\ IF ~MustSnapshot
         THEN step' = "advance" /\ UNCHANGED <<mem, files>>
         ELSE /\ step' = "markOwn"
              /\ mem' = [mem EXCEPT !.snap = [index |-> applied, conf |-> confState]]
              /\ files' = files \cup {[index |-> applied, conf |-> confState]}
      /\ UNCHANGED <<lib, rd, applied, snapshotIndex, confState, wal, flushed,
                     promise, crashes, parent>>
  BY DEF Trigger, After
<1>3. Busy /\ Saved /\ Saved'
  BY <1>2 DEF Busy, Saved
<1>4. rd.snap = 0 /\ rd.hi <= applied /\ rd.from = lib.stable
  BY <1>1, <1>2, <1>3 DEF ReadyInv
<1>5. /\ applied \in Nat /\ snapshotIndex \in Nat /\ SnapCount \in Nat /\ Peers \in Nat
      /\ mem.offset \in Nat /\ mem.snap.index \in Nat /\ lib.stable \in Nat
      /\ Peers <= SnapCount + 1 /\ Peers >= 1
  BY <1>1, LibIs, LoopIs, ConstantsAre
<1>6. mem.snap.index = snapshotIndex /\ mem.offset <= mem.snap.index /\ snapshotIndex <= applied
  BY <1>1, <1>2 DEF SnapInv
<1>7. LogInv' /\ AckInv'
  <2>1. Busy' => Busy
    BY <1>3
  <2> QED
    BY <1>1, <1>2, <2>1 DEF LogInv, AckInv, Remembered
<1>8. ReadyInv'
  <2>1. step' \in {"markOwn", "advance"}
    BY <1>2
  <2> QED
    BY <1>1, <1>2, <1>3, <1>4, <2>1 DEF ReadyInv, NextToApply
<1>9. DiskInv'
  <2>1. ~(lib.stable < rd.from)
    BY <1>4, <1>5
  <2> QED
    BY <1>1, <1>2, <1>3, <2>1 DEF DiskInv
<1>10. CASE ~MustSnapshot
  <2>1. step' = "advance" /\ UNCHANGED <<mem, files>>
    BY <1>2, <1>10
  <2>2. PeerTypeOK'
    <3>1. "advance" \in Step
      BY DEF Step
    <3> QED
      BY <1>1, <1>2, <2>1, <3>1 DEF PeerTypeOK
  <2>3. SnapInv'
    BY <1>1, <1>2, <1>6, <2>1 DEF SnapInv
  <2>4. WalInv'
    <3>1. ~Busy'
      BY <2>1 DEF Busy
    <3> QED
      BY <1>1, <1>2, <2>1, <3>1 DEF WalInv, WalFormat
  <2>5. (\A w \in Leavings : Survives(w))'
    BY <1>1, <1>2, <2>1, SurvivesHearing
  <2> QED
    BY <1>7, <1>8, <1>9, <2>2, <2>3, <2>4, <2>5 DEF IInv
<1>11. CASE MustSnapshot
  <2>1. applied > SnapCount /\ applied >= Peers /\ applied # 0
    BY <1>5, <1>11 DEF MustSnapshot
  <2>2. confState = Peers
    BY <1>1, <1>5, <2>1 DEF SnapInv
  <2> DEFINE f == [index |-> applied, conf |-> Peers]
  <2>3. /\ step' = "markOwn"
        /\ mem' = [mem EXCEPT !.snap = f]
        /\ files' = files \cup {f}
    BY <1>2, <1>11, <2>2
  <2>4. f \in Snapshot /\ f.index = applied /\ f.conf = Peers
    <3>1. applied \in 0 .. MaxIndex
      BY <1>1 DEF PeerTypeOK
    <3> QED
      BY <1>5, <3>1 DEF Snapshot
  <2> HIDE DEF f
  <2>5. mem'.offset = mem.offset /\ mem'.snap = f /\ mem' \in [offset : 0 .. MaxIndex, snap : Snapshot]
    BY <1>1, <2>3, <2>4 DEF PeerTypeOK
  <2>6. PeerTypeOK'
    <3>1. "markOwn" \in Step
      BY DEF Step
    <3> QED
      BY <1>1, <1>2, <2>3, <2>4, <2>5, <3>1 DEF PeerTypeOK
  <2>7. SnapInv'
    <3>1. mem'.offset <= applied
      BY <1>5, <1>6, <2>5
    <3>2. MustSnapshot'
      BY <1>2, <1>11 DEF MustSnapshot
    <3>3. \A s \in files' : s.conf = Peers /\ s.index >= Peers
      BY <1>1, <2>1, <2>3, <2>4 DEF SnapInv
    <3>4. mem'.snap.index = applied
      BY <2>4, <2>5
    <3>5. confState' = IF applied' < Peers THEN applied' ELSE Peers
      BY <1>1, <1>2 DEF SnapInv
    <3> QED
      BY <1>2, <1>6, <2>3, <3>1, <3>2, <3>3, <3>4, <3>5 DEF SnapInv
  <2>8. WalInv'
    BY <1>1, <1>2, <1>3, <2>3 DEF WalInv, WalFormat, f
  <2>9. (\A w \in Leavings : Survives(w))'
    BY <1>1, <1>2, <1>5, <2>1, <2>3, SurvivesFile DEF f
  <2> QED
    BY <1>7, <1>8, <1>9, <2>6, <2>7, <2>8, <2>9 DEF IInv
<1> QED
  BY <1>10, <1>11

-----------------------------------------------------------------------------
(* The steps that put the record of a snapshot in the WAL.                 *)

(* The record of a snapshot goes to the disk, after its file.              *)
LEMMA MarkWritten ==
    ASSUME PeerTypeOK, WalInv, \A w \in Leavings : Survives(w), NEW i \in 0 .. MaxIndex,
           [index |-> i, conf |-> Peers] \in files,
           Write(<<SnapRec(i)>>, TRUE),
           UNCHANGED <<lib, applied, files, promise, parent>>
    PROVE  /\ wal' \in Seq(WalRecord) /\ flushed' = Len(wal')
           /\ Same(wal', wal, "entry") /\ LastState(wal') = LastState(wal)
           /\ \E n \in DOMAIN wal' : wal'[n] = SnapRec(i)
           /\ WalFormat'
           /\ (\A w \in Leavings : Survives(w))'
<1> DEFINE r == SnapRec(i)
           v == wal \o <<r>>
<1>1. wal' = v /\ flushed' = Len(wal')
  BY DEF Write
<1>2. wal \in Seq(WalRecord) /\ flushed \in Nat /\ Len(wal) \in Nat
  BY WalIs
<1>3. /\ v \in Seq(WalRecord) /\ Same(v, wal, "entry") /\ Same(v, wal, "state")
      /\ LastState(v) = LastState(wal)
  BY <1>2, AppendSnap
<1>4. /\ r \in WalRecord /\ r = SnapRec(i)
  BY ConstantsAre DEF SnapRec, WalRecord
<1>5. r.kind = "snap" /\ r.index = i
  BY DEF SnapRec
<1> HIDE DEF r
<1>6. <<r>> \in Seq(WalRecord) /\ Len(<<r>>) = 1 /\ <<r>>[1] = r
  BY <1>4
<1>7. /\ Len(v) = Len(wal) + 1 /\ DOMAIN v = 1 .. Len(wal) + 1
      /\ DOMAIN wal = 1 .. Len(wal)
      /\ DOMAIN wal \subseteq DOMAIN v /\ \A n \in DOMAIN wal : v[n] = wal[n]
      /\ \A n \in DOMAIN v : n \notin DOMAIN wal => v[n] = r
      /\ Len(wal) + 1 \in DOMAIN v /\ v[Len(wal) + 1] = r
  <2>1. /\ Len(v) = Len(wal) + 1 /\ DOMAIN v = 1 .. Len(wal) + 1 /\ DOMAIN wal = 1 .. Len(wal)
        /\ DOMAIN wal \subseteq DOMAIN v /\ \A n \in DOMAIN wal : v[n] = wal[n]
        /\ \A n \in DOMAIN v : n \notin DOMAIN wal => n - Len(wal) \in 1 .. 1 /\ v[n] = <<r>>[n - Len(wal)]
        /\ \A j \in 1 .. 1 : Len(wal) + j \in DOMAIN v /\ v[Len(wal) + j] = <<r>>[j]
    BY <1>2, <1>6, AppendedIs
  <2> HIDE DEF v
  <2>2. \A n \in DOMAIN v : n \notin DOMAIN wal => v[n] = r
    BY <1>6, <2>1
  <2>3. 1 \in 1 .. 1
    OBVIOUS
  <2>4. Len(wal) + 1 \in DOMAIN v /\ v[Len(wal) + 1] = r
    BY <1>6, <2>1, <2>3
  <2> QED
    BY <2>1, <2>2, <2>4
<1> HIDE DEF v
<1>8. \E n \in DOMAIN wal' : wal'[n] = SnapRec(i)
  BY <1>1, <1>4, <1>7
<1>9. WalFormat'
  <2>0. WalFormat
    BY DEF WalInv
  <2>1. flushed' >= 1 /\ v[1] = SnapRec(0)
    <3>1. flushed >= 1 /\ wal[1] = SnapRec(0) /\ flushed <= Len(wal)
      BY <1>2, <2>0 DEF WalFormat, PeerTypeOK
    <3>2. 1 \in DOMAIN wal
      BY <1>2, <1>7, <3>1
    <3> QED
      BY <1>1, <1>2, <1>7, <3>1, <3>2
  <2>2. \A n \in DOMAIN v : ~(n > flushed')
    BY <1>1, <1>2, <1>7
  <2>3. \A n \in Records(v, "entry") :
          /\ v[n].index >= 1
          /\ IF v[n].index <= Peers THEN v[n].term = 1 ELSE v[n].term \in 2 .. MaxTerm
    BY <1>3, <2>0 DEF WalFormat, Same
  <2>4. \A n \in Records(v, "snap") :
          v[n] = SnapRec(0) \/ /\ v[n] = SnapRec(v[n].index)
                               /\ [index |-> v[n].index, conf |-> Peers] \in files
    <3> SUFFICES ASSUME NEW n \in Records(v, "snap")
                 PROVE  v[n] = SnapRec(0) \/ /\ v[n] = SnapRec(v[n].index)
                                             /\ [index |-> v[n].index, conf |-> Peers] \in files
      OBVIOUS
    <3>1. CASE n \in DOMAIN wal
      <4>1. n \in Records(wal, "snap") /\ v[n] = wal[n]
        BY <1>7, <3>1 DEF Records
      <4> QED
        BY <2>0, <4>1 DEF WalFormat
    <3>2. CASE n \notin DOMAIN wal
      BY <1>4, <1>5, <1>7, <3>2 DEF Records
    <3> QED
      BY <3>1, <3>2
  <2>5. \A n \in Records(v, "state") : v[n] = StateRec(v[n].term, v[n].index)
    BY <1>3, <2>0 DEF WalFormat, Same
  <2> QED
    BY <1>1, <2>1, <2>2, <2>3, <2>4, <2>5 DEF WalFormat
<1>10. (\A w \in Leavings : Survives(w))'
  <2> SUFFICES ASSUME NEW w \in Leavings' PROVE Survives(w)'
    OBVIOUS
  <2>1. w = v
    BY <1>1, <1>3, LeavingsSynced
  <2>2. Survives(wal)
    BY WalIsLeft
  <2>3. Base(wal, files) <= Base(v, files) /\ Base(wal, files) \in Nat /\ Base(v, files) \in Nat
    <3>1. SnapRec(0) \in {wal[n] : n \in DOMAIN wal}
      BY WalIsLeft, LeavingIs
    <3>2. \A n \in Records(wal, "snap") : n \in DOMAIN v /\ v[n] = wal[n]
      BY <1>7 DEF Records
    <3>3. LastState(wal).index <= LastState(v).index
      BY <1>3, WalIs
    <3>4. files \in SUBSET Snapshot
      BY DEF PeerTypeOK
    <3> QED
      BY <1>2, <1>3, <3>1, <3>2, <3>3, <3>4, BaseGrows
  <2>4. Recovers(v, Base(v, files), LastState(wal), parent)
    BY <1>2, <1>3, <2>2, <2>3, RecoversLater DEF Survives
  <2>5. HasAck(v, Base(v, files), promise)
    BY <1>2, <1>3, <2>2, <2>3, HasAckLater, AcksAre DEF Survives
  <2>6. HasApplied(v, Base(v, files), lib.log, applied)
    BY <1>2, <1>3, <2>2, <2>3, HasAppliedLater, LoopIs DEF Survives
  <2>7. lib.snap = 0 => lib.log.base <= Base(v, files)
    BY <2>2, <2>3, LibLogIs DEF Survives
  <2> QED
    BY <1>1, <1>3, <2>1, <2>4, <2>5, <2>6, <2>7 DEF Survives
<1> QED
  BY <1>1, <1>3, <1>8, <1>9, <1>10

(* A WAL with the same entries has what the other has.                     *)
LEMMA DiskSame ==
    ASSUME DiskInv, Same(wal', wal, "entry"), UNCHANGED <<lib, rd>>,
           ~Saved' \/ Saved, step' = "advance" => ~(lib.stable < rd.from)
    PROVE  DiskInv'
<1>1. /\ \A s, i : Reaches(wal', s, i) <=> Reaches(wal, s, i)
      /\ \A i, t : OnDisk(wal', i, t) <=> OnDisk(wal, i, t)
  <2> SUFFICES ASSUME NEW s
               PROVE  /\ \A i : Reaches(wal', s, i) <=> Reaches(wal, s, i)
                      /\ \A i, t : OnDisk(wal', i, t) <=> OnDisk(wal, i, t)
    OBVIOUS
  <2> QED
    BY SameLog
<1>2. Mirrors(wal', lib.log, lib.stable)
  BY <1>1 DEF DiskInv, Mirrors
<1> QED
  BY <1>1, <1>2 DEF DiskInv

LEMMA SaveMarkKeeps ==
    ASSUME IInv, SaveMark
    PROVE  IInv'
<1>1. /\ PeerTypeOK /\ LogInv /\ AckInv /\ ReadyInv /\ SnapInv /\ WalInv /\ DiskInv
      /\ \A w \in Leavings : Survives(w)
  BY DEF IInv
<1>2. /\ step = "saveMark" /\ step' = "saveWal"
      /\ Write(<<SnapRec(rd.snap)>>, TRUE)
      /\ UNCHANGED <<lib, rd, applied, snapshotIndex, confState, mem, files,
                     promise, crashes, parent>>
  BY DEF SaveMark, Goes, After
<1>3. Busy /\ Busy' /\ ~Saved /\ ~Saved'
  BY <1>2 DEF Busy, Saved
<1>4. rd.snap # 0 /\ rd.snap \in 0 .. MaxIndex
  BY <1>1, <1>2 DEF ReadyInv, PeerTypeOK
<1>5. [index |-> rd.snap, conf |-> Peers] \in files
  BY <1>1, <1>2, <1>4 DEF WalInv
<1>6. /\ wal' \in Seq(WalRecord) /\ flushed' = Len(wal')
      /\ Same(wal', wal, "entry") /\ LastState(wal') = LastState(wal)
      /\ \E n \in DOMAIN wal' : wal'[n] = SnapRec(rd.snap)
      /\ WalFormat'
      /\ (\A w \in Leavings : Survives(w))'
  BY <1>1, <1>2, <1>4, <1>5, MarkWritten
<1>7. PeerTypeOK'
  <2>1. "saveWal" \in Step
    BY DEF Step
  <2>2. flushed' \in 0 .. Len(wal')
    BY <1>6, LenProperties
  <2> QED
    BY <1>1, <1>2, <1>6, <2>1, <2>2 DEF PeerTypeOK
<1>8. LogInv' /\ AckInv'
  BY <1>1, <1>2, <1>3 DEF LogInv, AckInv, Remembered
<1>9. ReadyInv'
  BY <1>1, <1>2, <1>3 DEF ReadyInv, NextToApply
<1>10. SnapInv'
  <2>1. mem.snap.index = snapshotIndex
    BY <1>1, <1>2 DEF SnapInv
  <2> QED
    BY <1>1, <1>2, <2>1 DEF SnapInv
<1>11. WalInv'
  BY <1>1, <1>2, <1>3, <1>5, <1>6 DEF WalInv
<1>12. DiskInv'
  BY <1>1, <1>2, <1>3, <1>6, DiskSame
<1> QED
  BY <1>6, <1>7, <1>8, <1>9, <1>10, <1>11, <1>12 DEF IInv

LEMMA MarkOwnKeeps ==
    ASSUME IInv, MarkOwn
    PROVE  IInv'
<1>1. /\ PeerTypeOK /\ LogInv /\ AckInv /\ ReadyInv /\ SnapInv /\ WalInv /\ DiskInv
      /\ \A w \in Leavings : Survives(w)
  BY DEF IInv
<1>2. /\ step = "markOwn" /\ step' = "advance"
      /\ Write(<<SnapRec(applied)>>, TRUE)
      /\ mem' = [mem EXCEPT !.offset = CompactTo]
      /\ snapshotIndex' = applied
      /\ UNCHANGED <<lib, rd, applied, confState, files, promise, crashes, parent>>
  BY DEF MarkOwn, Goes, After
<1>3. Busy /\ ~Busy' /\ Saved /\ Saved'
  BY <1>2 DEF Busy, Saved
<1>4. rd.snap = 0 /\ rd.hi <= applied /\ rd.from = lib.stable
  BY <1>1, <1>2, <1>3 DEF ReadyInv
<1>5. applied \in 0 .. MaxIndex /\ [index |-> applied, conf |-> Peers] \in files
  BY <1>1, <1>2 DEF WalInv, PeerTypeOK
<1>6. /\ wal' \in Seq(WalRecord) /\ flushed' = Len(wal')
      /\ Same(wal', wal, "entry") /\ LastState(wal') = LastState(wal)
      /\ WalFormat'
      /\ (\A w \in Leavings : Survives(w))'
  BY <1>1, <1>2, <1>5, MarkWritten
<1>7. /\ CompactTo \in 0 .. MaxIndex /\ CompactTo <= applied /\ mem.snap.index = applied
      /\ applied \in Nat
  <2>1. applied \in Nat /\ snapshotIndex \in Nat /\ SnapCount \in Nat
    BY <1>1, LoopIs, ConstantsAre
  <2>2. applied > SnapCount
    BY <1>1, <1>2, <2>1 DEF SnapInv, MustSnapshot
  <2>3. CompactTo = applied - SnapCount
    BY <2>2 DEF CompactTo
  <2>4. mem.snap.index = applied
    BY <1>1, <1>2 DEF SnapInv
  <2>5. CompactTo \in Nat /\ CompactTo <= applied
    BY <2>1, <2>2, <2>3
  <2>6. applied <= MaxIndex /\ MaxIndex \in Nat
    BY <1>5, ConstantsAre
  <2>7. CompactTo \in 0 .. MaxIndex
    BY <2>1, <2>5, <2>6
  <2> QED
    BY <2>1, <2>4, <2>5, <2>7
<1>8. /\ mem'.offset = CompactTo /\ mem'.snap = mem.snap
      /\ mem' \in [offset : 0 .. MaxIndex, snap : Snapshot]
  BY <1>1, <1>2, <1>7 DEF PeerTypeOK
<1>9. PeerTypeOK'
  <2>1. "advance" \in Step
    BY DEF Step
  <2>2. flushed' \in 0 .. Len(wal')
    BY <1>6, LenProperties
  <2> QED
    BY <1>1, <1>2, <1>6, <1>8, <2>1, <2>2 DEF PeerTypeOK
<1>10. LogInv' /\ AckInv'
  BY <1>1, <1>2, <1>3 DEF LogInv, AckInv, Remembered
<1>11. ReadyInv'
  BY <1>1, <1>2, <1>3, <1>4 DEF ReadyInv
<1>12. SnapInv'
  <2>1. applied <= applied
    BY <1>7
  <2> QED
    BY <1>1, <1>2, <1>7, <1>8, <2>1 DEF SnapInv
<1>13. WalInv'
  BY <1>1, <1>2, <1>3, <1>6 DEF WalInv
<1>14. DiskInv'
  <2>1. ~(lib.stable < rd.from)
    BY <1>1, <1>4, LibIs
  <2> QED
    BY <1>1, <1>2, <1>3, <1>6, <2>1, DiskSame
<1> QED
  BY <1>6, <1>9, <1>10, <1>11, <1>12, <1>13, <1>14 DEF IInv

-----------------------------------------------------------------------------
(* SaveWal: wal.Save.                                                      *)

(* What SaveWal writes: the entries of the Ready, then the hard state.     *)
LEMMA SavedWalIs ==
    ASSUME PeerTypeOK, SaveWal, rd.from + Len(rd.ents) <= MaxIndex
    PROVE  LET v == Adds(wal, rd.from, rd.ents)
               r == StateRec(rd.term, rd.commit)
           IN  /\ wal' \in Seq(WalRecord)
               /\ Same(wal', v, "entry") /\ Same(wal', v, "snap") /\ LastState(wal') = r
               /\ Len(v) <= Len(wal') /\ Len(wal') <= Len(v) + 1
               /\ \A n \in 1 .. Len(v) : wal'[n] = v[n]
               /\ \A n \in 1 .. Len(wal') : ~(n <= Len(v)) => wal'[n] = r
               /\ \/ flushed' = Len(wal')
                  \/ v = wal /\ flushed' = flushed /\ rd.term = LastState(wal).term
<1> DEFINE E == EntryRecs(rd.from, rd.ents)
           v == Adds(wal, rd.from, rd.ents)
           r == StateRec(rd.term, rd.commit)
           last == LastState(wal)
<1>1. /\ wal \in Seq(WalRecord) /\ rd.from \in Nat /\ rd.ents \in Seq(1 .. MaxTerm)
      /\ Len(wal) \in Nat /\ Len(rd.ents) \in Nat
  BY WalIs, ReadyIs
<1>2. /\ wal' = wal \o (E \o (IF r = last THEN <<>> ELSE <<r>>))
      /\ flushed' = IF E # <<>> \/ rd.term # last.term THEN Len(wal') ELSE flushed
  BY DEF SaveWal, Write, EntryRecs
<1>3. E \in Seq(WalRecord) /\ Len(E) = Len(rd.ents)
  BY <1>1, EntryRecsIs
<1>4. rd.term \in 0 .. MaxTerm /\ rd.commit \in 0 .. MaxIndex
  BY DEF PeerTypeOK
<1>5. r \in WalRecord /\ r.term = rd.term
  BY <1>4 DEF StateRec, WalRecord
<1>6. v = wal \o E
  BY DEF Adds
<1>7. v \in Seq(WalRecord) /\ Len(v) \in Nat /\ LastState(v) = last
  <2>1. v \in Seq(WalRecord) /\ LastState(v) = LastState(wal)
    BY <1>1, AddsIs
  <2> QED
    BY <2>1, LenProperties
<1>8. E = <<>> => v = wal
  BY <1>1, <1>6, ConcatEmptySeq
<1> HIDE DEF E, v
<1>9. wal' = IF r = last THEN v ELSE v \o <<r>>
  <2>1. CASE r = last
    <3>1. E \o <<>> = E
      BY <1>3, ConcatEmptySeq
    <3> QED
      BY <1>2, <1>6, <2>1, <3>1
  <2>2. CASE r # last
    <3>1. <<r>> \in Seq(WalRecord)
      BY <1>5
    <3>2. (wal \o E) \o <<r>> = wal \o (E \o <<r>>)
      BY <1>1, <1>3, <3>1, ConcatAssociative
    <3> QED
      BY <1>2, <1>6, <2>2, <3>2
  <2> QED
    BY <2>1, <2>2
<1>10. /\ wal' \in Seq(WalRecord)
       /\ Same(wal', v, "entry") /\ Same(wal', v, "snap") /\ LastState(wal') = r
  <2>1. CASE r = last
    BY <1>7, <1>9, <2>1 DEF Same
  <2>2. CASE r # last
    <3>1. /\ v \o <<r>> \in Seq(WalRecord)
          /\ Same(v \o <<r>>, v, "entry") /\ Same(v \o <<r>>, v, "snap")
          /\ LastState(v \o <<r>>) = r
      BY <1>4, <1>7, AppendState
    <3> QED
      BY <1>9, <2>2, <3>1
  <2> QED
    BY <2>1, <2>2
<1>11. /\ Len(v) <= Len(wal') /\ Len(wal') <= Len(v) + 1
       /\ \A n \in 1 .. Len(v) : wal'[n] = v[n]
       /\ \A n \in 1 .. Len(wal') : ~(n <= Len(v)) => wal'[n] = r
  <2> HIDE DEF r, last
  <2>1. CASE r = last
    <3>1. wal' = v
      BY <1>9, <2>1
    <3> QED
      BY <1>7, <3>1
  <2>2. CASE r # last
    <3>1. wal' = Append(v, r)
      BY <1>5, <1>7, <1>9, <2>2, AppendIsConcat
    <3>2. /\ Len(wal') = Len(v) + 1
          /\ \A n \in 1 .. Len(v) : wal'[n] = v[n]
          /\ wal'[Len(v) + 1] = r
      BY <1>5, <1>7, <3>1, AppendProperties
    <3>3. \A n \in 1 .. Len(v) + 1 : ~(n <= Len(v)) => n = Len(v) + 1
      BY <1>7
    <3> QED
      BY <1>7, <3>2, <3>3
  <2> QED
    BY <2>1, <2>2
<1>12. \/ flushed' = Len(wal')
       \/ v = wal /\ flushed' = flushed /\ rd.term = last.term
  BY <1>2, <1>8
<1> QED
  BY <1>10, <1>11, <1>12 DEF v

LEMMA LeavingsGrow ==
    ASSUME PeerTypeOK, wal' \in Seq(WalRecord), flushed' = flushed,
           Len(wal) <= Len(wal'), Len(wal') <= Len(wal) + 1,
           \A n \in 1 .. Len(wal) : wal'[n] = wal[n],
           NEW w \in Leavings', w # wal'
    PROVE  w \in Leavings
<1>1. wal \in Seq(WalRecord) /\ Len(wal) \in Nat /\ flushed \in Nat
  BY WalIs
<1> DEFINE u == wal'
<1>2. u \in Seq(WalRecord) /\ Len(u) \in Nat /\ Len(wal) <= Len(u) /\ Len(u) <= Len(wal) + 1
      /\ \A n \in 1 .. Len(wal) : u[n] = wal[n]
  BY LenProperties
<1>3. PICK n \in flushed .. Len(u) : w = SubSeq(u, 1, n)
  BY DEF Leavings
<1>4. w # u
  OBVIOUS
<1> HIDE DEF u
<1>5. n \in Nat /\ n \in 0 .. Len(u) /\ flushed <= n
  BY <1>1, <1>2, <1>3
<1>6. n # Len(u)
  <2>1. SubSeq(u, 1, Len(u)) = u
    BY <1>2, PrefixIs, SeqEqual
  <2> QED
    BY <1>3, <1>4, <2>1
<1>7. n \in flushed .. Len(wal) /\ n \in 0 .. Len(wal)
  BY <1>1, <1>2, <1>5, <1>6
<1> DEFINE p == SubSeq(u, 1, n)
           q == SubSeq(wal, 1, n)
<1>8. /\ p \in Seq(WalRecord) /\ Len(p) = n /\ \A m \in 1 .. n : p[m] = u[m]
  BY <1>2, <1>5, PrefixIs
<1>9. /\ q \in Seq(WalRecord) /\ Len(q) = n /\ \A m \in 1 .. n : q[m] = wal[m]
  BY <1>1, <1>7, PrefixIs
<1> HIDE DEF p, q
<1>10. \A m \in 1 .. n : p[m] = q[m]
  <2>1. \A m \in 1 .. n : m \in 1 .. Len(wal)
    BY <1>1, <1>7
  <2> QED
    BY <1>2, <1>8, <1>9, <2>1
<1>11. p = q
  BY <1>8, <1>9, <1>10, SeqEqual
<1> QED
  BY <1>3, <1>7, <1>11 DEF Leavings, p, q

LEMMA ReadyChainIs ==
    ASSUME PeerTypeOK, ReadyInv, NEW i \in 1 .. Len(rd.ents)
    PROVE  /\ IF rd.from + i <= Peers THEN rd.ents[i] = 1 ELSE rd.ents[i] \in 2 .. MaxTerm
           /\ rd.from + i > Peers /\ i > 1 => rd.ents[i - 1] = parent[rd.ents[i]]
<1> DEFINE l == [base |-> rd.from, ents |-> rd.ents]
<1>1. l.base = rd.from /\ l.ents = rd.ents /\ Chain(l, parent)
  BY DEF ReadyInv
<1> HIDE DEF l
<1>2. rd.from \in Nat /\ Len(rd.ents) \in Nat
  BY ReadyIs
<1>3. /\ rd.from + i \in l.base + 1 .. LastIndex(l) /\ (rd.from + i) - l.base = i
      /\ (rd.from + i) - 1 - l.base = i - 1
      /\ i > 1 => (rd.from + i) - 1 > l.base
  BY <1>1, <1>2 DEF LastIndex
<1>4. At(l, rd.from + i) = rd.ents[i] /\ At(l, (rd.from + i) - 1) = rd.ents[i - 1]
  BY <1>1, <1>3 DEF At
<1> QED
  BY <1>1, <1>3, <1>4 DEF Chain

LEMMA SavedFormat ==
    ASSUME PeerTypeOK, ReadyInv, WalFormat, SaveWal
    PROVE  WalFormat'
<1> DEFINE v == Adds(wal, rd.from, rd.ents)
           r == StateRec(rd.term, rd.commit)
<1>1. /\ wal \in Seq(WalRecord) /\ rd.from \in Nat /\ rd.ents \in Seq(1 .. MaxTerm)
      /\ Len(wal) \in Nat /\ Len(rd.ents) \in Nat /\ flushed \in Nat
      /\ rd.from + Len(rd.ents) <= MaxIndex
  BY WalIs, ReadyIs DEF ReadyInv
<1>2. /\ wal' \in Seq(WalRecord)
      /\ Same(wal', v, "entry") /\ Same(wal', v, "snap")
      /\ Len(v) <= Len(wal') /\ Len(wal') <= Len(v) + 1
      /\ \A n \in 1 .. Len(v) : wal'[n] = v[n]
      /\ \A n \in 1 .. Len(wal') : ~(n <= Len(v)) => wal'[n] = r
      /\ \/ flushed' = Len(wal')
         \/ v = wal /\ flushed' = flushed
  BY <1>1, SavedWalIs
<1>3. /\ v \in Seq(WalRecord) /\ Same(v, wal, "state") /\ Same(v, wal, "snap")
      /\ \A n \in Records(wal, "entry") : v[n] = wal[n]
      /\ \A n \in Records(v, "entry") : n \notin Records(wal, "entry") =>
            \E i \in 1 .. Len(rd.ents) : v[n].index = rd.from + i /\ v[n].term = rd.ents[i]
  <2>1. /\ v \in Seq(WalRecord) /\ Same(v, wal, "state") /\ Same(v, wal, "snap")
        /\ \A n \in Records(wal, "entry") : v[n] = wal[n]
    BY <1>1, AddsIs
  <2>2. ASSUME NEW n \in Records(v, "entry"), n \notin Records(wal, "entry")
        PROVE  \E i \in 1 .. Len(rd.ents) : v[n].index = rd.from + i /\ v[n].term = rd.ents[i]
    BY <1>1, <2>2, AddedIs
  <2> HIDE DEF v
  <2> QED
    BY <2>1, <2>2
<1>4. r.kind = "state" /\ r = StateRec(r.term, r.index)
  BY DEF StateRec
<1>5. UNCHANGED <<files, parent>>
  BY DEF SaveWal
<1> DEFINE u == wal'
<1>6. /\ u \in Seq(WalRecord) /\ Len(u) \in Nat /\ DOMAIN u = 1 .. Len(u)
      /\ DOMAIN wal = 1 .. Len(wal) /\ DOMAIN v = 1 .. Len(v) /\ Len(v) \in Nat
  BY <1>1, <1>2, <1>3, LenProperties
<1>7. /\ Same(u, v, "entry") /\ Same(u, v, "snap")
      /\ \A n \in 1 .. Len(v) : u[n] = v[n]
      /\ \A n \in 1 .. Len(u) : ~(n <= Len(v)) => u[n] = r
      /\ \/ flushed' = Len(u)
         \/ v = wal /\ flushed' = flushed
  BY <1>2
<1> HIDE DEF u, v, r
<1>8. flushed' >= 1 /\ u[1] = SnapRec(0)
  <2>1. flushed >= 1 /\ wal[1] = SnapRec(0) /\ flushed <= Len(wal)
    BY <1>1 DEF WalFormat, PeerTypeOK
  <2>2. 1 \in Records(wal, "snap")
    BY <1>1, <1>6, <2>1 DEF Records, SnapRec
  <2>3. 1 \in Records(u, "snap") /\ u[1] = wal[1]
    BY <1>3, <1>7, <2>2 DEF Same
  <2>4. 1 <= Len(u)
    BY <1>6, <2>3 DEF Records
  <2> QED
    BY <1>7, <2>1, <2>3, <2>4
<1>9. \A n \in DOMAIN u : n > flushed' => u[n].kind = "state"
  <2> SUFFICES ASSUME NEW n \in DOMAIN u, n > flushed' PROVE u[n].kind = "state"
    OBVIOUS
  <2>1. n \in Nat /\ n <= Len(u) /\ n \in 1 .. Len(u)
    BY <1>6
  <2>2. flushed' # Len(u)
    BY <1>6, <2>1
  <2>3. v = wal /\ n > flushed
    BY <1>7, <2>2
  <2>4. CASE n <= Len(v)
    <3>1. n \in 1 .. Len(v) /\ n \in DOMAIN wal
      BY <1>6, <2>1, <2>3, <2>4
    <3> QED
      BY <1>7, <2>3, <3>1 DEF WalFormat
  <2>5. CASE ~(n <= Len(v))
    BY <1>4, <1>7, <2>1, <2>5
  <2> QED
    BY <2>4, <2>5
<1>10. \A n \in Records(u, "entry") :
          /\ u[n].index >= 1
          /\ IF u[n].index <= Peers THEN u[n].term = 1 ELSE u[n].term \in 2 .. MaxTerm
  <2> SUFFICES ASSUME NEW n \in Records(u, "entry")
               PROVE  /\ u[n].index >= 1
                      /\ IF u[n].index <= Peers THEN u[n].term = 1 ELSE u[n].term \in 2 .. MaxTerm
    OBVIOUS
  <2>1. n \in Records(v, "entry") /\ u[n] = v[n]
    BY <1>7 DEF Same
  <2>2. CASE n \in Records(wal, "entry")
    BY <1>3, <2>1, <2>2 DEF WalFormat
  <2>3. CASE n \notin Records(wal, "entry")
    <3>1. PICK i \in 1 .. Len(rd.ents) : u[n].index = rd.from + i /\ u[n].term = rd.ents[i]
      BY <1>3, <2>1, <2>3
    <3>2. IF rd.from + i <= Peers THEN rd.ents[i] = 1 ELSE rd.ents[i] \in 2 .. MaxTerm
      BY ReadyChainIs
    <3>3. rd.from + i >= 1
      BY <1>1
    <3> QED
      BY <3>1, <3>2, <3>3
  <2> QED
    BY <2>2, <2>3
<1>11. \A n \in Records(u, "snap") :
          u[n] = SnapRec(0) \/ /\ u[n] = SnapRec(u[n].index)
                               /\ [index |-> u[n].index, conf |-> Peers] \in files
  BY <1>3, <1>7 DEF WalFormat, Same
<1>12. \A n \in Records(u, "state") : u[n] = StateRec(u[n].term, u[n].index)
  <2> SUFFICES ASSUME NEW n \in Records(u, "state")
               PROVE  u[n] = StateRec(u[n].term, u[n].index)
    OBVIOUS
  <2>1. n \in 1 .. Len(u) /\ u[n].kind = "state"
    BY <1>6 DEF Records
  <2>2. CASE n <= Len(v)
    <3>1. n \in 1 .. Len(v)
      BY <1>6, <2>1, <2>2
    <3>2. u[n] = v[n] /\ n \in Records(v, "state")
      BY <1>6, <1>7, <2>1, <3>1 DEF Records
    <3> QED
      BY <1>3, <3>2 DEF Same, WalFormat
  <2>3. CASE ~(n <= Len(v))
    BY <1>4, <1>7, <2>1, <2>3
  <2> QED
    BY <2>2, <2>3
<1> QED
  BY <1>5, <1>8, <1>9, <1>10, <1>11, <1>12 DEF WalFormat, u

(* What the WAL has of the library's log when the Ready is saved.          *)
LEMMA SavedHasLog ==
    ASSUME PeerTypeOK, LogInv, ReadyInv, DiskInv, Busy, SaveWal
    PROVE  /\ Mirrors(wal', lib.log, lib.stable)
           /\ \A i \in 1 .. Len(rd.ents) : OnDisk(wal', rd.from + i, rd.ents[i])
           /\ rd.ents # <<>> => \A s \in Nat : Reaches(wal', s, rd.from + Len(rd.ents))
           /\ Mirrors(wal', lib.log, LastIndex(lib.log))
<1> DEFINE v == Adds(wal, rd.from, rd.ents)
           u == wal'
<1>1. /\ wal \in Seq(WalRecord) /\ rd.from \in Nat /\ rd.ents \in Seq(1 .. MaxTerm)
      /\ Len(rd.ents) \in Nat /\ rd.from + Len(rd.ents) <= MaxIndex
      /\ lib.log \in Log /\ lib.log.base \in Nat
  BY WalIs, ReadyIs, LibLogIs DEF ReadyInv
<1>2. /\ rd.from = lib.stable /\ lib.log.base <= rd.from
      /\ rd.from + Len(rd.ents) = LastIndex(lib.log)
      /\ \A i \in 1 .. Len(rd.ents) : rd.ents[i] = At(lib.log, rd.from + i)
      /\ Mirrors(wal, lib.log, rd.from)
  BY DEF ReadyInv, LogInv, DiskInv
<1>3. u \in Seq(WalRecord) /\ Same(u, v, "entry")
  BY <1>1, SavedWalIs
<1>4. /\ \A s, i : Reaches(u, s, i) <=> Reaches(v, s, i)
      /\ \A i, t : OnDisk(u, i, t) <=> OnDisk(v, i, t)
  <2> HIDE DEF u, v
  <2> SUFFICES ASSUME NEW s
               PROVE  /\ \A i : Reaches(u, s, i) <=> Reaches(v, s, i)
                      /\ \A i, t : OnDisk(u, i, t) <=> OnDisk(v, i, t)
    OBVIOUS
  <2> QED
    BY <1>3, SameLog
<1>5. /\ \A i \in 1 .. Len(rd.ents) : OnDisk(v, rd.from + i, rd.ents[i])
      /\ \A t : \A i \in 0 .. rd.from : OnDisk(wal, i, t) => OnDisk(v, i, t)
      /\ rd.ents # <<>> => \A s \in Nat : Reaches(v, s, rd.from + Len(rd.ents))
  BY <1>1, AddsOnDisk
<1>6. v \in Seq(WalRecord)
  BY <1>1, AddsIs
<1>7. rd.ents = <<>> => v = wal
  <2> SUFFICES ASSUME rd.ents = <<>> PROVE v = wal
    OBVIOUS
  <2>1. EntryRecs(rd.from, rd.ents) \in Seq(WalRecord) /\ Len(EntryRecs(rd.from, rd.ents)) = 0
    BY <1>1, EntryRecsIs
  <2>2. EntryRecs(rd.from, rd.ents) = <<>>
    BY <2>1, EmptySeq
  <2> QED
    BY <1>1, <2>2, ConcatEmptySeq DEF Adds
<1> HIDE DEF u, v
<1>8. Reaches(u, lib.log.base, rd.from)
  <2>1. CASE rd.ents = <<>>
    BY <1>2, <1>4, <1>7, <2>1 DEF Mirrors
  <2>2. CASE rd.ents # <<>>
    <3>1. Reaches(u, lib.log.base, rd.from + Len(rd.ents))
      BY <1>1, <1>4, <1>5, <2>2
    <3>2. rd.from + Len(rd.ents) \in Nat /\ rd.from <= rd.from + Len(rd.ents)
      BY <1>1
    <3> QED
      BY <1>1, <1>3, <3>1, <3>2, ReachesLess
  <2> QED
    BY <2>1, <2>2
<1>9. ASSUME NEW i \in lib.log.base + 1 .. rd.from PROVE OnDisk(u, i, At(lib.log, i))
  <2>1. i \in 0 .. rd.from
    BY <1>1
  <2>2. OnDisk(wal, i, At(lib.log, i))
    BY <1>2 DEF Mirrors
  <2> QED
    BY <1>4, <1>5, <2>1, <2>2
<1>10. Mirrors(u, lib.log, rd.from)
  BY <1>8, <1>9 DEF Mirrors
<1>11. /\ \A i \in 1 .. Len(rd.ents) : OnDisk(u, rd.from + i, rd.ents[i])
       /\ rd.ents # <<>> => \A s \in Nat : Reaches(u, s, rd.from + Len(rd.ents))
  BY <1>4, <1>5
<1>12. Mirrors(u, lib.log, LastIndex(lib.log))
  BY <1>1, <1>2, <1>3, <1>10, <1>11, MirrorsWhole
<1> QED
  BY <1>2, <1>10, <1>11, <1>12 DEF u

LEMMA SavedJoins ==
    ASSUME PeerTypeOK, LogInv, ReadyInv, DiskInv, Busy, NEW s \in Nat, lib.log.base <= s
    PROVE  Joins(wal, rd.from, rd.ents, s, parent)
<1>1. /\ wal \in Seq(WalRecord) /\ rd.from \in Nat /\ rd.ents \in Seq(1 .. MaxTerm)
      /\ Len(rd.ents) \in Nat /\ lib.log.base \in Nat
  BY WalIs, ReadyIs, LibLogIs
<1>2. /\ rd.from = lib.stable /\ lib.log.base <= rd.from
      /\ rd.from + Len(rd.ents) = LastIndex(lib.log)
      /\ \A i \in 1 .. Len(rd.ents) : rd.ents[i] = At(lib.log, rd.from + i)
      /\ Mirrors(wal, lib.log, rd.from)
      /\ Chain(lib.log, parent)
  BY DEF ReadyInv, LogInv, DiskInv
<1>3. \A i \in 1 .. Len(rd.ents) :
         i > 1 /\ rd.from + i > Peers => rd.ents[i - 1] = parent[rd.ents[i]]
  BY ReadyChainIs
<1>4. ASSUME rd.ents # <<>>, rd.from > s, rd.from + 1 > Peers, NEW t, OnDisk(wal, rd.from, t)
      PROVE  t = parent[rd.ents[1]]
  <2>1. Len(rd.ents) # 0
    BY <1>1, <1>4, EmptySeq
  <2>2. 1 \in 1 .. Len(rd.ents) /\ rd.ents[1] = At(lib.log, rd.from + 1)
    <3>1. 1 \in 1 .. Len(rd.ents)
      BY <1>1, <2>1
    <3> QED
      BY <1>2, <3>1
  <2>3. /\ rd.from > lib.log.base /\ rd.from \in lib.log.base + 1 .. rd.from
        /\ rd.from + 1 \in lib.log.base + 1 .. LastIndex(lib.log)
        /\ (rd.from + 1) - 1 = rd.from
    BY <1>1, <1>2, <1>4, <2>1
  <2>4. t = At(lib.log, rd.from)
    <3>1. OnDisk(wal, rd.from, At(lib.log, rd.from))
      BY <1>2, <2>3 DEF Mirrors
    <3> QED
      BY <1>1, <1>4, <3>1, OnDiskIsOne
  <2>5. At(lib.log, rd.from) = parent[At(lib.log, rd.from + 1)]
    BY <1>2, <1>4, <2>3 DEF Chain
  <2> QED
    BY <2>2, <2>4, <2>5
<1> QED
  BY <1>3, <1>4 DEF Joins

(* A restart after SaveWal begins from a snapshot that is no older than    *)
(* before, nor older than the one of the library's log.                    *)
LEMMA SavedBase ==
    ASSUME IInv, SaveWal
    PROVE  /\ Base(wal, files) <= Base(wal', files) /\ lib.log.base <= Base(wal', files)
           /\ Base(wal, files) \in Nat /\ Base(wal', files) \in Nat
           /\ Base(wal', files) <= LastState(wal').index
<1>1. /\ PeerTypeOK /\ LogInv /\ ReadyInv /\ WalInv /\ WalFormat
      /\ \A w \in Leavings : Survives(w)
  BY DEF IInv, WalInv
<1> DEFINE v == Adds(wal, rd.from, rd.ents)
           r == StateRec(rd.term, rd.commit)
           u == wal'
<1>2. step = "saveWal" /\ Busy
  BY DEF SaveWal, Goes, Busy
<1>3. /\ wal \in Seq(WalRecord) /\ rd.from \in Nat /\ rd.ents \in Seq(1 .. MaxTerm)
      /\ Len(rd.ents) \in Nat /\ rd.from + Len(rd.ents) <= MaxIndex
      /\ LastState(wal).index \in Nat /\ lib.commit \in Nat /\ files \in SUBSET Snapshot
      /\ lib.log.base \in Nat
  BY <1>1, WalIs, ReadyIs, LibIs, LibLogIs DEF ReadyInv, PeerTypeOK
<1>4. /\ u \in Seq(WalRecord) /\ Same(u, v, "snap") /\ LastState(u) = r
  BY <1>1, <1>3, SavedWalIs
<1>5. Same(v, wal, "snap")
  BY <1>3, AddsIs
<1>6. r.index = lib.commit /\ LastState(wal).index <= lib.commit
  BY <1>1, <1>2 DEF ReadyInv, WalInv, StateRec
<1> HIDE DEF u, v, r
<1>7. \A n \in Records(wal, "snap") : n \in DOMAIN u /\ u[n] = wal[n]
  BY <1>4, <1>5 DEF Same, Records
<1>8. SnapRec(0) \in {wal[n] : n \in DOMAIN wal}
  BY <1>1, WalIsLeft, LeavingIs
<1>9. Base(wal, files) <= Base(u, files) /\ Base(wal, files) \in Nat /\ Base(u, files) \in Nat
  BY <1>3, <1>4, <1>6, <1>7, <1>8, BaseGrows
<1>10. SnapRec(0) \in {u[n] : n \in DOMAIN u}
  <2>1. PICK n \in DOMAIN wal : wal[n] = SnapRec(0)
    BY <1>8
  <2>2. n \in Records(wal, "snap")
    BY <2>1 DEF Records, SnapRec
  <2> QED
    BY <1>7, <2>1, <2>2
<1>11. /\ \A o \in LoadableOf(u, files) : o.index <= Base(u, files)
       /\ Base(u, files) <= LastState(u).index
  BY <1>3, <1>4, <1>10, LoadIs
<1>12. lib.log.base <= Base(u, files)
  <2>1. CASE lib.snap = 0
    <3>1. lib.log.base <= Base(wal, files)
      BY <1>1, <2>1, WalIsLeft DEF Survives
    <3> QED
      BY <1>3, <1>9, <3>1
  <2>2. CASE lib.snap # 0
    <3>1. rd.snap = lib.snap /\ lib.snap = lib.log.base /\ lib.log.base <= lib.commit
      BY <1>1, <1>2, <2>2 DEF ReadyInv, LogInv
    <3> DEFINE f == [index |-> rd.snap, conf |-> Peers]
    <3>2. f \in files /\ \E n \in DOMAIN wal : wal[n] = SnapRec(rd.snap)
      BY <1>1, <1>2, <2>2, <3>1 DEF WalInv
    <3>3. PICK n \in DOMAIN wal : wal[n] = SnapRec(rd.snap)
      BY <3>2
    <3>4. n \in Records(wal, "snap")
      BY <3>3 DEF Records, SnapRec
    <3>5. SnapRec(rd.snap) \in {u[m] : m \in DOMAIN u}
      BY <1>7, <3>3, <3>4
    <3>6. f.index = rd.snap /\ f.index <= LastState(u).index
      BY <1>4, <1>6, <3>1
    <3> HIDE DEF f
    <3>7. f \in LoadableOf(u, files)
      BY <3>2, <3>5, <3>6 DEF LoadableOf
    <3>8. f.index <= Base(u, files)
      BY <1>11, <3>7
    <3> QED
      BY <3>1, <3>6, <3>8
  <2> QED
    BY <2>1, <2>2
<1> QED
  BY <1>9, <1>11, <1>12 DEF u

(* A restart from the whole WAL that SaveWal wrote.                        *)
LEMMA SavedSurvives ==
    ASSUME IInv, SaveWal
    PROVE  /\ Recovers(wal', Base(wal', files), LastState(wal'), parent)
           /\ HasAck(wal', Base(wal', files), promise)
           /\ HasApplied(wal', Base(wal', files), lib.log, applied)
<1>1. /\ PeerTypeOK /\ LogInv /\ AckInv /\ ReadyInv /\ WalInv /\ DiskInv /\ WalFormat
      /\ \A w \in Leavings : Survives(w)
  BY DEF IInv, WalInv
<1> DEFINE v == Adds(wal, rd.from, rd.ents)
           r == StateRec(rd.term, rd.commit)
           u == wal'
           s == Base(wal', files)
<1>2. step = "saveWal" /\ Busy
  BY DEF SaveWal, Goes, Busy
<1>3. /\ wal \in Seq(WalRecord) /\ rd.from \in Nat /\ rd.ents \in Seq(1 .. MaxTerm)
      /\ Len(rd.ents) \in Nat /\ rd.from + Len(rd.ents) <= MaxIndex
      /\ lib.commit \in Nat /\ lib.log.base \in Nat /\ lib.log \in Log /\ applied \in Nat
      /\ LastIndex(lib.log) \in Nat /\ promise.index \in Nat
      /\ lib.term \in Nat /\ promise.term \in Nat
  BY <1>1, WalIs, ReadyIs, LibIs, LibLogIs, LoopIs, AcksAre DEF ReadyInv
<1>4. /\ u \in Seq(WalRecord) /\ Same(u, v, "entry") /\ LastState(u) = r
  BY <1>1, <1>3, SavedWalIs
<1>5. r.index = lib.commit /\ r.term = lib.term
  BY <1>1, <1>2 DEF ReadyInv, StateRec
<1>6. /\ Base(wal, files) <= s /\ lib.log.base <= s
      /\ Base(wal, files) \in Nat /\ s \in Nat
  BY SavedBase
<1>7. Mirrors(u, lib.log, LastIndex(lib.log)) /\ Mirrors(wal, lib.log, rd.from)
  BY <1>1, <1>2, SavedHasLog DEF DiskInv, ReadyInv
<1>8. Gapless(wal, s) /\ Linked(wal, s, parent)
  <2>1. Gapless(wal, Base(wal, files)) /\ Linked(wal, Base(wal, files), parent)
    BY <1>1, WalIsLeft DEF Survives, Recovers
  <2> QED
    BY <1>3, <1>6, <2>1, GaplessLater, LinkedLater
<1>9. Reaches(wal, s, rd.from)
  BY <1>3, <1>6, <1>7, ReachesLater DEF Mirrors
<1>10. Joins(wal, rd.from, rd.ents, s, parent)
  BY <1>1, <1>2, <1>6, SavedJoins
<1>11. Gapless(v, s) /\ Linked(v, s, parent)
  BY <1>3, <1>6, <1>8, <1>9, <1>10, AddsGapless, AddsLinked
<1> HIDE DEF u, v, r, s
<1>12. Gapless(u, s) /\ Linked(u, s, parent)
  BY <1>4, <1>11, SameLog
<1>13. Same(u, u, "entry")
  BY DEF Same
<1>14. /\ lib.commit \in 0 .. LastIndex(lib.log) /\ applied \in 0 .. LastIndex(lib.log)
  BY <1>1, <1>3 DEF LogInv
<1>15. \A i \in 0 .. LastIndex(lib.log) : Reaches(u, s, i) /\ HasApplied(u, s, lib.log, i)
  BY <1>3, <1>4, <1>6, <1>7, <1>13, MirrorGives
<1>16. Recovers(u, s, LastState(u), parent)
  BY <1>3, <1>4, <1>5, <1>12, <1>14, <1>15 DEF Recovers
<1>17. HasAck(u, s, promise)
  <2>1. promise.term <= lib.term
    BY <1>1 DEF AckInv
  <2>2. CASE promise.term = lib.term
    <3>1. Kept(lib.log, lib.matched, promise)
      BY <1>1, <2>2 DEF AckInv
    <3>2. promise.index <= s \/ (Reaches(u, s, promise.index) /\ OnDisk(u, promise.index, promise.of))
      BY <1>3, <1>4, <1>6, <1>7, <1>13, <3>1, MirrorHasAck
    <3> QED
      BY <1>4, <1>5, <2>1, <3>2 DEF HasAck
  <2>3. CASE promise.term # lib.term
    BY <1>4, <1>5, <2>1, <2>3 DEF HasAck
  <2> QED
    BY <2>2, <2>3
<1> QED
  BY <1>14, <1>15, <1>16, <1>17 DEF u, s

LEMMA SaveWalKeeps ==
    ASSUME IInv, SaveWal
    PROVE  IInv'
<1>1. /\ PeerTypeOK /\ LogInv /\ AckInv /\ ReadyInv /\ SnapInv /\ WalInv /\ DiskInv
      /\ \A w \in Leavings : Survives(w)
  BY DEF IInv
<1> DEFINE v == Adds(wal, rd.from, rd.ents)
           r == StateRec(rd.term, rd.commit)
<1>2. /\ step = "saveWal" /\ step' \in {"send", "install"}
      /\ step' = "send" => rd.snap = 0
      /\ step' = "install" => rd.snap # 0
      /\ UNCHANGED <<lib, rd, applied, snapshotIndex, confState, mem, files,
                     promise, crashes, parent>>
  BY DEF SaveWal, Goes, After
<1>3. Busy /\ Busy' /\ ~Saved /\ Saved'
  BY <1>2 DEF Busy, Saved
<1>4. /\ rd.term = lib.term /\ rd.commit = lib.commit /\ lib.term \in Nat /\ lib.commit \in Nat
      /\ rd.from + Len(rd.ents) <= MaxIndex
  BY <1>1, <1>3, LibIs DEF ReadyInv
<1>5. /\ wal' \in Seq(WalRecord) /\ LastState(wal') = r
      /\ Len(v) <= Len(wal') /\ Len(wal') <= Len(v) + 1
      /\ \A n \in 1 .. Len(v) : wal'[n] = v[n]
      /\ \/ flushed' = Len(wal')
         \/ v = wal /\ flushed' = flushed /\ rd.term = LastState(wal).term
  BY <1>1, <1>4, SavedWalIs
<1> HIDE DEF v
<1>6. r.term = lib.term /\ r.index = lib.commit /\ r = StateRec(lib.term, lib.commit)
  BY <1>4 DEF StateRec
<1> HIDE DEF r
<1>7. PeerTypeOK'
  <2>1. step' \in Step
    BY <1>2 DEF Step
  <2>2. flushed' \in 0 .. Len(wal')
    <3>1. CASE flushed' = Len(wal')
      BY <1>5, <3>1, LenProperties
    <3>2. CASE v = wal /\ flushed' = flushed
      <4>1. flushed \in 0 .. Len(wal) /\ Len(wal) \in Nat /\ Len(wal') \in Nat
        BY <1>1, <1>5, WalIs, LenProperties DEF PeerTypeOK
      <4> QED
        BY <1>5, <3>2, <4>1
    <3> QED
      BY <1>5, <3>1, <3>2
  <2> QED
    BY <1>1, <1>2, <1>5, <2>1, <2>2 DEF PeerTypeOK
<1>8. LogInv' /\ AckInv'
  BY <1>1, <1>2, <1>3 DEF LogInv, AckInv, Remembered
<1>9. ReadyInv'
  <2>1. step' \notin {"publish", "trigger", "markOwn", "advance", "saveFile", "saveMark", "blocked"}
    BY <1>2
  <2> QED
    BY <1>1, <1>2, <1>3, <2>1 DEF ReadyInv, NextToApply
<1>10. SnapInv'
  <2>1. mem.snap.index = snapshotIndex /\ step' # "markOwn"
    BY <1>1, <1>2 DEF SnapInv
  <2> QED
    BY <1>1, <1>2, <2>1 DEF SnapInv
<1>11. WalInv'
  <2>1. WalFormat'
    BY <1>1, SavedFormat DEF WalInv
  <2>2. step' \notin {"saveMark", "saveWal", "markOwn"}
    BY <1>2
  <2> QED
    BY <1>2, <1>4, <1>5, <1>6, <2>1, <2>2 DEF WalInv
<1>12. DiskInv'
  <2>1. /\ Mirrors(wal', lib.log, lib.stable)
        /\ \A i \in 1 .. Len(rd.ents) : OnDisk(wal', rd.from + i, rd.ents[i])
        /\ rd.ents # <<>> => \A s \in Nat : Reaches(wal', s, rd.from + Len(rd.ents))
    BY <1>1, <1>3, SavedHasLog
  <2>2. step' # "advance" /\ \A s \in 0 .. MaxIndex : s \in Nat
    BY <1>2, ConstantsAre
  <2> QED
    BY <1>2, <2>1, <2>2 DEF DiskInv
<1>13. (\A w \in Leavings : Survives(w))'
  <2> SUFFICES ASSUME NEW w \in Leavings' PROVE Survives(w)'
    OBVIOUS
  <2>1. CASE w = wal'
    <3>1. /\ Recovers(w, Base(w, files), LastState(w), parent)
          /\ HasAck(w, Base(w, files), promise)
          /\ HasApplied(w, Base(w, files), lib.log, applied)
          /\ lib.log.base <= Base(w, files)
      BY <2>1, SavedSurvives, SavedBase
    <3> QED
      BY <1>2, <2>1, <3>1 DEF Survives
  <2>2. CASE w # wal'
    <3>1. flushed' # Len(wal')
      BY <1>5, <2>2, LeavingsSynced
    <3>2. v = wal /\ flushed' = flushed /\ rd.term = LastState(wal).term
      BY <1>5, <3>1
    <3>3. w \in Leavings
      BY <1>1, <1>5, <2>2, <3>2, LeavingsGrow
    <3>4. Survives(w)
      BY <1>1, <3>3
    <3>5. LastState(wal').term = LastState(wal).term
      BY <1>4, <1>5, <1>6, <3>2
    <3>6. LastState(w).index <= LastState(wal').index
      <4>1. LastState(wal).index <= LastState(wal').index
        BY <1>1, <1>5, <1>6 DEF WalInv
      <4>2. LastState(w).index <= LastState(wal).index
        BY <3>4 DEF Survives, Recovers
      <4>3. w \in Seq(WalRecord)
        BY <1>1, <3>3, LeavingIs
      <4>4. LastState(w).index \in 0 .. MaxIndex
        BY <4>3, LastStateIs
      <4>5. /\ LastState(w).index \in Nat /\ LastState(wal).index \in Nat
            /\ LastState(wal').index \in Nat
        BY <1>1, <1>4, <1>5, <1>6, <4>4, WalIs, ConstantsAre
      <4> QED
        BY <4>1, <4>2, <4>5
    <3>7. Recovers(w, Base(w, files), LastState(wal'), parent)
      BY <3>4, <3>5, <3>6 DEF Survives, Recovers
    <3> QED
      BY <1>2, <3>4, <3>7 DEF Survives
  <2> QED
    BY <2>1, <2>2
<1> QED
  BY <1>7, <1>8, <1>9, <1>10, <1>11, <1>12, <1>13 DEF IInv

-----------------------------------------------------------------------------
(* Advance, and the restart after a crash.                                 *)

(* An entry of the library's log that follows one on disk is on disk too:  *)
(* it was there when the later one was written.                            *)
LEMMA OneBefore ==
    ASSUME IInv, step = "advance", rd.ents # <<>>, NEW m \in Nat, lib.stable < m,
           m < rd.from + Len(rd.ents), m + 1 <= LastIndex(lib.log),
           OnDisk(wal, m + 1, At(lib.log, m + 1))
    PROVE  OnDisk(wal, m, At(lib.log, m))
<1>1. /\ PeerTypeOK /\ LogInv /\ ReadyInv /\ WalInv /\ WalFormat /\ DiskInv
      /\ \A w \in Leavings : Survives(w)
  BY DEF IInv, WalInv
<1>2. /\ wal \in Seq(WalRecord) /\ rd.from \in Nat /\ rd.ents \in Seq(1 .. MaxTerm)
      /\ Len(rd.ents) \in Nat /\ lib.log.base \in Nat /\ LastIndex(lib.log) \in Nat
      /\ lib.stable \in Nat /\ lib.log.base <= lib.stable /\ Peers \in Nat
      /\ rd.from + Len(rd.ents) <= MaxIndex /\ MaxIndex \in Nat
  BY <1>1, WalIs, ReadyIs, LibIs, LibLogIs, ConstantsAre DEF LogInv, ReadyInv
<1> DEFINE t == At(lib.log, m)
           u == At(lib.log, m + 1)
<1>3. /\ OnDisk(wal, m + 1, u)
      /\ m <= Peers => t = 1
      /\ m + 1 > Peers => t = parent[u]
  <2>1. Chain(lib.log, parent)
    BY <1>1 DEF LogInv
  <2>2. /\ m \in lib.log.base + 1 .. LastIndex(lib.log)
        /\ m + 1 \in lib.log.base + 1 .. LastIndex(lib.log)
        /\ (m + 1) - 1 = m /\ m > lib.log.base
    <3>1. \A b, c, l \in Nat : b <= c /\ c < m /\ m + 1 <= l =>
             /\ m \in b + 1 .. l /\ m + 1 \in b + 1 .. l
             /\ (m + 1) - 1 = m /\ m > b
      OBVIOUS
    <3> QED
      BY <1>2, <3>1
  <2> QED
    BY <2>1, <2>2 DEF Chain
<1> HIDE DEF t, u
<1>4. Saved
  BY DEF Saved
<1> DEFINE from == rd.from
           len  == Len(rd.ents)
<1>0. from \in Nat /\ len \in Nat /\ m < from + len
  BY <1>2
<1> HIDE DEF from, len
<1>5. CASE rd.from < m
  <2> DEFINE i == m - rd.from
  <2>1. /\ i \in 1 .. Len(rd.ents) /\ i + 1 \in 1 .. Len(rd.ents)
        /\ rd.from + i = m /\ rd.from + (i + 1) = m + 1 /\ (i + 1) - 1 = i /\ i + 1 > 1
    <3> DEFINE j == m - from
    <3>1. from < m
      BY <1>5 DEF from
    <3>2. /\ j \in 1 .. len /\ j + 1 \in 1 .. len
          /\ from + j = m /\ from + (j + 1) = m + 1 /\ (j + 1) - 1 = j /\ j + 1 > 1
      BY <1>0, <3>1
    <3> QED
      BY <3>2 DEF from, len
  <2> HIDE DEF i
  <2>2. OnDisk(wal, m, rd.ents[i]) /\ OnDisk(wal, m + 1, rd.ents[i + 1])
    <3>1. \A j \in 1 .. Len(rd.ents) : OnDisk(wal, rd.from + j, rd.ents[j])
      BY <1>1, <1>4 DEF DiskInv
    <3>2. OnDisk(wal, rd.from + i, rd.ents[i]) /\ OnDisk(wal, rd.from + (i + 1), rd.ents[i + 1])
      BY <2>1, <3>1
    <3> QED
      BY <2>1, <3>2
  <2>3. rd.ents[i + 1] = u
    BY <1>2, <1>3, <2>2, OnDiskIsOne
  <2>4. /\ IF rd.from + i <= Peers THEN rd.ents[i] = 1 ELSE rd.ents[i] \in 2 .. MaxTerm
        /\ rd.from + (i + 1) > Peers /\ i + 1 > 1 =>
              rd.ents[(i + 1) - 1] = parent[rd.ents[i + 1]]
    BY <1>1, <2>1, ReadyChainIs
  <2>5. rd.ents[i] = t
    <3>1. CASE m <= Peers
      BY <1>3, <2>1, <2>4, <3>1
    <3>2. CASE ~(m <= Peers)
      <4>1. m + 1 > Peers
        BY <1>2, <3>2
      <4> QED
        BY <1>3, <2>1, <2>3, <2>4, <4>1
    <3> QED
      BY <3>1, <3>2
  <2> QED
    BY <2>2, <2>5 DEF t
<1>6. CASE ~(rd.from < m)
  <2> DEFINE s == Base(wal, files)
  <2>1. Survives(wal) /\ wal \in Leavings
    BY <1>1, WalIsLeft
  <2>2. s \in Nat /\ s <= LastState(wal).index /\ s \in 0 .. MaxIndex
    BY <1>1, <2>1, ReplayIs, ConstantsAre
  <2>3. Gapless(wal, s) /\ Linked(wal, s, parent)
    BY <2>1 DEF Survives, Recovers
  <2> HIDE DEF s
  <2>4. LastState(wal).index <= lib.stable /\ LastState(wal).index \in Nat
    <3>1. lib.stable < rd.from
      BY <1>2, <1>6
    <3> QED
      BY <1>1, <3>1, WalIs DEF DiskInv
  <2>5. s < m /\ m + 1 <= rd.from + Len(rd.ents) /\ rd.from + Len(rd.ents) \in Nat
    <3>1. s < m
      BY <1>2, <2>2, <2>4
    <3>2. \A a, b \in Nat : m < a + b => m + 1 <= a + b /\ a + b \in Nat
      OBVIOUS
    <3> QED
      BY <1>2, <3>1, <3>2
  <2>6. Reaches(wal, s, rd.from + Len(rd.ents))
    BY <1>1, <1>4, <2>2 DEF DiskInv
  <2>7. Reaches(wal, s, m + 1) /\ Reaches(wal, s, m)
    BY <1>2, <2>2, <2>5, <2>6, ReachesLess
  <2>8. PICK n \in Behind(wal, s) : wal[n].index >= m
    BY <2>2, <2>5, <2>7 DEF Reaches
  <2>9. PICK p \in Behind(wal, s) : wal[p].index = m
    BY <1>2, <2>2, <2>3, <2>5, <2>8, ClimbFirst
  <2>10. p \in Records(wal, "entry")
    BY <1>2, <2>2, BehindIs
  <2>11. PICK q \in Records(wal, "entry") : LastOf(wal, m, q) /\ OnDisk(wal, m, wal[q].term)
    BY <1>2, <2>9, <2>10, OnDiskExists
  <2>12. CASE m + 1 > Peers
    <3>1. wal[q].term = parent[u]
      BY <1>2, <1>3, <2>2, <2>3, <2>5, <2>7, <2>11, <2>12, ReadLinked
    <3> QED
      BY <1>3, <2>11, <2>12, <3>1 DEF t
  <2>13. CASE ~(m + 1 > Peers)
    <3>1. m <= Peers
      BY <1>2, <2>13
    <3>2. wal[q].index = m
      BY <2>11 DEF LastOf
    <3>3. wal[q].term = 1
      BY <1>1, <2>11, <3>1, <3>2 DEF WalFormat
    <3> QED
      BY <1>3, <2>11, <3>1, <3>3 DEF t
  <2> QED
    BY <2>12, <2>13
<1> QED
  BY <1>5, <1>6

(* What Advance takes for stable is on disk: the library still has the     *)
(* Ready's last entry, and so all those before it.                         *)
LEMMA AdvanceMirrors ==
    ASSUME IInv, step = "advance", rd.ents # <<>>,
           lib.stable < rd.from + Len(rd.ents),
           Holds(lib.log, rd.from + Len(rd.ents), Last(rd.ents))
    PROVE  Mirrors(wal, lib.log, rd.from + Len(rd.ents))
<1>1. PeerTypeOK /\ LogInv /\ ReadyInv /\ DiskInv /\ Saved
  BY DEF IInv, Saved
<1> DEFINE last == rd.from + Len(rd.ents)
<1>2. /\ rd.from \in Nat /\ rd.ents \in Seq(1 .. MaxTerm) /\ Len(rd.ents) \in Nat
      /\ lib.log.base \in Nat /\ LastIndex(lib.log) \in Nat /\ lib.stable \in Nat
      /\ lib.log.base \in 0 .. MaxIndex
  BY <1>1, ReadyIs, LibIs, LibLogIs, LogIs
<1>3. last \in Nat /\ last <= LastIndex(lib.log) /\ lib.stable < last
      /\ At(lib.log, last) = Last(rd.ents) /\ lib.log.base <= lib.stable
  BY <1>1, <1>2 DEF Holds, At, LogInv
<1>4. OnDisk(wal, last, At(lib.log, last))
  <2>1. Len(rd.ents) # 0
    BY <1>2, EmptySeq
  <2>2. Len(rd.ents) \in 1 .. Len(rd.ents)
    BY <1>2, <2>1
  <2>3. OnDisk(wal, last, rd.ents[Len(rd.ents)])
    BY <1>1, <2>2 DEF DiskInv
  <2> QED
    BY <1>3, <2>3 DEF Last
<1>5. Reaches(wal, lib.log.base, last)
  BY <1>1, <1>2 DEF DiskInv
<1> DEFINE B == {i \in lib.stable + 1 .. last : ~OnDisk(wal, i, At(lib.log, i))}
<1>6. B = {}
  <2>1. SUFFICES ASSUME B # {} PROVE FALSE
    OBVIOUS
  <2>2. B \in SUBSET Nat /\ \A i \in B : i <= last
    BY <1>2, <1>3
  <2>3. PICK m \in B : \A i \in B : i <= m
    BY <1>3, <2>1, <2>2, MaxExists
  <2>4. /\ m \in Nat /\ lib.stable < m /\ m <= last /\ ~OnDisk(wal, m, At(lib.log, m))
    BY <1>2, <1>3, <2>3
  <2>5. m < last
    <3>1. m # last
      BY <1>4, <2>4
    <3> QED
      BY <1>3, <2>4, <3>1
  <2>6. m + 1 \in lib.stable + 1 .. last /\ ~(m + 1 <= m) /\ m + 1 <= LastIndex(lib.log)
    BY <1>2, <1>3, <2>4, <2>5
  <2>7. OnDisk(wal, m + 1, At(lib.log, m + 1))
    BY <2>3, <2>6
  <2> QED
    BY <2>4, <2>5, <2>6, <2>7, OneBefore
<1>7. ASSUME NEW i \in lib.log.base + 1 .. last PROVE OnDisk(wal, i, At(lib.log, i))
  <2>1. CASE i <= lib.stable
    <3>1. i \in lib.log.base + 1 .. lib.stable
      BY <1>2, <1>3, <2>1
    <3> QED
      BY <1>1, <3>1 DEF DiskInv, Mirrors
  <2>2. CASE ~(i <= lib.stable)
    <3>1. i \in lib.stable + 1 .. last
      BY <1>2, <1>3, <2>2
    <3> QED
      BY <1>6, <3>1
  <2> QED
    BY <2>1, <2>2
<1> QED
  BY <1>5, <1>7 DEF Mirrors

LEMMA AdvanceKeeps ==
    ASSUME IInv, Advance
    PROVE  IInv'
<1>1. /\ PeerTypeOK /\ LogInv /\ AckInv /\ ReadyInv /\ SnapInv /\ WalInv /\ DiskInv
      /\ \A w \in Leavings : Survives(w)
  BY DEF IInv
<1> DEFINE last  == rd.from + Len(rd.ents)
           moves == rd.ents # <<>> /\ last > lib.stable /\ Holds(lib.log, last, Last(rd.ents))
           st    == IF moves THEN last ELSE lib.stable
           ap    == IF rd.hi > lib.applied THEN rd.hi ELSE lib.applied
<1>2. /\ step = "advance" /\ step' = "idle"
      /\ lib' = [lib EXCEPT !.stable = st, !.applied = ap]
      /\ rd' = NoReady
      /\ UNCHANGED <<applied, snapshotIndex, confState, mem, wal, flushed, files,
                     promise, crashes, parent>>
  BY DEF Advance, disk
<1>3. /\ rd.from \in Nat /\ Len(rd.ents) \in Nat /\ rd.hi \in Nat
      /\ lib.log.base \in Nat /\ LastIndex(lib.log) \in Nat
      /\ lib.stable \in Nat /\ lib.applied \in Nat /\ applied \in Nat
      /\ rd.from + Len(rd.ents) <= MaxIndex
  BY <1>1, ReadyIs, LibIs, LibLogIs, LoopIs DEF ReadyInv
<1>4. /\ st \in 0 .. MaxIndex /\ lib.log.base <= st /\ st <= LastIndex(lib.log)
      /\ Mirrors(wal, lib.log, st)
  <2>1. CASE moves
    <3>1. lib.stable < last
      BY <1>3, <2>1
    <3>2. Mirrors(wal, lib.log, last)
      BY <1>2, <2>1, <3>1, AdvanceMirrors
    <3>3. last <= LastIndex(lib.log) /\ lib.log.base <= lib.stable
      BY <1>1, <2>1 DEF Holds, LogInv
    <3>4. last \in Nat /\ last <= MaxIndex /\ lib.log.base <= last /\ MaxIndex \in Nat
      BY <1>3, <3>1, <3>3, ConstantsAre
    <3> HIDE DEF last
    <3> QED
      BY <2>1, <3>2, <3>3, <3>4
  <2>2. CASE ~moves
    <3> HIDE DEF moves
    <3> QED
      BY <1>1, <2>2 DEF LogInv, DiskInv, PeerTypeOK
  <2> QED
    BY <2>1, <2>2
<1>5. ap \in 0 .. MaxIndex /\ ap <= applied
  <2>1. rd.hi <= applied /\ lib.applied <= applied
    BY <1>1, <1>2 DEF ReadyInv, LogInv
  <2>2. rd.hi \in 0 .. MaxIndex /\ lib.applied \in 0 .. MaxIndex
    BY <1>1 DEF PeerTypeOK
  <2> QED
    BY <2>1, <2>2
<1> HIDE DEF st, ap
<1>6. /\ lib'.log = lib.log /\ lib'.term = lib.term /\ lib'.commit = lib.commit
      /\ lib'.matched = lib.matched /\ lib'.snap = lib.snap /\ lib'.ack = lib.ack
      /\ lib'.stable = st /\ lib'.applied = ap
      /\ lib' \in [log : Log, term : 0 .. MaxTerm, commit : 0 .. MaxIndex,
                   matched : 0 .. MaxIndex, stable : 0 .. MaxIndex, snap : 0 .. MaxIndex,
                   applied : 0 .. MaxIndex, ack : Ack]
  BY <1>1, <1>2, <1>4, <1>5 DEF PeerTypeOK
<1>7. ~Busy' /\ ~Saved'
  BY <1>2 DEF Busy, Saved
<1>8. PeerTypeOK'
  <2>1. "idle" \in Step
    BY DEF Step
  <2>2. NoReady \in [snap : 0 .. MaxIndex, from : 0 .. MaxIndex, ents : Seq(1 .. MaxTerm),
                     term : 0 .. MaxTerm, commit : 0 .. MaxIndex,
                     lo : 1 .. MaxIndex + 1, hi : 0 .. MaxIndex, ack : Ack]
    <3>1. NoAck \in Ack /\ 0 \in 0 .. MaxIndex /\ 0 \in 0 .. MaxTerm /\ 1 \in 1 .. MaxIndex + 1
      BY ConstantsAre DEF NoAck, Ack
    <3>2. <<>> \in Seq(1 .. MaxTerm)
      OBVIOUS
    <3> QED
      BY <3>1, <3>2 DEF NoReady
  <2> QED
    BY <1>1, <1>2, <1>6, <2>1, <2>2 DEF PeerTypeOK
<1>9. LogInv'
  BY <1>1, <1>2, <1>4, <1>5, <1>6 DEF LogInv
<1>10. AckInv'
  BY <1>1, <1>2, <1>6, <1>7 DEF AckInv, Remembered
<1>11. ReadyInv'
  <2>1. NoReady.from = 0 /\ NoReady.ents = <<>>
    BY DEF NoReady
  <2>2. NoReady.from + Len(NoReady.ents) <= MaxIndex
    BY <2>1, ConstantsAre
  <2>3. Chain([base |-> NoReady.from, ents |-> NoReady.ents], parent')
    BY <2>1 DEF Chain, LastIndex
  <2> QED
    BY <1>2, <1>7, <2>2, <2>3 DEF ReadyInv
<1>12. SnapInv'
  BY <1>1, <1>2 DEF SnapInv
<1>13. WalInv'
  BY <1>1, <1>2, <1>6, <1>7 DEF WalInv, WalFormat
<1>14. DiskInv'
  BY <1>2, <1>4, <1>6, <1>7 DEF DiskInv
<1>15. (\A w \in Leavings : Survives(w))'
  BY <1>1, <1>2, <1>6, SurvivesHearing
<1> QED
  BY <1>8, <1>9, <1>10, <1>11, <1>12, <1>13, <1>14, <1>15 DEF IInv

(* The log that a restart reads is one of the cluster's.                   *)
LEMMA ReplayChains ==
    ASSUME PeerTypeOK, WalInv, NEW w \in Leavings, Survives(w)
    PROVE  Chain(replayWAL(w), parent)
<1> DEFINE l == replayWAL(w)
           s == Base(w, files)
<1>1. /\ s \in Nat /\ l \in Log /\ l.base = s /\ LastIndex(l) \in Nat /\ s \in 0 .. MaxIndex
      /\ \A i \in s + 1 .. LastIndex(l) : OnDisk(w, i, At(l, i))
      /\ \A i \in Nat : Reaches(w, s, i) <=> i <= LastIndex(l)
  <2>1. /\ l \in Log /\ l.base = s /\ s \in 0 .. MaxIndex
        /\ \A i \in s + 1 .. LastIndex(l) : OnDisk(w, i, At(l, i))
        /\ \A i \in Nat : Reaches(w, s, i) <=> i <= LastIndex(l)
    BY ReplayIs
  <2> QED
    BY <2>1, LogIs
<1>2. w \in Seq(WalRecord) /\ Same(w, wal, "entry")
  BY LeavingIs
<1>3. Gapless(w, s) /\ Linked(w, s, parent) /\ WalFormat
  BY DEF Survives, Recovers, WalInv
<1> HIDE DEF l, s
<1>4. SUFFICES ASSUME NEW i \in l.base + 1 .. LastIndex(l)
               PROVE  /\ IF i <= Peers THEN At(l, i) = 1 ELSE At(l, i) \in 2 .. MaxTerm
                      /\ i > Peers /\ i - 1 > l.base => At(l, i - 1) = parent[At(l, i)]
  BY DEF Chain, l
<1>5. i \in Nat /\ i \in s + 1 .. LastIndex(l) /\ i <= LastIndex(l) /\ i > s /\ i >= 1
  BY <1>1
<1>6. OnDisk(w, i, At(l, i))
  BY <1>1, <1>5
<1>7. IF i <= Peers THEN At(l, i) = 1 ELSE At(l, i) \in 2 .. MaxTerm
  <2>1. PICK n \in Records(w, "entry") : LastOf(w, i, n) /\ w[n].term = At(l, i)
    BY <1>6 DEF OnDisk
  <2>2. w[n].index = i /\ n \in Records(wal, "entry") /\ wal[n] = w[n]
    BY <1>2, <2>1 DEF LastOf, Same
  <2> QED
    BY <1>3, <2>1, <2>2 DEF WalFormat
<1>8. ASSUME i > Peers, i - 1 > l.base PROVE At(l, i - 1) = parent[At(l, i)]
  <2> DEFINE j == i - 1
  <2>1. j \in Nat /\ j + 1 = i /\ s < j /\ j \in s + 1 .. LastIndex(l)
    BY <1>1, <1>5, <1>8
  <2> HIDE DEF j
  <2>2. OnDisk(w, j, At(l, j)) /\ OnDisk(w, j + 1, At(l, j + 1))
    BY <1>1, <1>6, <2>1
  <2>3. Reaches(w, s, j + 1) /\ j + 1 > Peers
    BY <1>1, <1>5, <1>8, <2>1
  <2>4. At(l, j) = parent[At(l, j + 1)]
    BY <1>1, <1>2, <1>3, <2>1, <2>2, <2>3, ReadLinked
  <2> QED
    BY <2>1, <2>4 DEF j
<1> QED
  BY <1>7, <1>8

LEMMA CrashKeeps ==
    ASSUME IInv, Crash
    PROVE  IInv'
<1>1. /\ PeerTypeOK /\ LogInv /\ AckInv /\ ReadyInv /\ SnapInv /\ WalInv /\ DiskInv
      /\ \A w \in Leavings : Survives(w)
  BY DEF IInv
<1> DEFINE w    == wal'
           s    == Base(wal', files)
           l    == replayWAL(wal')
           snap == loadSnapshot(wal')
           st   == LastState(wal')
           m    == IF promise.term = st.term THEN promise.index ELSE 0
<1>2. /\ w \in Leavings /\ flushed' = Len(w)
      /\ crashes < MaxCrashes /\ crashes' = crashes + 1
      /\ lib' = [log |-> l, term |-> st.term, commit |-> st.index, matched |-> m,
                 stable |-> LastIndex(l), snap |-> 0, applied |-> snap.index,
                 ack |-> NoAck]
      /\ mem' = [offset |-> snap.index, snap |-> snap]
      /\ applied' = snap.index /\ snapshotIndex' = snap.index /\ confState' = snap.conf
      /\ rd' = NoReady /\ step' = "idle"
      /\ UNCHANGED <<files, promise, parent>>
  BY DEF Crash
<1>3. Survives(w)
  BY <1>1, <1>2
<1>4. /\ snap = Load(w, files) /\ snap \in Snapshot /\ snap.index = s
      /\ s \in 0 .. MaxIndex /\ s <= st.index
      /\ l \in Log /\ l.base = s /\ LastIndex(l) \in s .. MaxIndex
      /\ \A i \in s + 1 .. LastIndex(l) : OnDisk(w, i, At(l, i))
      /\ \A i \in Nat : Reaches(w, s, i) <=> i <= LastIndex(l)
  <2>1. /\ snap = Load(w, files) /\ snap \in Snapshot
        /\ s \in 0 .. MaxIndex /\ s <= st.index
        /\ l \in Log /\ l.base = s /\ LastIndex(l) \in s .. MaxIndex
        /\ \A i \in s + 1 .. LastIndex(l) : OnDisk(w, i, At(l, i))
        /\ \A i \in Nat : Reaches(w, s, i) <=> i <= LastIndex(l)
    BY <1>1, <1>2, <1>3, ReplayIs
  <2> QED
    BY <2>1 DEF Base
<1>5. /\ w \in Seq(WalRecord) /\ Same(w, wal, "entry") /\ Same(w, wal, "snap")
      /\ w[1] = SnapRec(0) /\ Len(w) >= 1
      /\ \A n \in DOMAIN w : n \in DOMAIN wal /\ w[n] = wal[n]
  BY <1>1, <1>2, LeavingIs
<1>6. st.index \in 0 .. MaxIndex /\ st.term \in 0 .. MaxTerm /\ st.index \in Nat /\ st.term \in Nat
  BY <1>5, LastStateIs, ConstantsAre
<1>7. /\ s \in Nat /\ LastIndex(l) \in Nat /\ LastIndex(l) <= MaxIndex /\ s <= LastIndex(l)
      /\ LastIndex(l) \in 0 .. MaxIndex /\ promise.index \in 0 .. MaxIndex
      /\ promise.index \in Nat /\ promise.term \in Nat
  <2>1. promise.index \in 0 .. MaxIndex
    BY <1>1 DEF PeerTypeOK, Ack
  <2> QED
    BY <1>1, <1>4, <2>1, ConstantsAre, AcksAre
<1>8. /\ Recovers(w, s, LastState(wal), parent)
      /\ HasAck(w, s, promise)
  BY <1>3 DEF Survives
<1>9. Chain(l, parent)
  BY <1>1, <1>2, <1>3, ReplayChains
<1>10. promise.term = st.term =>
          promise.index <= LastIndex(l) /\ (promise.index <= l.base \/ Holds(l, promise.index, promise.of))
  <2> SUFFICES ASSUME promise.term = st.term
               PROVE  promise.index <= LastIndex(l)
                      /\ (promise.index <= l.base \/ Holds(l, promise.index, promise.of))
    OBVIOUS
  <2>1. CASE promise.index <= s
    BY <1>4, <1>7, <2>1
  <2>2. CASE ~(promise.index <= s)
    <3>1. Reaches(w, s, promise.index) /\ OnDisk(w, promise.index, promise.of)
      BY <1>8, <2>2 DEF HasAck
    <3>2. promise.index <= LastIndex(l) /\ promise.index > l.base
      BY <1>4, <1>7, <2>2, <3>1
    <3> QED
      BY <1>1, <1>2, <1>3, <1>7, <3>1, <3>2, ReadAt
  <2> QED
    BY <2>1, <2>2
<1>11. st.index <= LastIndex(l)
  BY <1>4, <1>6, <1>8 DEF Recovers
<1>12. m \in 0 .. MaxIndex /\ m <= LastIndex(l) /\ (promise.term = st.term => m = promise.index)
  BY <1>7, <1>10, ConstantsAre
<1>13. snap.conf = IF s < Peers THEN s ELSE Peers
  <2>1. snap \in LoadableOf(w, files)
    <3>1. SnapRec(0) \in {w[n] : n \in DOMAIN w}
      BY <1>1, <1>2, LeavingIs
    <3>2. files \in SUBSET Snapshot
      BY <1>1 DEF PeerTypeOK
    <3> QED
      BY <1>4, <1>5, <3>1, <3>2, LoadIs
  <2>2. CASE snap \in files
    <3>1. snap.conf = Peers /\ s >= Peers
      BY <1>1, <1>4, <2>2 DEF SnapInv
    <3> QED
      BY <1>7, <3>1, ConstantsAre
  <2>3. CASE snap = [index |-> 0, conf |-> 0]
    <3>1. s = 0 /\ snap.conf = 0
      BY <1>4, <2>3
    <3> QED
      BY <3>1, ConstantsAre
  <2> QED
    BY <2>1, <2>2, <2>3 DEF LoadableOf
<1> HIDE DEF w, s, l, snap, st, m
<1>14. /\ lib'.log = l /\ lib'.term = st.term /\ lib'.commit = st.index /\ lib'.matched = m
       /\ lib'.stable = LastIndex(l) /\ lib'.snap = 0 /\ lib'.applied = s /\ lib'.ack = NoAck
       /\ mem'.offset = s /\ mem'.snap = snap /\ mem'.snap.index = s
       /\ applied' = s /\ snapshotIndex' = s
  BY <1>2, <1>4
<1>15. ~Busy' /\ ~Saved'
  BY <1>2 DEF Busy, Saved
<1>16. wal' = w
  BY DEF w
<1>17. NoAck \in Ack
  BY ConstantsAre DEF NoAck, Ack
<1>18. PeerTypeOK'
  <2>1. "idle" \in Step
    BY DEF Step
  <2>2. NoReady \in [snap : 0 .. MaxIndex, from : 0 .. MaxIndex, ents : Seq(1 .. MaxTerm),
                     term : 0 .. MaxTerm, commit : 0 .. MaxIndex,
                     lo : 1 .. MaxIndex + 1, hi : 0 .. MaxIndex, ack : Ack]
    <3>1. 0 \in 0 .. MaxIndex /\ 0 \in 0 .. MaxTerm /\ 1 \in 1 .. MaxIndex + 1
      BY ConstantsAre
    <3>2. <<>> \in Seq(1 .. MaxTerm)
      OBVIOUS
    <3> QED
      BY <1>17, <3>1, <3>2 DEF NoReady
  <2>3. lib' \in [log : Log, term : 0 .. MaxTerm, commit : 0 .. MaxIndex,
                  matched : 0 .. MaxIndex, stable : 0 .. MaxIndex, snap : 0 .. MaxIndex,
                  applied : 0 .. MaxIndex, ack : Ack]
    <3>1. 0 \in 0 .. MaxIndex
      BY ConstantsAre
    <3> QED
      BY <1>2, <1>4, <1>6, <1>7, <1>12, <1>17, <3>1
  <2>4. mem' \in [offset : 0 .. MaxIndex, snap : Snapshot]
    BY <1>2, <1>4
  <2>5. snap.conf \in 0 .. Peers
    BY <1>4 DEF Snapshot
  <2>6. flushed' \in 0 .. Len(wal')
    BY <1>2, <1>5, <1>16, LenProperties
  <2>7. crashes' \in 0 .. MaxCrashes
    <3>1. crashes \in 0 .. MaxCrashes /\ MaxCrashes \in Nat
      BY <1>1, RaftLoopAssumption DEF PeerTypeOK
    <3> QED
      BY <1>2, <3>1
  <2>8. s \in 0 .. MaxIndex
    BY <1>4
  <2> QED
    BY <1>1, <1>2, <1>5, <1>14, <1>16, <2>1, <2>2, <2>3, <2>4, <2>5, <2>6, <2>7, <2>8 DEF PeerTypeOK
<1>19. LogInv'
  <2>1. s <= s /\ LastIndex(l) <= LastIndex(l)
    BY <1>7
  <2> QED
    BY <1>2, <1>4, <1>7, <1>9, <1>11, <1>12, <1>14, <2>1 DEF LogInv
<1>20. AckInv'
  <2>1. promise.term <= st.term
    BY <1>8, <1>16 DEF HasAck, st, w
  <2>2. promise.term = st.term => Kept(l, m, promise)
    <3>1. promise.index <= promise.index
      BY <1>7
    <3> QED
      BY <1>10, <1>12, <3>1 DEF Kept
  <2> QED
    BY <1>2, <1>14, <1>15, <2>1, <2>2 DEF AckInv
<1>21. ReadyInv'
  <2>1. NoReady.from = 0 /\ NoReady.ents = <<>>
    BY DEF NoReady
  <2>2. NoReady.from + Len(NoReady.ents) <= MaxIndex
    BY <2>1, ConstantsAre
  <2>3. Chain([base |-> NoReady.from, ents |-> NoReady.ents], parent')
    BY <2>1 DEF Chain, LastIndex
  <2> QED
    BY <1>2, <1>15, <2>2, <2>3 DEF ReadyInv
<1>22. SnapInv'
  <2>1. s <= s
    BY <1>7
  <2> QED
    BY <1>1, <1>2, <1>13, <1>14, <2>1 DEF SnapInv
<1>23. WalInv'
  <2>1. WalFormat
    BY <1>1 DEF WalInv
  <2>2. WalFormat'
    <3>1. flushed' >= 1 /\ \A n \in DOMAIN w : ~(n > flushed')
      BY <1>2, <1>5, LenProperties
    <3>2. \A n \in Records(w, "state") : w[n] = StateRec(w[n].term, w[n].index)
      <4>1. \A n \in Records(w, "state") : n \in Records(wal, "state") /\ w[n] = wal[n]
        BY <1>5 DEF Records
      <4> QED
        BY <2>1, <4>1 DEF WalFormat
    <3>3. \A n \in Records(w, "entry") :
            /\ w[n].index >= 1
            /\ IF w[n].index <= Peers THEN w[n].term = 1 ELSE w[n].term \in 2 .. MaxTerm
      BY <1>5, <2>1 DEF WalFormat, Same
    <3>4. \A n \in Records(w, "snap") :
            w[n] = SnapRec(0) \/ /\ w[n] = SnapRec(w[n].index)
                                 /\ [index |-> w[n].index, conf |-> Peers] \in files
      BY <1>5, <2>1 DEF WalFormat, Same
    <3> QED
      BY <1>2, <1>5, <1>16, <3>1, <3>2, <3>3, <3>4 DEF WalFormat
  <2>3. LastState(wal') = st /\ st.term <= st.term /\ st.index <= st.index
    BY <1>6 DEF st
  <2> QED
    BY <1>2, <1>14, <1>15, <2>2, <2>3 DEF WalInv
<1>24. DiskInv'
  <2>1. Mirrors(w, l, LastIndex(l))
    <3>1. LastIndex(l) <= LastIndex(l)
      BY <1>7
    <3> QED
      BY <1>4, <1>7, <3>1 DEF Mirrors
  <2> QED
    BY <1>2, <1>14, <1>15, <1>16, <2>1 DEF DiskInv
<1>25. (\A v \in Leavings : Survives(v))'
  <2> SUFFICES ASSUME NEW v \in Leavings' PROVE Survives(v)'
    OBVIOUS
  <2>1. v = w
    BY <1>2, <1>5, <1>16, LeavingsSynced
  <2>2. LastState(w) = st /\ s = Base(w, files)
    BY DEF st, s, w
  <2>3. Recovers(w, s, st, parent)
    <3>1. st.index <= st.index
      BY <1>6
    <3> QED
      BY <1>8, <2>2, <3>1 DEF Recovers
  <2>4. HasApplied(w, s, l, s)
    <3>1. s <= s /\ \A j \in 1 .. s : ~(j > s)
      BY <1>7
    <3> QED
      BY <3>1 DEF HasApplied, Reaches
  <2>5. l.base <= s
    BY <1>4, <1>7
  <2> QED
    BY <1>2, <1>8, <1>14, <1>16, <2>1, <2>2, <2>3, <2>4, <2>5 DEF Survives
<1> QED
  BY <1>18, <1>19, <1>20, <1>21, <1>22, <1>23, <1>24, <1>25 DEF IInv

LEMMA InitHolds ==
    ASSUME Init
    PROVE  IInv
<1> DEFINE first == [i \in 1 .. Peers |-> 1]
           log   == [base |-> 0, ents |-> first]
<1>1. /\ Peers \in Nat /\ Peers >= 1 /\ MaxTerm \in Nat /\ MaxTerm >= 1
      /\ MaxIndex \in Nat /\ Peers <= MaxIndex
      /\ 0 \in 0 .. MaxIndex /\ 0 \in 0 .. MaxTerm /\ 1 \in 0 .. MaxTerm
      /\ Peers \in 0 .. MaxIndex /\ 0 \in 0 .. Peers /\ 1 \in 1 .. MaxIndex + 1
  BY ConstantsAre
<1>2. first \in Seq(1 .. MaxTerm) /\ Len(first) = Peers
  <2>1. first \in [1 .. Peers -> 1 .. MaxTerm]
    BY <1>1
  <2> QED
    BY <1>1, <2>1, FunctionIsSequence
<1>3. \A i \in 1 .. Peers : first[i] = 1
  OBVIOUS
<1> HIDE DEF first
<1>4. /\ log \in Log /\ log.base = 0 /\ LastIndex(log) = Peers
      /\ \A i \in 1 .. Peers : At(log, i) = 1
  <2>1. log \in Log
    BY <1>1, <1>2 DEF Log
  <2>2. log.base = 0 /\ log.ents = first
    OBVIOUS
  <2>3. LastIndex(log) = Peers
    BY <1>1, <1>2, <2>2 DEF LastIndex
  <2>4. \A i \in 1 .. Peers : At(log, i) = 1
    <3>1. \A i \in 1 .. Peers : i - 0 = i
      BY <1>1
    <3> QED
      BY <1>3, <2>2, <3>1 DEF At
  <2> QED
    BY <2>1, <2>2, <2>3, <2>4
<1>5. /\ parent \in [2 .. MaxTerm -> 1 .. MaxTerm]
      /\ lib = [log |-> log, term |-> 1, commit |-> Peers, matched |-> Peers, stable |-> 0,
                snap |-> 0, applied |-> 0, ack |-> NoAck]
      /\ rd = NoReady /\ step = "idle"
      /\ applied = 0 /\ snapshotIndex = 0 /\ confState = 0
      /\ mem = [offset |-> 0, snap |-> [index |-> 0, conf |-> 0]]
      /\ wal = <<SnapRec(0)>> /\ flushed = 1
      /\ files = {}
      /\ promise = NoAck /\ crashes = 0
  BY DEF Init, first
<1> HIDE DEF log
<1>6. /\ lib.log = log /\ lib.term = 1 /\ lib.commit = Peers /\ lib.matched = Peers
      /\ lib.stable = 0 /\ lib.snap = 0 /\ lib.applied = 0 /\ lib.ack = NoAck
      /\ mem.offset = 0 /\ mem.snap.index = 0
  BY <1>5
<1>7. ~Busy /\ ~Saved
  BY <1>5 DEF Busy, Saved
<1>8. NoAck \in Ack /\ NoAck.term = 0 /\ NoAck.index = 0
  BY <1>1 DEF NoAck, Ack
<1>9. /\ wal \in Seq(WalRecord) /\ Len(wal) = 1 /\ DOMAIN wal = 1 .. 1 /\ wal[1] = SnapRec(0)
      /\ SnapRec(0).kind = "snap"
  BY <1>1, <1>5 DEF SnapRec, WalRecord
<1>10. \A n \in DOMAIN wal : n = 1 /\ wal[n].kind = "snap" /\ wal[n] = SnapRec(0)
  BY <1>9
<1>11. Records(wal, "entry") = {} /\ Records(wal, "state") = {}
  BY <1>10 DEF Records
<1>12. LastState(wal) = StateRec(0, 0) /\ StateRec(0, 0).term = 0 /\ StateRec(0, 0).index = 0
  BY <1>9, <1>11, LastStateIs DEF StateRec
<1>13. PeerTypeOK
  <2>1. "idle" \in Step
    BY DEF Step
  <2>2. NoReady \in [snap : 0 .. MaxIndex, from : 0 .. MaxIndex, ents : Seq(1 .. MaxTerm),
                     term : 0 .. MaxTerm, commit : 0 .. MaxIndex,
                     lo : 1 .. MaxIndex + 1, hi : 0 .. MaxIndex, ack : Ack]
    <3>1. <<>> \in Seq(1 .. MaxTerm)
      OBVIOUS
    <3> QED
      BY <1>1, <1>8, <3>1 DEF NoReady
  <2>3. lib \in [log : Log, term : 0 .. MaxTerm, commit : 0 .. MaxIndex,
                 matched : 0 .. MaxIndex, stable : 0 .. MaxIndex, snap : 0 .. MaxIndex,
                 applied : 0 .. MaxIndex, ack : Ack]
    BY <1>1, <1>4, <1>5, <1>8
  <2>4. mem \in [offset : 0 .. MaxIndex, snap : Snapshot]
    BY <1>1, <1>5 DEF Snapshot
  <2>5. flushed \in 0 .. Len(wal)
    BY <1>5, <1>9
  <2>6. crashes \in 0 .. MaxCrashes
    BY <1>5, RaftLoopAssumption
  <2> QED
    BY <1>1, <1>5, <1>8, <1>9, <2>1, <2>2, <2>3, <2>4, <2>5, <2>6 DEF PeerTypeOK
<1>14. LogInv
  <2>1. Chain(log, parent)
    <3>1. \A i \in log.base + 1 .. LastIndex(log) : i \in 1 .. Peers /\ i <= Peers /\ ~(i > Peers)
      BY <1>1, <1>4
    <3> QED
      BY <1>4, <3>1 DEF Chain
  <2> QED
    BY <1>1, <1>4, <1>5, <1>6, <2>1 DEF LogInv
<1>15. AckInv
  BY <1>5, <1>6, <1>7, <1>8 DEF AckInv
<1>16. ReadyInv
  <2>1. NoReady.from = 0 /\ NoReady.ents = <<>>
    BY DEF NoReady
  <2>2. NoReady.from + Len(NoReady.ents) <= MaxIndex
    BY <1>1, <2>1
  <2>3. Chain([base |-> NoReady.from, ents |-> NoReady.ents], parent)
    BY <2>1 DEF Chain, LastIndex
  <2> QED
    BY <1>5, <1>7, <2>2, <2>3 DEF ReadyInv
<1>17. SnapInv
  BY <1>1, <1>5, <1>6 DEF SnapInv
<1>18. WalInv
  <2>1. WalFormat
    <3>1. \A n \in DOMAIN wal : ~(n > flushed)
      BY <1>5, <1>10
    <3>2. \A n \in Records(wal, "snap") : wal[n] = SnapRec(0)
      BY <1>10 DEF Records
    <3> QED
      BY <1>5, <1>9, <1>11, <3>1, <3>2 DEF WalFormat
  <2> QED
    BY <1>1, <1>5, <1>6, <1>7, <1>12, <2>1 DEF WalInv
<1>19. DiskInv
  <2>1. Mirrors(wal, log, 0)
    BY <1>4 DEF Mirrors, Reaches
  <2> QED
    BY <1>5, <1>6, <1>7, <2>1 DEF DiskInv
<1>20. \A w \in Leavings : Survives(w)
  <2> SUFFICES ASSUME NEW w \in Leavings PROVE Survives(w)
    OBVIOUS
  <2>1. w = wal
    <3>1. PICK n \in flushed .. Len(wal) : w = SubSeq(wal, 1, n)
      BY DEF Leavings
    <3>2. n = Len(wal) /\ n \in 0 .. Len(wal)
      BY <1>5, <1>9, <3>1
    <3>3. SubSeq(wal, 1, Len(wal)) = wal
      BY <1>9, <3>2, PrefixIs, SeqEqual
    <3> QED
      BY <3>1, <3>2, <3>3
  <2>2. Base(wal, files) = 0
    <3>1. SnapRec(0) \in {wal[n] : n \in DOMAIN wal}
      BY <1>9
    <3>2. files \in SUBSET Snapshot
      BY <1>5
    <3>3. Load(wal, files) \in LoadableOf(wal, files)
      BY <1>9, <3>1, <3>2, LoadIs
    <3>4. Load(wal, files) = [index |-> 0, conf |-> 0]
      BY <1>5, <3>3 DEF LoadableOf
    <3> QED
      BY <3>4 DEF Base
  <2>3. Behind(wal, 0) = {}
    BY <1>11 DEF Behind
  <2>4. Recovers(wal, 0, LastState(wal), parent)
    BY <1>12, <2>3 DEF Recovers, Gapless, Linked, Reaches
  <2>5. HasAck(wal, 0, promise)
    BY <1>5, <1>8, <1>12 DEF HasAck
  <2>6. HasApplied(wal, 0, lib.log, applied)
    BY <1>5 DEF HasApplied, Reaches
  <2>7. lib.log.base <= 0
    BY <1>4, <1>6
  <2> QED
    BY <2>1, <2>2, <2>4, <2>5, <2>6, <2>7 DEF Survives
<1> QED
  BY <1>13, <1>14, <1>15, <1>16, <1>17, <1>18, <1>19, <1>20 DEF IInv

LEMMA NextKeeps ==
    ASSUME IInv, [Next]_vars
    PROVE  IInv'
<1>1. CASE Hear \/ Serve \/ Crash
  BY <1>1, HearKeeps, ReadyKeeps, SaveFileKeeps, SaveMarkKeeps, SaveWalKeeps, InstallKeeps,
     SendKeeps, PublishKeeps, TriggerKeeps, MarkOwnKeeps, AdvanceKeeps, CrashKeeps
     DEF Serve
<1>2. CASE UNCHANGED peer
  <2>1. /\ UNCHANGED <<lib, rd, step, applied, snapshotIndex, confState, mem>>
        /\ UNCHANGED <<wal, flushed, files, promise, crashes, parent>>
    BY <1>2 DEF peer
  <2>2. /\ PeerTypeOK /\ LogInv /\ AckInv /\ ReadyInv /\ SnapInv /\ WalInv /\ DiskInv
        /\ \A w \in Leavings : Survives(w)
    BY DEF IInv
  <2>3. Busy' = Busy /\ Saved' = Saved
    BY <2>1 DEF Busy, Saved
  <2>4. PeerTypeOK'
    BY <2>1, <2>2 DEF PeerTypeOK
  <2>5. LogInv' /\ AckInv'
    BY <2>1, <2>2, <2>3 DEF LogInv, AckInv, Remembered
  <2>6. ReadyInv'
    BY <2>1, <2>2, <2>3 DEF ReadyInv, NextToApply
  <2>7. SnapInv'
    BY <2>1, <2>2 DEF SnapInv, MustSnapshot
  <2>8. WalInv'
    BY <2>1, <2>2, <2>3 DEF WalInv, WalFormat
  <2>9. DiskInv'
    BY <2>1, <2>2, <2>3 DEF DiskInv
  <2>10. (\A w \in Leavings : Survives(w))'
    BY <2>1, <2>2, SurvivesHearing
  <2> QED
    BY <2>4, <2>5, <2>6, <2>7, <2>8, <2>9, <2>10 DEF IInv
<1> QED
  BY <1>1, <1>2 DEF Next, Created, MakeDir, CreateWal, DieCreating, vars

-----------------------------------------------------------------------------
(* The invariant holds at every state that the loop comes to.              *)
LEMMA AlwaysInv == Spec => []IInv
<1>1. Init => IInv
  BY InitHolds
<1>2. IInv /\ [Next]_vars => IInv'
  BY NextKeeps
<1> QED
  BY <1>1, <1>2, PTL DEF Spec

(* The library's log, the Ready in hand, the WAL, the snapshot files and   *)
(* the history keep their types, however often the process dies.           *)
THEOREM RaftLoopTypeCorrect == Spec => []TypeOK
<1>1. IInv => PeerTypeOK
  BY DEF IInv
<1>2. Init => waldir \in WalDir
  BY DEF Init, WalDir
<1>3. waldir \in WalDir /\ [Next]_vars => (waldir \in WalDir)'
  BY DEF Next, Created, MakeDir, CreateWal, DieCreating, WalDir, vars
<1> QED
  BY AlwaysInv, <1>1, <1>2, <1>3, PTL DEF Spec, TypeOK

(* serveChannels never leaves a disk that replayWAL or the library refuses *)
(* to start from: once there is a WAL, the newest snapshot a start may     *)
(* load has its WAL entries behind it, as far as what is committed.        *)
THEOREM RestartSafe == Spec => []RestartIsPossible
<1>1. IInv => RestartIsPossible
  BY RestartFollows
<1> QED
  BY AlwaysInv, <1>1, PTL

(* saveSnap and wal.Save come before transport.Send: the term and the entry*)
(* that a peer acknowledged are found again by its restart.                *)
THEOREM AcksSafe == Spec => []AcksSurvive
<1>1. IInv => AcksSurvive
  BY AcksFollow
<1> QED
  BY AlwaysInv, <1>1, PTL

(* wal.Save comes before publishEntries: a restart does not know less of   *)
(* the log, or another log, than the process had applied.                  *)
THEOREM AppliedSafe == Spec => []AppliedIsOnDisk
<1>1. IInv => AppliedIsOnDisk
  BY AppliedFollows
<1> QED
  BY AlwaysInv, <1>1, PTL

(* entriesToApply, publishSnapshot, CreateSnapshot and Compact are never   *)
(* called where they stop the process.                                     *)
THEOREM NoStopSafe == Spec => []NoFatalStop
<1>1. IInv => NoFatalStop
  BY NoStopFollows
<1> QED
  BY AlwaysInv, <1>1, PTL

(* maybeTriggerSnapshot makes no snapshot before the configuration entries *)
(* are applied: each names every peer.                                     *)
THEOREM SnapshotsSafe == Spec => []SnapshotsNameEveryPeer
<1>1. IInv => SnapshotsNameEveryPeer
  BY SnapshotsFollow
<1> QED
  BY AlwaysInv, <1>1, PTL
=============================================================================
