------------------------------ MODULE RaftLoop ------------------------------
(***************************************************************************)
(* One RLA's Raft storage: the loop serveChannels of algo/raft between the *)
(* Raft library on one side and the write-ahead log (WAL), the snapshot    *)
(* files and the in-memory log on the other, through crashes and restarts, *)
(* and before it the making of the WAL.                                    *)
(*                                                                         *)
(* Nothing is ever proposed, so the log holds the configuration entries    *)
(* that name the peers, at its head, and one empty entry per election: an  *)
(* entry is its term here.  The library is external: it hears of terms,    *)
(* entries, commits and snapshots from the other peers, and hands them to  *)
(* the loop as a Ready.  It goes on hearing while a Ready is handled, but  *)
(* makes the next Ready only after Advance.                                *)
(***************************************************************************)
EXTENDS Naturals, Sequences, SequencesExt

CONSTANTS
    Peers,          \* how many RLAs there are: configuration entries
    SnapCount,      \* snapCount and snapshotCatchUpEntriesN, which are equal
    MaxTerm,        \* bound: terms
    MaxIndex,       \* bound: entries of the log
    MaxCrashes      \* bound: crashes

ASSUME RaftLoopAssumption ==
    /\ Peers \in Nat \ {0} /\ SnapCount \in Nat /\ Peers <= SnapCount + 1
    /\ MaxTerm \in Nat \ {0} /\ MaxIndex \in Nat /\ Peers <= MaxIndex
    /\ MaxCrashes \in Nat

VARIABLES
    waldir,         \* the WAL's directory, see WalDir
    parent,         \* the cluster's log: the term of the entry before a term's
    lib,            \* the library: its log, hard state and outbox
    rd,             \* the Ready in hand
    step,           \* where the loop is in handling it
    applied,        \* RaftNode.appliedIndex
    snapshotIndex,  \* RaftNode.snapshotIndex
    confState,      \* RaftNode.confState: how many peers it names
    mem,            \* MemoryStorage: compacted up to, and its snapshot
    wal, flushed,   \* the records written to the WAL; how many are on disk
    files,          \* the snapshot files
    promise,        \* history: what was last acknowledged to the peers
    crashes         \* crashes so far

loop  == <<rd, step, applied, snapshotIndex, confState, mem>>
disk  == <<wal, flushed, files>>
peer  == <<lib, rd, step, applied, snapshotIndex, confState, mem, wal, flushed, files,
           promise, crashes, parent>>
vars  == <<waldir, peer>>

-----------------------------------------------------------------------------
(* A log: the entries after "base", which is where its snapshot ends.      *)
LastIndex(l)    == l.base + Len(l.ents)
Holds(l, i, t)  == i > l.base /\ i <= LastIndex(l) /\ l.ents[i - l.base] = t
UpTo(l, i)      == [l EXCEPT !.ents = SubSeq(@, 1, i - l.base)]
PutAfter(l, i, t) == [UpTo(l, i) EXCEPT !.ents = Append(@, t)]

Log == [base : 0 .. MaxIndex, ents : Seq(1 .. MaxTerm)]
Ack == [term : 0 .. MaxTerm, index : 0 .. MaxIndex, of : 0 .. MaxTerm]

(* No acknowledgment is waiting, or none was given.                        *)
NoAck == [term |-> 0, index |-> 0, of |-> 0]

Snapshot == [index : 0 .. MaxIndex, conf : 0 .. Peers]

(* Term and vote are saved in one record; who has the vote is left to      *)
(* LeaderCache.                                                            *)
EntryRec(i, t) == [kind |-> "entry", index |-> i, term |-> t]
StateRec(t, c) == [kind |-> "state", index |-> c, term |-> t]
SnapRec(i)     == [kind |-> "snap", index |-> i, term |-> 0]
WalRecord == [kind : {"entry", "state", "snap"}, index : 0 .. MaxIndex, term : 0 .. MaxTerm]

NoReady == [snap |-> 0, from |-> 0, ents |-> <<>>, term |-> 0, commit |-> 0,
            lo |-> 1, hi |-> 0, ack |-> NoAck]

Step == {"idle", "saveFile", "saveMark", "saveWal", "install", "send", "publish",
         "trigger", "markOwn", "advance", "blocked"}

(* There is none, this process has just made it, an earlier process has    *)
(* left it empty, or there is a WAL in it.                                 *)
WalDir == {"none", "empty", "left", "made"}

PeerTypeOK ==
    /\ parent \in [2 .. MaxTerm -> 1 .. MaxTerm]
    /\ lib \in [log : Log, term : 0 .. MaxTerm, commit : 0 .. MaxIndex,
                matched : 0 .. MaxIndex, stable : 0 .. MaxIndex, snap : 0 .. MaxIndex,
                applied : 0 .. MaxIndex, ack : Ack]
    /\ rd \in [snap : 0 .. MaxIndex, from : 0 .. MaxIndex, ents : Seq(1 .. MaxTerm),
               term : 0 .. MaxTerm, commit : 0 .. MaxIndex,
               lo : 1 .. MaxIndex + 1, hi : 0 .. MaxIndex, ack : Ack]
    /\ step \in Step
    /\ applied \in 0 .. MaxIndex
    /\ snapshotIndex \in 0 .. MaxIndex
    /\ confState \in 0 .. Peers
    /\ mem \in [offset : 0 .. MaxIndex, snap : Snapshot]
    /\ wal \in Seq(WalRecord)
    /\ flushed \in 0 .. Len(wal)
    /\ files \subseteq Snapshot
    /\ promise \in Ack
    /\ crashes \in 0 .. MaxCrashes

TypeOK == waldir \in WalDir /\ PeerTypeOK

(* The entry of a term follows one of an earlier term, and comes at one    *)
(* place in the log of the peers that have it.                             *)
Place[e \in 1 .. MaxTerm] == IF e = 1 THEN Peers ELSE Place[parent[e]] + 1

(* A new peer, without a directory.  The other variables have what a first *)
(* start makes of them, and are not looked at before: wal.Create an empty  *)
(* WAL, StartNode a log with the configuration entries, committed.         *)
Init ==
    /\ waldir = "none"
    /\ parent \in {f \in [2 .. MaxTerm -> 1 .. MaxTerm] : \A e \in 2 .. MaxTerm : f[e] < e}
    /\ lib = [log |-> [base |-> 0, ents |-> [i \in 1 .. Peers |-> 1]],
              term |-> 1, commit |-> Peers, matched |-> Peers, stable |-> 0, snap |-> 0,
              applied |-> 0, ack |-> NoAck]
    /\ rd = NoReady /\ step = "idle"
    /\ applied = 0 /\ snapshotIndex = 0 /\ confState = 0
    /\ mem = [offset |-> 0, snap |-> [index |-> 0, conf |-> 0]]
    /\ wal = <<SnapRec(0)>> /\ flushed = 1
    /\ files = {}
    /\ promise = NoAck /\ crashes = 0

-----------------------------------------------------------------------------
(* openWAL, when there is no WAL.  A directory that is there already is an *)
(* error, and log.Fatalf ends the process: what was "left" stays, whoever  *)
(* starts.                                                                 *)
MakeDir ==
    /\ waldir = "none" /\ waldir' = "empty"
    /\ UNCHANGED peer

CreateWal ==
    /\ waldir = "empty" /\ waldir' = "made"
    /\ UNCHANGED peer

(* The process dies in wal.Create, which makes the WAL elsewhere, removes  *)
(* the empty directory, and renames what it made.                          *)
DieCreating ==
    /\ waldir = "empty" /\ waldir' \in {"left", "none"}
    /\ UNCHANGED peer

-----------------------------------------------------------------------------
(* The library hears from the peers (external).                            *)

(* A candidate of a later term asks for the vote, or this one stands.      *)
HearTerm(t) ==
    /\ t > lib.term
    /\ lib' = [lib EXCEPT !.term = t, !.matched = 0,
                          !.ack = [term |-> t, index |-> 0, of |-> 0]]
    /\ UNCHANGED <<loop, disk, promise, crashes, parent>>

(* The leader of term t sends the entry after k, of term e.  What the log  *)
(* has there of another term is dropped, and all behind it.  A leader does *)
(* not go back behind what was matched in its own term, and nobody goes    *)
(* back behind what is committed.                                          *)
HearEntry(t, k, e) ==
    LET new == ~Holds(lib.log, k + 1, e) IN
    /\ t >= lib.term
    /\ k >= lib.commit /\ k <= LastIndex(lib.log) /\ k < MaxIndex
    /\ t = lib.term => k >= lib.matched
    /\ IF k < Peers THEN e = 1 ELSE e \in 2 .. t /\ Place[e] = k + 1
    /\ k > lib.log.base /\ e # 1 => Holds(lib.log, k, parent[e])
    /\ lib' = [lib EXCEPT
           !.term    = t,
           !.log     = IF new THEN PutAfter(@, k, e) ELSE @,
           !.stable  = IF new /\ k < @ THEN k ELSE @,
           !.matched = k + 1,
           !.ack     = [term |-> t, index |-> k + 1, of |-> e]]
    /\ UNCHANGED <<loop, disk, promise, crashes, parent>>

HearCommit(i) ==
    /\ i > lib.commit /\ i <= lib.matched
    /\ lib' = [lib EXCEPT !.commit = i]
    /\ UNCHANGED <<loop, disk, promise, crashes, parent>>

(* The leader has compacted the entries this peer needs and sends its      *)
(* snapshot, which replaces the log.                                       *)
HearSnapshot(t, i) ==
    /\ t >= lib.term
    /\ i > lib.commit /\ i > SnapCount
    /\ t = lib.term => i > lib.matched
    /\ lib' = [lib EXCEPT
           !.term = t, !.log = [base |-> i, ents |-> <<>>], !.commit = i, !.matched = i,
           !.stable = i, !.snap = i, !.ack = [term |-> t, index |-> i, of |-> 0]]
    /\ UNCHANGED <<loop, disk, promise, crashes, parent>>

(* It hears at any time.  Only Ready and Advance look at what it heard, so  *)
(* what it hears while a Ready is handled is heard just before Advance.    *)
Hear ==
    /\ step \in {"idle", "advance"}
    /\ \/ \E t \in 2 .. MaxTerm :
             \/ HearTerm(t)
             \/ \E k \in 0 .. MaxIndex, e \in 1 .. MaxTerm : HearEntry(t, k, e)
             \/ \E i \in 1 .. MaxIndex : HearSnapshot(t, i)
       \/ \E i \in 1 .. MaxIndex : HearCommit(i)

-----------------------------------------------------------------------------
(* The WAL.                                                                *)

Records(w, kind) == {n \in DOMAIN w : w[n].kind = kind}

LastState(w) == LET states == Records(w, "state")
                IN  IF states = {} THEN StateRec(0, 0) ELSE w[Max(states)]

(* ReadAll from a snapshot: an entry replaces the one of its index and all *)
(* behind it, so of each index the last record counts, and the last record *)
(* of all is where the log ends.  An entry that leaves a gap is an error.  *)
Gap == [base |-> 0, ents |-> <<0>>]

Behind(w, start) == {n \in Records(w, "entry") : w[n].index > start}

Reached(w, start, n) == LET before == {m \in Behind(w, start) : m < n}
                        IN  IF before = {} THEN start ELSE w[Max(before)].index

Written(w, start, i) == w[Max({n \in Behind(w, start) : w[n].index = i})].term

ReadAll(w, start) ==
    IF \E n \in Behind(w, start) : w[n].index > Reached(w, start, n) + 1
    THEN Gap
    ELSE [base |-> start,
          ents |-> [i \in 1 .. Reached(w, start, Len(w) + 1) - start
                       |-> Written(w, start, start + i)]]

(* ValidSnapshotEntries and LoadNewestAvailable: the newest snapshot that  *)
(* has a record in the WAL, is committed there, and has its file.          *)
Loadable(w) ==
    {s \in files \cup {[index |-> 0, conf |-> 0]} :
        s.index <= LastState(w).index /\ SnapRec(s.index) \in {w[i] : i \in DOMAIN w}}

loadSnapshot(w) == CHOOSE s \in Loadable(w) : \A o \in Loadable(w) : o.index <= s.index

replayWAL(w) == ReadAll(w, loadSnapshot(w).index)

(* What a crash may leave of the WAL.                                      *)
Leavings == {SubSeq(wal, 1, n) : n \in flushed .. Len(wal)}

Write(records, sync) ==
    /\ wal' = wal \o records
    /\ flushed' = IF sync THEN Len(wal') ELSE flushed

-----------------------------------------------------------------------------
(* serveChannels: one Ready.                                               *)

(* Mutant of After: messages leave before the WAL is written.              *)
AfterSendFirst(s, snap) ==
    CASE s = "idle"     -> IF snap = 0 THEN "send" ELSE "saveFile"
      [] s = "saveFile" -> "saveMark"
      [] s = "saveMark" -> "send"
      [] s = "send"     -> "saveWal"
      [] s = "saveWal"  -> IF snap = 0 THEN "publish" ELSE "install"
      [] s = "publish"  -> "trigger"
      [] s \in {"trigger", "markOwn"} -> "advance"

(* Mutant of After: entries are published before the WAL is written.       *)
AfterPublishFirst(s, snap) ==
    CASE s = "idle"     -> IF snap = 0 THEN "publish" ELSE "saveFile"
      [] s = "saveFile" -> "saveMark"
      [] s = "saveMark" -> "publish"
      [] s = "publish"  -> "saveWal"
      [] s = "saveWal"  -> IF snap = 0 THEN "send" ELSE "install"
      [] s = "send"     -> "trigger"
      [] s \in {"trigger", "markOwn"} -> "advance"

(* Mutant of After: the WAL is written before the snapshot is saved.       *)
AfterSnapLast(s, snap) ==
    CASE s = "idle"     -> "saveWal"
      [] s = "saveWal"  -> IF snap = 0 THEN "send" ELSE "saveMark"
      [] s = "saveMark" -> "saveFile"
      [] s = "saveFile" -> "install"
      [] s = "send"     -> "publish"
      [] s = "publish"  -> "trigger"
      [] s \in {"trigger", "markOwn"} -> "advance"

(* The order of the loop's body, for a Ready with the snapshot "snap".     *)
After(s, snap) ==
    CASE s = "idle"     -> IF snap = 0 THEN "saveWal" ELSE "saveFile"
      [] s = "saveFile" -> "saveMark"
      [] s = "saveMark" -> "saveWal"
      [] s = "saveWal"  -> IF snap = 0 THEN "send" ELSE "install"
      [] s = "send"     -> "publish"
      [] s = "publish"  -> "trigger"
      [] s \in {"trigger", "markOwn"} -> "advance"

Unsaved == lib.stable < LastIndex(lib.log)

NextToApply == (IF lib.applied > lib.log.base THEN lib.applied ELSE lib.log.base) + 1

Ready ==
    /\ step = "idle"
    /\ \/ Unsaved \/ lib.commit >= NextToApply \/ lib.snap # 0 \/ lib.ack # NoAck
       \/ LastState(wal) # StateRec(lib.term, lib.commit)
    /\ rd' = [snap |-> lib.snap, from |-> lib.stable,
              ents |-> SubSeq(lib.log.ents, lib.stable - lib.log.base + 1,
                              Len(lib.log.ents)),
              term |-> lib.term, commit |-> lib.commit,
              lo |-> NextToApply, hi |-> lib.commit, ack |-> lib.ack]
    /\ lib' = [lib EXCEPT !.ack = NoAck]
    /\ step' = After("idle", lib.snap)
    /\ UNCHANGED <<applied, snapshotIndex, confState, mem, disk, promise, crashes, parent>>

Goes(s) == step = s /\ step' = After(s, rd.snap)

(* saveSnap: the file, then the record in the WAL.                         *)
SaveFile ==
    /\ Goes("saveFile")
    /\ files' = files \cup {[index |-> rd.snap, conf |-> Peers]}
    /\ UNCHANGED <<lib, rd, applied, snapshotIndex, confState, mem, wal, flushed,
                   promise, crashes, parent>>

SaveMark ==
    /\ Goes("saveMark")
    /\ Write(<<SnapRec(rd.snap)>>, TRUE)
    /\ UNCHANGED <<lib, rd, applied, snapshotIndex, confState, mem, files,
                   promise, crashes, parent>>

(* wal.Save.  The library's MustSync leaves a record that only moves the   *)
(* commit index in the process's buffer.                                   *)
SaveWal ==
    LET last  == LastState(wal)
        state == StateRec(rd.term, rd.commit)
        ents  == [i \in 1 .. Len(rd.ents) |-> EntryRec(rd.from + i, rd.ents[i])]
    IN  /\ Goes("saveWal")
        /\ Write(ents \o (IF state = last THEN <<>> ELSE <<state>>),
                 ents # <<>> \/ rd.term # last.term)
        /\ UNCHANGED <<lib, rd, applied, snapshotIndex, confState, mem, files,
                       promise, crashes, parent>>

(* ApplySnapshot, then publishSnapshot, which sends on commitC.  Nobody    *)
(* receives from commitC: the loop stays there.                            *)
Install ==
    /\ step = "install" /\ step' = "blocked"
    /\ mem' = [offset |-> rd.snap, snap |-> [index |-> rd.snap, conf |-> Peers]]
    /\ UNCHANGED <<lib, rd, applied, snapshotIndex, confState, disk,
                   promise, crashes, parent>>

(* transport.Send.                                                         *)
Send ==
    /\ Goes("send")
    /\ promise' = IF rd.ack = NoAck THEN promise ELSE rd.ack
    /\ UNCHANGED <<lib, rd, applied, snapshotIndex, confState, mem, disk, crashes, parent>>

(* Mutant of Publish: one entry alone is not applied.                      *)
PublishNotOne ==
    /\ Goes("publish")
    /\ IF rd.hi > applied /\ rd.hi > rd.lo
       THEN /\ applied' = rd.hi
            /\ confState' = Peers
       ELSE UNCHANGED <<applied, confState>>
    /\ UNCHANGED <<lib, rd, snapshotIndex, mem, disk, promise, crashes, parent>>

(* Mutant of Publish: every entry is taken for one that names a peer.      *)
PublishAllAsPeers ==
    /\ Goes("publish")
    /\ IF rd.hi > applied /\ rd.hi >= rd.lo
       THEN applied' = rd.hi /\ confState' = confState + rd.hi - applied
       ELSE UNCHANGED <<applied, confState>>
    /\ UNCHANGED <<lib, rd, snapshotIndex, mem, disk, promise, crashes, parent>>

(* entriesToApply and publishEntries.  Only configuration entries have an  *)
(* effect.                                                                 *)
Publish ==
    /\ Goes("publish")
    /\ IF rd.hi > applied /\ rd.hi >= rd.lo
       THEN /\ applied' = rd.hi
            /\ confState' = IF applied < Peers THEN (IF rd.hi < Peers THEN rd.hi ELSE Peers)
                                               ELSE confState
       ELSE UNCHANGED <<applied, confState>>
    /\ UNCHANGED <<lib, rd, snapshotIndex, mem, disk, promise, crashes, parent>>

(* Mutant of MustSnapshot: one entry early.                                *)
MustSnapshotEarly == applied > snapshotIndex /\ applied - snapshotIndex >= SnapCount

(* maybeTriggerSnapshot.                                                   *)
MustSnapshot == applied - snapshotIndex > SnapCount

CompactTo == IF applied > SnapCount THEN applied - SnapCount ELSE 1

(* CreateSnapshot and the file of saveSnap; the record of saveSnap, and    *)
(* Compact.                                                                *)
Trigger ==
    /\ step = "trigger"
    /\ IF ~MustSnapshot
       THEN step' = After("trigger", rd.snap) /\ UNCHANGED <<mem, files>>
       ELSE /\ step' = "markOwn"
            /\ mem' = [mem EXCEPT !.snap = [index |-> applied, conf |-> confState]]
            /\ files' = files \cup {[index |-> applied, conf |-> confState]}
    /\ UNCHANGED <<lib, rd, applied, snapshotIndex, confState, wal, flushed,
                   promise, crashes, parent>>

MarkOwn ==
    /\ Goes("markOwn")
    /\ Write(<<SnapRec(applied)>>, TRUE)
    /\ mem' = [mem EXCEPT !.offset = CompactTo]
    /\ snapshotIndex' = applied
    /\ UNCHANGED <<lib, rd, applied, confState, files, promise, crashes, parent>>

(* node.Advance: the library counts the Ready's entries as stable, unless  *)
(* it has replaced them meanwhile, and those it published as applied.      *)
Advance ==
    LET last == rd.from + Len(rd.ents) IN
    /\ step = "advance" /\ step' = "idle"
    /\ lib' = [lib EXCEPT
           !.stable  = IF rd.ents # <<>> /\ last > @ /\ Holds(lib.log, last, Last(rd.ents))
                       THEN last ELSE @,
           !.applied = IF rd.hi > @ THEN rd.hi ELSE @]
    /\ rd' = NoReady
    /\ UNCHANGED <<applied, snapshotIndex, confState, mem, disk, promise, crashes, parent>>

(* The process dies; a new one loads the snapshot, replays the WAL into    *)
(* the in-memory log and restarts the library with it.                     *)
Crash ==
    /\ crashes < MaxCrashes
    /\ crashes' = crashes + 1
    /\ wal' \in Leavings
    /\ flushed' = Len(wal')
    /\ LET snap == loadSnapshot(wal')
           l    == replayWAL(wal')
           st   == LastState(wal')
       IN  /\ l # Gap
           /\ lib' = [log |-> l, term |-> st.term, commit |-> st.index,
                      matched |-> IF promise.term = st.term THEN promise.index ELSE 0,
                      stable |-> LastIndex(l), snap |-> 0, applied |-> snap.index,
                      ack |-> NoAck]
           /\ mem' = [offset |-> snap.index, snap |-> snap]
           /\ applied' = snap.index
           /\ snapshotIndex' = snap.index
           /\ confState' = snap.conf
    /\ rd' = NoReady /\ step' = "idle"
    /\ UNCHANGED <<files, promise, parent>>

Serve ==
    \/ Ready \/ SaveFile \/ SaveMark \/ SaveWal \/ Install \/ Send \/ Publish
    \/ Trigger \/ MarkOwn \/ Advance

Created == waldir = "made" /\ UNCHANGED waldir

Next ==
    \/ MakeDir \/ CreateWal \/ DieCreating
    \/ Created /\ (Hear \/ Serve \/ Crash)

Spec == Init /\ [][Next]_vars

-----------------------------------------------------------------------------
(* Whenever the process dies once its WAL has been created (a death before *)
(* may leave a directory no start gets past), it can be started again:     *)
(* the newest snapshot it may load has its WAL entries behind it without a *)
(* gap, and they reach what the hard state calls committed.  Otherwise     *)
(* replayWAL or the library ends the process, at every start.              *)
RestartIsPossible ==
    waldir = "made" => \A w \in Leavings :
        replayWAL(w) # Gap /\ LastState(w).index <= LastIndex(replayWAL(w))

(* What was acknowledged to the peers is found again by a restart: a term, *)
(* and the entry the leader counted, as long as the term has not moved on. *)
(* "saveSnap, wal.Save, then transport.Send" is the order that gives it.   *)
AcksSurvive ==
    \A w \in Leavings :
        LET l == replayWAL(w) IN
        /\ LastState(w).term >= promise.term
        /\ LastState(w).term = promise.term =>
              promise.index <= l.base \/ Holds(l, promise.index, promise.of)

(* What was published as applied is on disk, the same entries: a restart   *)
(* does not know less of the log than the process had acted on.            *)
AppliedIsOnDisk ==
    \A w \in Leavings :
        LET l == replayWAL(w) IN
        /\ applied <= LastIndex(l)
        /\ \A i \in 1 .. applied : i > l.base /\ i > lib.log.base =>
              Holds(l, i, lib.log.ents[i - lib.log.base])

(* None of the library's and the wrapper's own stops is reached: a gap     *)
(* before the entries to apply, a snapshot older than what is applied      *)
(* (log.Fatalf), a snapshot made twice, a compaction to where the log is   *)
(* compacted already, or past the snapshot (panic).                        *)
NoFatalStop ==
    /\ step = "publish" /\ rd.hi >= rd.lo => rd.lo <= applied + 1
    /\ step = "install" => rd.snap > applied
    /\ step = "trigger" /\ MustSnapshot =>
          /\ applied > mem.snap.index
          /\ mem.offset < CompactTo /\ CompactTo <= applied
    /\ mem.offset <= mem.snap.index /\ snapshotIndex <= applied

(* Every snapshot names every peer: none is made before the configuration  *)
(* entries are applied.  That is why the ConfState of a MsgSnap behind a   *)
(* heartbeat, which processMessages leaves as it is, is not outdated.      *)
SnapshotsNameEveryPeer == \A s \in files : s.conf = Peers

(* The loop goes on as long as it has something to do.                     *)
FairSpec == Spec /\ WF_vars(Created /\ Serve)

(* What is committed is applied in the end.  Two things may come between:  *)
(* a restart that forgets the commit, and a snapshot from the leader,      *)
(* after which the loop stands still for good.                             *)
CommittedIsApplied ==
    \A i \in 1 .. MaxIndex :
        waldir = "made" /\ lib.commit >= i ~> (applied >= i \/ lib.commit < i \/ step = "blocked")
=============================================================================
