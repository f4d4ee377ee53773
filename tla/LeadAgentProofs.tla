-------------------------- MODULE LeadAgentProofs --------------------------
(***************************************************************************)
(* Type correctness of LeadAgent and the two invariants about its rows,    *)
(* for any number of applications, clusters, RLAs and handlers and without *)
(* the bounds of the model-checking runs mattering.                        *)
(*                                                                         *)
(* The invariants are not inductive on the table alone: a row written to   *)
(* it is whatever some handler computed earlier.  So the inductive         *)
(* invariant IInv says of every row in the hands of a handler what it says *)
(* of the rows of the table.  It needs nothing about how old a row in hand *)
(* is, which is why it survives every overlap.                             *)
(***************************************************************************)
EXTENDS LeadAgent, AppRowProofs

GoodRows(f) ==
    /\ f \in [Apps -> Row \cup {NoRow}]
    /\ \A a \in Apps : f[a] # NoRow => GoodRow(f[a])

IInv ==
    /\ TypeOK
    /\ GoodRows(kb)
    /\ \A r \in RLAs, k \in Task : GoodRows(todo[r][k])

-----------------------------------------------------------------------------
LEMMA NothingGood == GoodRows(Nothing)
BY DEF GoodRows, Nothing

(* Replacing a row by a good one, or by none.                              *)
LEMMA ReplaceGood ==
    ASSUME NEW f, GoodRows(f), NEW a \in Apps, NEW row,
           row = NoRow \/ GoodRow(row)
    PROVE  GoodRows([f EXCEPT ![a] = row])
BY DEF GoodRows, GoodRow

(* What a task keeps is in its own hands only.                             *)
LEMMA KeepGood ==
    ASSUME IInv, NEW r \in RLAs, NEW k \in Task, NEW rows, GoodRows(rows), Keep(r, k, rows)
    PROVE  /\ phase' \in [RLAs -> [Task -> Phase]]
           /\ todo' \in [RLAs -> [Task -> [Apps -> Row \cup {NoRow}]]]
           /\ \A q \in RLAs, j \in Task : GoodRows(todo'[q][j])
<1>1. /\ phase \in [RLAs -> [Task -> Phase]]
      /\ todo \in [RLAs -> [Task -> [Apps -> Row \cup {NoRow}]]]
  BY DEF IInv, TypeOK
<1>2. phase' \in [RLAs -> [Task -> Phase]]
  BY <1>1 DEF Keep, Phase
<1>3. todo' \in [RLAs -> [Task -> [Apps -> Row \cup {NoRow}]]]
  BY <1>1 DEF Keep, GoodRows
<1>4. \A q \in RLAs, j \in Task : todo'[q][j] = rows \/ todo'[q][j] = todo[q][j]
  BY <1>1 DEF Keep
<1> QED
  BY <1>2, <1>3, <1>4 DEF IInv

LEMMA InitGood == Init => IInv
<1> SUFFICES ASSUME Init PROVE IInv
  OBVIOUS
<1>1. TypeOK
  BY NothingGood DEF Init, TypeOK, GoodRows, Phase
<1>2. GoodRows(kb) /\ \A r \in RLAs, k \in Task : GoodRows(todo[r][k])
  BY NothingGood DEF Init
<1> QED
  BY <1>1, <1>2 DEF IInv

-----------------------------------------------------------------------------
(* One lemma per action, or group of actions that write the same things.   *)

LEMMA CreateStep ==
    ASSUME IInv, NEW r \in RLAs, NEW a \in Apps, NEW S \in SUBSET DeployTiers,
           CreateApplication(r, a, S)
    PROVE  IInv'
<1>1. GoodRow(NewRow(S, nextVersion))
  BY NewRowGood DEF IInv, TypeOK
<1>2. GoodRows(kb')
  BY <1>1, ReplaceGood DEF CreateApplication, IInv
<1>3. TypeOK'
  BY <1>2 DEF CreateApplication, procs, IInv, TypeOK, GoodRows
<1> QED
  BY <1>2, <1>3 DEF CreateApplication, procs, IInv

LEMMA DeleteStep ==
    ASSUME IInv, NEW r \in RLAs, NEW a \in Apps, DeleteApplication(r, a)
    PROVE  IInv'
<1>1. GoodRows(kb')
  BY ReplaceGood DEF DeleteApplication, IInv
<1>2. TypeOK'
  BY <1>1 DEF DeleteApplication, procs, IInv, TypeOK, GoodRows
<1> QED
  BY <1>1, <1>2 DEF DeleteApplication, procs, IInv

(* An action that keeps good rows and leaves the table alone.              *)
LEMMA ReadStep ==
    ASSUME IInv, NEW r \in RLAs, NEW k \in Task, NEW rows, GoodRows(rows), Keep(r, k, rows),
           UNCHANGED <<kb, created, clock, up, believers>>,
           nextVersion' \in Nat \ {0}
    PROVE  IInv'
<1>1. TypeOK'
  BY KeepGood DEF IInv, TypeOK
<1> QED
  BY <1>1, KeepGood DEF IInv

LEMMA UpdateStep ==
    ASSUME IInv, NEW r \in RLAs, NEW h \in HttpSlots, NEW a \in Apps, NEW req \in RestRequest,
           UpdateRead(r, h, a, req)
    PROVE  IInv'
<1> DEFINE row  == UpdateRow(kb[a], req, nextVersion)
           rows == [Nothing EXCEPT ![a] = row]
<1>1. h \in Task /\ req \in Request /\ nextVersion \in Nat \ {0}
  BY DEF Task, RestRequest, IInv, TypeOK
<1>2. GoodRow(kb[a])
  BY DEF UpdateRead, IInv, GoodRows
<1>3. GoodRow(row)
  BY <1>1, <1>2, UpdateRowGood
<1>4. GoodRows(rows)
  BY <1>3, NothingGood, ReplaceGood
<1>5. Keep(r, h, rows) /\ UNCHANGED <<kb, created, clock, up, believers>>
  BY DEF UpdateRead
<1>6. nextVersion' \in Nat \ {0}
  BY <1>1 DEF UpdateRead
<1> QED
  BY <1>1, <1>4, <1>5, <1>6, ReadStep

LEMMA StatusStep ==
    ASSUME IInv, NEW r \in RLAs, NEW h \in HttpSlots, NEW a \in Apps, NEW c \in Clusters,
           NEW v \in 1 .. MaxVersion, NEW s \in Reported, StatusRead(r, h, a, c, v, s)
    PROVE  IInv'
<1> DEFINE row  == ReportRow(kb[a], c, v, s, clock)
           rows == [Nothing EXCEPT ![a] = row]
<1>1. /\ h \in Task /\ v \in Nat
      /\ clock \in Nat \ {0} /\ nextVersion \in Nat \ {0}
  BY LeadAgentAssumption DEF Task, IInv, TypeOK
<1>2. Verdict(kb[a], c, v) = "ok" /\ kb[a] # NoRow
  BY DEF StatusRead, Verdict
<1>3. GoodRow(kb[a])
  BY <1>2 DEF IInv, GoodRows
<1>4. GoodRow(row)
  BY <1>1, <1>2, <1>3, ReportRowGood
<1>5. GoodRows(rows)
  BY <1>4, NothingGood, ReplaceGood
<1>6. /\ Keep(r, h, rows) /\ UNCHANGED <<kb, created, clock, up, believers>>
      /\ nextVersion' = nextVersion
  BY DEF StatusRead, store
<1> QED
  BY <1>1, <1>5, <1>6, ReadStep

LEMMA SaveStep ==
    ASSUME IInv, NEW r \in RLAs, NEW k \in Task, NEW a \in Apps, Save(r, k, a)
    PROVE  IInv'
<1> DEFINE rows == [todo[r][k] EXCEPT ![a] = NoRow]
<1>1. GoodRows(todo[r][k]) /\ GoodRow(todo[r][k][a])
  BY DEF Save, IInv, GoodRows
<1>2. GoodRows(kb')
  BY <1>1, ReplaceGood DEF Save, IInv
<1>3. GoodRows(rows) /\ Keep(r, k, rows)
  BY <1>1, ReplaceGood DEF Save
<1>4. TypeOK'
  BY <1>2, <1>3, KeepGood DEF Save, IInv, TypeOK, GoodRows
<1> QED
  BY <1>2, <1>3, <1>4, KeepGood DEF IInv

LEMMA SaveFailsStep ==
    ASSUME IInv, NEW r \in RLAs, NEW k \in Task, NEW a \in Apps, SaveFails(r, k, a)
    PROVE  IInv'
<1> DEFINE rows == [todo[r][k] EXCEPT ![a] = NoRow]
<1>1. GoodRows(todo[r][k])
  BY DEF IInv
<1>2. GoodRows(rows)
  BY <1>1, ReplaceGood
<1>3. Keep(r, k, rows) /\ UNCHANGED <<kb, created, nextVersion, clock, up, believers>>
  BY DEF SaveFails, store
<1>4. nextVersion' \in Nat \ {0}
  BY <1>3 DEF IInv, TypeOK
<1> QED
  BY <1>2, <1>3, <1>4, ReadStep

LEMMA ScheduleStep ==
    ASSUME IInv, NEW r \in RLAs, NEW picks \in [Apps -> Pick], SchedulePendingApps(r, picks)
    PROVE  IInv'
<1> DEFINE rows == [a \in Apps |-> ScheduledRow(kb[a], picks[a])]
<1>1. ASSUME NEW a \in Apps
      PROVE  rows[a] = NoRow \/ GoodRow(rows[a])
  <2>1. /\ picks[a] \in [Tier -> Clusters \cup {NoCluster}]
        /\ \A t \in Tier : picks[a][t] \in Clusters => TierOf[picks[a][t]] = t
    BY DEF Pick
  <2>2. CASE kb[a] = NoRow
    BY <2>2 DEF ScheduledRow
  <2>3. CASE kb[a] # NoRow
    <3>1. GoodRow(kb[a])
      BY <2>3 DEF IInv, GoodRows
    <3>2. GoodRow(PlaceRow(kb[a], picks[a]))
      BY <2>1, <3>1, PlaceRowGood
    <3> QED
      BY <3>2 DEF ScheduledRow
  <2> QED
    BY <2>2, <2>3
<1>2. GoodRows(rows)
  BY <1>1 DEF GoodRows, GoodRow
<1>3. /\ Keep(r, "sched", rows)
      /\ UNCHANGED <<kb, created, nextVersion, clock, up, believers>>
  BY DEF SchedulePendingApps, store
<1>4. "sched" \in Task /\ nextVersion' \in Nat \ {0}
  BY <1>3 DEF Task, IInv, TypeOK
<1> QED
  BY <1>2, <1>3, <1>4, ReadStep

LEMMA StallStep ==
    ASSUME IInv, NEW r \in RLAs, HandleStalledApps(r)
    PROVE  IInv'
<1> DEFINE rows == [a \in Apps |-> StalledRow(kb[a], clock)]
<1>1. ASSUME NEW a \in Apps
      PROVE  rows[a] = NoRow \/ GoodRow(rows[a])
  <2>1. CASE kb[a] = NoRow
    BY <2>1 DEF StalledRow
  <2>2. CASE kb[a] # NoRow
    <3>1. GoodRow(kb[a]) /\ clock \in Nat
      BY <2>2 DEF IInv, TypeOK, GoodRows
    <3>2. GoodRow(SweptRow(kb[a], clock))
      BY <3>1, SweptRowGood
    <3> QED
      BY <3>2 DEF StalledRow
  <2> QED
    BY <2>1, <2>2
<1>2. GoodRows(rows)
  BY <1>1 DEF GoodRows, GoodRow
<1>3. /\ Keep(r, "stall", rows)
      /\ UNCHANGED <<kb, created, nextVersion, clock, up, believers>>
  BY DEF HandleStalledApps, store
<1>4. "stall" \in Task /\ nextVersion' \in Nat \ {0}
  BY <1>3 DEF Task, IInv, TypeOK
<1> QED
  BY <1>2, <1>3, <1>4, ReadStep

(* A dead RLA holds no rows.                                               *)
LEMMA DieStep ==
    ASSUME IInv, NEW r \in RLAs, Die(r)
    PROVE  IInv'
<1>1. \A q \in RLAs, j \in Task : todo'[q][j] = Nothing \/ todo'[q][j] = todo[q][j]
  BY DEF Die, IInv, TypeOK
<1>2. \A q \in RLAs, j \in Task : GoodRows(todo'[q][j])
  BY <1>1, NothingGood DEF IInv
<1>3. TypeOK'
  BY NothingGood DEF Die, store, IInv, TypeOK, GoodRows, Phase
<1> QED
  BY <1>2, <1>3 DEF Die, store, IInv

(* The actions that only move tasks, processes, leaders or the clock.      *)
LEMMA OtherSteps ==
    ASSUME IInv, NEW r \in RLAs,
           \/ Tick(r)
           \/ \E k \in {"sched", "stall"} : Skip(r, k)
           \/ Restart(r)
           \/ LeaderMoves(r)
           \/ ClockTick
    PROVE  IInv'
<1>1. kb' = kb /\ todo' = todo
  BY DEF Tick, Skip, Restart, LeaderMoves, ClockTick, store, procs
<1>2. TypeOK'
  <2> USE DEF IInv, TypeOK
  <2>1. CASE Tick(r)
    BY <2>1 DEF Tick, store, Task, Phase
  <2>2. CASE \E k \in {"sched", "stall"} : Skip(r, k)
    <3>1. PICK k \in {"sched", "stall"} : Skip(r, k)
      BY <2>2
    <3>2. k \in Task /\ phase \in [RLAs -> [Task -> Phase]] /\ "idle" \in Phase
      BY DEF Task, Phase
    <3>3. phase' \in [RLAs -> [Task -> Phase]]
      BY <3>1, <3>2 DEF Skip
    <3> QED
      BY <3>1, <3>3 DEF Skip, store
  <2>3. CASE Restart(r)
    BY <2>3 DEF Restart, store
  <2>4. CASE LeaderMoves(r)
    BY <2>4 DEF LeaderMoves, store
  <2>5. CASE ClockTick
    BY <2>5 DEF ClockTick, store, procs
  <2> QED
    BY <2>1, <2>2, <2>3, <2>4, <2>5
<1> QED
  BY <1>1, <1>2 DEF IInv

LEMMA NextGood == IInv /\ [Next]_vars => IInv'
<1> SUFFICES ASSUME IInv, [Next]_vars PROVE IInv'
  OBVIOUS
<1>1. CASE Requests
  BY <1>1, CreateStep, DeleteStep, UpdateStep DEF Requests
<1>2. CASE Reports
  BY <1>2, StatusStep DEF Reports
<1>3. CASE Loop
  <2>1. PICK r \in RLAs : \/ Tick(r)
                          \/ \E k \in {"sched", "stall"} : Skip(r, k)
                          \/ \E picks \in [Apps -> Pick] : SchedulePendingApps(r, picks)
                          \/ HandleStalledApps(r)
                          \/ SweepPanics(r)
    BY <1>3 DEF Loop
  <2>2. CASE SweepPanics(r)
    BY <2>2, DieStep DEF SweepPanics
  <2> QED
    BY <2>1, <2>2, OtherSteps, ScheduleStep, StallStep
<1>4. CASE Saves
  BY <1>4, SaveStep, SaveFailsStep DEF Saves
<1>5. CASE Environment
  <2>1. CASE ClockTick
    <3>1. CASE RLAs = {}
      BY <2>1, <3>1 DEF ClockTick, store, procs, IInv, TypeOK
    <3>2. CASE RLAs # {}
      BY <2>1, <3>2, OtherSteps
    <3> QED
      BY <3>1, <3>2
  <2>2. ASSUME NEW r \in RLAs, Crash(r)
        PROVE  IInv'
    BY <2>2, DieStep DEF Crash
  <2>3. ASSUME NEW r \in RLAs, Restart(r) \/ LeaderMoves(r)
        PROVE  IInv'
    BY <2>3, OtherSteps
  <2> QED
    BY <1>5, <2>1, <2>2, <2>3 DEF Environment
<1>6. CASE UNCHANGED vars
  BY <1>6 DEF vars, IInv, TypeOK
<1> QED
  BY <1>1, <1>2, <1>3, <1>4, <1>5, <1>6 DEF Next

-----------------------------------------------------------------------------
THEOREM Invariance == Spec => []IInv
BY InitGood, NextGood, PTL DEF Spec

(* Every variable keeps its type: no interleaving of handlers, goroutines, *)
(* crashes and leader changes leaves a row of another shape behind.        *)
THEOREM TypeCorrect == Spec => []TypeOK
<1>1. IInv => TypeOK
  BY DEF IInv
<1> QED
  BY <1>1, Invariance, PTL

LEMMA RowsGood == IInv => \A row \in Rows \ {NoRow} : GoodRow(row)
BY DEF IInv, Rows, GoodRows

(* A status in the table, or about to be written to it, was reported by    *)
(* the cluster the service is placed on and for the version it has.        *)
THEOREM StatusSafe == Spec => []StatusIsOfThisPlacement
<1>1. IInv => StatusIsOfThisPlacement
  BY RowsGood DEF StatusIsOfThisPlacement, StatusBelongs, GoodRow, GoodService
<1> QED
  BY <1>1, Invariance, PTL

(* The handlers never dereference a nil heartbeat or a nil version.        *)
THEOREM NilSafe == Spec => []NoNilColumnIsRead
<1>1. IInv => NoNilColumnIsRead
  BY RowsGood
  DEF NoNilColumnIsRead, HeartbeatWithStatus, ServiceVersioned, PlacementFits,
      GoodRow, GoodService
<1> QED
  BY <1>1, Invariance, PTL
=============================================================================
