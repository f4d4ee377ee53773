------------------------ MODULE ResourceAgentProofs ------------------------
(***************************************************************************)
(* Type correctness of ResourceAgent, and its two safety properties: that  *)
(* only what was applied is reported, and that deployments move forward.   *)
(*                                                                         *)
(* Both are about an answer that is old by the time it is used: a job is   *)
(* what was offered when the tick began, a report is of what was recorded. *)
(* The invariant keeps, for every goroutine, what its information is still *)
(* worth: that it was applied here (Backed), and that it is no older than  *)
(* what runs here and no newer than the row (Ordered).                     *)
(***************************************************************************)
EXTENDS ResourceAgent, AppRowProofs

Runs == {"progressing", "healthy"}

(* The columns of every row fit together, and its versions were given out. *)
RowInv ==
    \A a \in Apps : kb[a] # NoRow =>
        /\ GoodRow(kb[a]) /\ a \in created
        /\ \A t \in Tier : kb[a][t].version < nextVersion

Types == TypeOK /\ RowInv

-----------------------------------------------------------------------------
(* What the row functions do to the versions and states of a row.          *)

(* The row goes on to the next one without a version going back, and with  *)
(* no state but those that were there.                                     *)
Keeps(old, new) ==
    \A t \in Tier :
        /\ old[t].version <= new[t].version
        /\ new[t].status = old[t].status \/ new[t].status = NoStatus

LEMMA UpdateRowKeeps ==
    ASSUME NEW row, GoodRow(row), NEW req, NEW ver \in Nat,
           \A t \in Tier : row[t].version < ver
    PROVE  /\ Keeps(row, UpdateRow(row, req, ver))
           /\ \A t \in Tier : UpdateRow(row, req, ver)[t].version <= ver
<1> SUFFICES ASSUME NEW t \in Tier
             PROVE  LET new == UpdateRow(row, req, ver)
                    IN  /\ row[t].version <= new[t].version /\ new[t].version <= ver
                        /\ new[t].status = row[t].status \/ new[t].status = NoStatus
  BY DEF Keeps
<1>1. row[t].version \in Nat /\ row[t].version < ver
  BY DEF GoodRow, Row, Service
<1>2. CASE Touches(req, row, t)
  <2>1. /\ UpdateRow(row, req, ver)[t].version = ver
        /\ UpdateRow(row, req, ver)[t].status = NoStatus
    BY <1>2 DEF UpdateRow, NewService, NoService
  <2> QED
    BY <1>1, <2>1
<1>3. CASE ~Touches(req, row, t)
  BY <1>1, <1>3 DEF UpdateRow
<1> QED
  BY <1>2, <1>3

LEMMA EvictTierKeeps ==
    ASSUME NEW row, GoodRow(row), NEW u \in Tier, NEW now \in Nat
    PROVE  /\ Keeps(row, EvictTier(row, u, now))
           /\ \A t \in Tier : EvictTier(row, u, now)[t].version = row[t].version
<1>1. \A t \in Tier : row[t] \in Service /\ row[t].version \in Nat
  BY DEF GoodRow, Row, Service
<1>2. CASE Evictable(row, u, now)
  BY <1>1, <1>2 DEF EvictTier, GoodRow, Row, Service, Keeps
<1>3. CASE ~Evictable(row, u, now)
  BY <1>1, <1>3 DEF EvictTier, Keeps
<1> QED
  BY <1>2, <1>3

LEMMA SweptRowKeeps ==
    ASSUME NEW row, GoodRow(row), NEW now \in Nat
    PROVE  /\ Keeps(row, SweptRow(row, now))
           /\ \A t \in Tier : SweptRow(row, now)[t].version = row[t].version
<1> DEFINE r1 == EvictTier(row, "cloud", now)
           r2 == EvictTier(r1, "fog", now)
           r3 == EvictTier(r2, "edge", now)
<1>1. "cloud" \in Tier /\ "fog" \in Tier /\ "edge" \in Tier
  BY DEF Tier
<1>2. GoodRow(r1) /\ Keeps(row, r1) /\ \A t \in Tier : r1[t].version = row[t].version
  BY <1>1, EvictTierGood, EvictTierKeeps
<1>3. GoodRow(r2) /\ Keeps(r1, r2) /\ \A t \in Tier : r2[t].version = r1[t].version
  <2> HIDE DEF r1
  <2> QED
    BY <1>1, <1>2, EvictTierGood, EvictTierKeeps
<1>4. Keeps(r2, r3) /\ \A t \in Tier : r3[t].version = r2[t].version
  <2> HIDE DEF r2
  <2> QED
    BY <1>1, <1>3, EvictTierKeeps
<1>5. SweptRow(row, now) = r3
  BY DEF SweptRow
<1>6. \A t \in Tier : row[t].version \in Nat
  BY DEF GoodRow, Row, Service
<1> HIDE DEF r1, r2, r3
<1> QED
  BY <1>2, <1>3, <1>4, <1>5, <1>6 DEF Keeps

LEMMA PlaceRowKeeps ==
    ASSUME NEW row, GoodRow(row), NEW pick
    PROVE  /\ Keeps(row, PlaceRow(row, pick))
           /\ \A t \in Tier : PlaceRow(row, pick)[t].version = row[t].version
<1>1. \A t \in Tier : row[t] \in Service /\ row[t].version \in Nat
  BY DEF GoodRow, Row, Service
<1>2. ASSUME NEW t \in Tier
      PROVE  /\ PlaceRow(row, pick)[t].version = row[t].version
             /\ PlaceRow(row, pick)[t].status = row[t].status
  BY <1>1, <1>2 DEF PlaceRow, Service
<1> QED
  BY <1>1, <1>2 DEF Keeps

LEMMA ReportRowKeeps ==
    ASSUME NEW row, GoodRow(row), NEW c \in Clusters, NEW v, NEW s, NEW now
    PROVE  LET new == ReportRow(row, c, v, s, now)
           IN  \A t \in Tier :
                  /\ new[t].version = row[t].version
                  /\ \/ new[t].status = row[t].status
                     \/ new[t].status = [state |-> s, from |-> c, ver |-> v]
<1>1. ReportedTier(row, c) \in Tier
  BY DEF ReportedTier, Tier
<1>2. row \in [Tier -> Service]
  BY DEF GoodRow, Row
<1> QED
  BY <1>1, <1>2 DEF ReportRow, Service

-----------------------------------------------------------------------------
(* What a step does to the table, whoever takes it: rows stay good,        *)
(* versions move forward, and an id is given out once.                     *)
Moves ==
    /\ kb' \in [Apps -> Row \cup {NoRow}] /\ form' \in [Apps -> Form]
    /\ created \subseteq created' /\ created' \subseteq Apps
    /\ nextVersion' \in 1 .. MaxVersion + 1 /\ nextVersion <= nextVersion'
    /\ RowInv'
    /\ \A a \in Apps : kb'[a] # NoRow =>
          IF kb[a] = NoRow
          THEN a \notin created
          ELSE \A t \in Tier : kb[a][t].version <= kb'[a][t].version

(* A state that says a version runs was in the row, or is of a version     *)
(* that was applied.                                                       *)
Truthful ==
    \A a \in Apps, t \in Tier : kb'[a] # NoRow /\ kb'[a][t].status.state \in Runs =>
        \/ kb[a] # NoRow /\ kb'[a][t].status = kb[a][t].status
        \/ [app |-> a, ver |-> kb'[a][t].status.ver] \in applied[kb'[a][t].status.from]

(* One row is replaced, and nothing else of the table but its form, by a   *)
(* row that may follow it there.                                           *)
Replaces(a, row) ==
    /\ kb' = [kb EXCEPT ![a] = row] /\ form' \in [Apps -> Form]
    /\ created' = created \/ created' = created \cup {a}
    /\ nextVersion' \in 1 .. MaxVersion + 1 /\ nextVersion <= nextVersion'

Follows(a, row) ==
    /\ GoodRow(row) /\ a \in created'
    /\ \A t \in Tier : row[t].version < nextVersion'
    /\ IF kb[a] = NoRow
       THEN a \notin created /\ \A t \in Tier : row[t].status = NoStatus
       ELSE Keeps(kb[a], row)

LEMMA RowMoves ==
    ASSUME Types, NEW a \in Apps, NEW row, Replaces(a, row), row # NoRow => Follows(a, row)
    PROVE  Moves /\ Truthful
<1> USE DEF Replaces, Follows
<1> USE DEF Types
<1>1. row \in Row \cup {NoRow}
  BY DEF GoodRow
<1>2. kb' \in [Apps -> Row \cup {NoRow}] /\ kb'[a] = row
  BY <1>1 DEF TypeOK
<1>3. \A b \in Apps : b # a => kb'[b] = kb[b]
  BY DEF TypeOK
<1>4. \A b \in Apps, t \in Tier : kb[b] # NoRow => kb[b][t].version \in Nat
  BY DEF RowInv, GoodRow, Row, Service
<1>5. nextVersion \in Nat /\ nextVersion' \in Nat
  BY AgentAssumption DEF TypeOK
<1>6. ASSUME NEW b \in Apps, kb'[b] # NoRow
      PROVE  /\ GoodRow(kb'[b]) /\ b \in created'
             /\ \A t \in Tier : kb'[b][t].version < nextVersion'
             /\ IF kb[b] = NoRow
                THEN b \notin created /\ \A t \in Tier : kb'[b][t].status = NoStatus
                ELSE Keeps(kb[b], kb'[b])
  <2>1. CASE b = a
    BY <1>2, <1>6, <2>1
  <2>2. CASE b # a
    <3>1. kb'[b] = kb[b] /\ kb[b] # NoRow
      BY <1>3, <1>6, <2>2
    <3>2. GoodRow(kb[b]) /\ b \in created /\ \A t \in Tier : kb[b][t].version < nextVersion
      BY <3>1 DEF RowInv
    <3>3. \A t \in Tier : kb[b][t].version < nextVersion'
      BY <1>4, <1>5, <3>1, <3>2
    <3>4. Keeps(kb[b], kb[b])
      BY <1>4, <3>1 DEF Keeps
    <3> QED
      BY <3>1, <3>2, <3>3, <3>4
  <2> QED
    BY <2>1, <2>2
<1>7. RowInv'
  BY <1>6 DEF RowInv
<1>8. \A b \in Apps : kb'[b] # NoRow =>
          IF kb[b] = NoRow
          THEN b \notin created
          ELSE \A t \in Tier : kb[b][t].version <= kb'[b][t].version
  BY <1>6 DEF Keeps
<1>9. created \subseteq created' /\ created' \subseteq Apps
  BY DEF TypeOK
<1>10. NoStatus.state \notin Runs
  BY DEF NoStatus, Runs
<1>11. Truthful
  BY <1>6, <1>10 DEF Truthful, Keeps
<1> QED
  BY <1>2, <1>7, <1>8, <1>9, <1>11 DEF Moves

(* What the RLA does by itself.                                            *)
LEMMA LeadMoves ==
    ASSUME Types, Lead
    PROVE  Moves /\ Truthful
<1> USE DEF Types
<1>1. /\ nextVersion \in Nat \ {0} /\ nextVersion <= MaxVersion + 1
      /\ MaxVersion \in Nat
      /\ form \in [Apps -> Form]
      /\ \A a \in Apps : Forms[a] \subseteq Form /\ Blank(a) \in Form
  BY AgentAssumption DEF TypeOK, Blank
<1>2. \A a \in Apps : kb[a] # NoRow =>
          /\ GoodRow(kb[a]) /\ a \in created
          /\ \A t \in Tier : kb[a][t].version < nextVersion
  BY DEF RowInv
<1>3. ASSUME NEW a \in Apps, NEW S, NEW f \in Forms[a], Create(a, S, f)
      PROVE  Moves /\ Truthful
  <2> DEFINE row == NewRow(S, nextVersion)
  <2>1. GoodRow(row)
    BY <1>1, NewRowGood
  <2>2. \A t \in Tier : /\ row[t].version \in {0, nextVersion}
                        /\ row[t].status = NoStatus
    BY DEF NewRow, NewService, NoService
  <2>3. kb[a] = NoRow
    BY <1>2, <1>3 DEF Create
  <2>4. /\ kb' = [kb EXCEPT ![a] = row] /\ form' = [form EXCEPT ![a] = f]
        /\ created' = created \cup {a} /\ a \notin created
        /\ nextVersion' = nextVersion + 1 /\ nextVersion <= MaxVersion
    BY <1>3 DEF Create, Fresh
  <2> HIDE DEF row
  <2>5. \A t \in Tier : row[t].version < nextVersion'
    BY <1>1, <2>2, <2>4
  <2>6. form' \in [Apps -> Form] /\ nextVersion' \in 1 .. MaxVersion + 1
    BY <1>1, <2>4
  <2>7. Replaces(a, row)
    BY <1>1, <2>4, <2>6 DEF Replaces
  <2>8. Follows(a, row)
    BY <2>1, <2>2, <2>3, <2>4, <2>5 DEF Follows
  <2> QED
    BY <2>7, <2>8, RowMoves
<1>4. ASSUME NEW a \in Apps, NEW req \in Requests, NEW f \in Forms[a], Update(a, req, f)
      PROVE  Moves /\ Truthful
  <2> DEFINE row == UpdateRow(kb[a], req, nextVersion)
  <2>1. /\ kb[a] # NoRow /\ kb' = [kb EXCEPT ![a] = row]
        /\ form' = [form EXCEPT ![a] = f] /\ created' = created
        /\ nextVersion' = nextVersion + 1 /\ nextVersion <= MaxVersion
    BY <1>4 DEF Update, SetRow, Fresh
  <2>2. GoodRow(row)
    BY <1>1, <1>2, <2>1, UpdateRowGood DEF Requests
  <2>3. Keeps(kb[a], row) /\ \A t \in Tier : row[t].version <= nextVersion
    BY <1>1, <1>2, <2>1, UpdateRowKeeps
  <2>4. \A t \in Tier : row[t].version \in Nat
    BY <2>2 DEF GoodRow, Row, Service
  <2> HIDE DEF row
  <2>5. \A t \in Tier : row[t].version < nextVersion'
    BY <1>1, <2>1, <2>3, <2>4
  <2>6. form' \in [Apps -> Form] /\ nextVersion' \in 1 .. MaxVersion + 1
    BY <1>1, <2>1
  <2>7. Replaces(a, row)
    BY <1>1, <2>1, <2>6 DEF Replaces
  <2>8. Follows(a, row)
    BY <1>2, <2>1, <2>2, <2>3, <2>5 DEF Follows
  <2> QED
    BY <2>7, <2>8, RowMoves
<1>5. ASSUME NEW a \in Apps, Delete(a)
      PROVE  Moves /\ Truthful
  <2>1. Replaces(a, NoRow)
    BY <1>1, <1>5 DEF Delete, SetRow, Replaces
  <2> QED
    BY <2>1, RowMoves
<1>6. ASSUME NEW a \in Apps, NEW row, kb[a] # NoRow, SetRow(a, row),
             UNCHANGED <<form, nextVersion>>,
             GoodRow(row), Keeps(kb[a], row),
             \A t \in Tier : row[t].version = kb[a][t].version
      PROVE  Moves /\ Truthful
  <2>1. Replaces(a, row)
    BY <1>1, <1>6 DEF SetRow, Replaces
  <2>2. Follows(a, row)
    BY <1>2, <1>6 DEF SetRow, Follows
  <2> QED
    BY <2>1, <2>2, RowMoves
<1>7. ASSUME NEW a \in Apps, NEW p \in Picks, Schedule(a, p)
      PROVE  Moves /\ Truthful
  <2>1. GoodRow(PlaceRow(kb[a], p))
    BY <1>2, <1>7, PlaceRowGood DEF Schedule, Picks
  <2> QED
    BY <1>2, <1>6, <1>7, <2>1, PlaceRowKeeps DEF Schedule
<1>8. ASSUME NEW a \in Apps, Sweep(a)
      PROVE  Moves /\ Truthful
  <2>1. Late \in Nat
    BY TimeoutAssumption DEF Late, Now
  <2>2. GoodRow(SweptRow(kb[a], Late))
    BY <1>2, <1>8, <2>1, SweptRowGood DEF Sweep
  <2> QED
    BY <1>2, <1>6, <1>8, <2>1, <2>2, SweptRowKeeps DEF Sweep
<1> QED
  BY <1>3, <1>4, <1>5, <1>7, <1>8 DEF Lead

(* A report is taken for what the row says of the version that is running: *)
(* of one that was applied, when it says that it runs.                     *)
LEMMA HearMoves ==
    ASSUME Types, NEW c \in Clusters, NEW w \in Workload, NEW s \in Reported,
           s \in Runs => w \in applied[c],
           HearOf(c, w, s), UNCHANGED <<form, created, nextVersion>>
    PROVE  Moves /\ Truthful
<1> USE DEF Types
<1> DEFINE a == w.app
           new == ReportRow(kb[a], c, w.ver, s, Now)
<1>1. a \in Apps /\ w.ver \in Nat /\ w = [app |-> a, ver |-> w.ver]
  BY AgentAssumption DEF Workload, Version
<1>2. CASE Verdict(kb[a], c, w.ver) # "ok"
  <2>1. kb' = kb
    BY <1>2 DEF HearOf
  <2>2. \A b \in Apps, t \in Tier : kb[b] # NoRow => kb[b][t].version \in Nat
    BY DEF RowInv, GoodRow, Row, Service
  <2>3. nextVersion \in Nat
    BY AgentAssumption DEF TypeOK
  <2> QED
    BY <2>1, <2>2, <2>3 DEF Moves, Truthful, TypeOK, RowInv
<1>3. CASE Verdict(kb[a], c, w.ver) = "ok"
  <2>1. kb[a] # NoRow /\ kb' = [kb EXCEPT ![a] = new]
    BY <1>3 DEF HearOf, Verdict
  <2>2. GoodRow(kb[a])
    BY <1>1, <2>1 DEF RowInv
  <2>3. GoodRow(new)
    BY <1>1, <1>3, <2>2, ReportRowGood DEF Now
  <2>4. \A t \in Tier :
            /\ new[t].version = kb[a][t].version
            /\ new[t].status = kb[a][t].status
               \/ new[t].status = [state |-> s, from |-> c, ver |-> w.ver]
    BY <2>2, ReportRowKeeps
  <2> HIDE DEF new
  <2>5. kb' \in [Apps -> Row \cup {NoRow}] /\ kb'[a] = new
    BY <1>1, <2>1, <2>3 DEF TypeOK, GoodRow
  <2>6. \A b \in Apps : b # a => kb'[b] = kb[b]
    BY <2>1 DEF TypeOK
  <2>7. \A b \in Apps, t \in Tier : kb[b] # NoRow =>
            kb[b][t].version \in Nat /\ kb[b][t].version = kb'[b][t].version
    BY <2>4, <2>5, <2>6 DEF RowInv, GoodRow, Row, Service
  <2>8. nextVersion \in Nat
    BY AgentAssumption DEF TypeOK
  <2>9. ASSUME NEW b \in Apps, kb'[b] # NoRow
        PROVE  /\ kb[b] # NoRow /\ GoodRow(kb'[b]) /\ b \in created'
               /\ \A t \in Tier : kb'[b][t].version < nextVersion'
    BY <2>1, <2>3, <2>5, <2>6, <2>7, <2>9 DEF RowInv
  <2>10. RowInv'
    BY <2>9 DEF RowInv
  <2>11. Moves
    BY <2>5, <2>7, <2>8, <2>9, <2>10 DEF Moves, TypeOK
  <2>12. Truthful
    <3>1. ASSUME NEW t \in Tier, new[t].status = [state |-> s, from |-> c, ver |-> w.ver],
                 new[t].status.state \in Runs
          PROVE  [app |-> a, ver |-> new[t].status.ver] \in applied[new[t].status.from]
      BY <1>1, <3>1
    <3> QED
      BY <2>1, <2>4, <2>5, <2>6, <3>1 DEF Truthful
  <2> QED
    BY <2>11, <2>12
<1> QED
  BY <1>2, <1>3

LEMMA NothingMoves ==
    ASSUME Types, UNCHANGED lead
    PROVE  Moves /\ Truthful
<1>1. \A b \in Apps, t \in Tier : kb[b] # NoRow => kb[b][t].version \in Nat
  BY DEF Types, RowInv, GoodRow, Row, Service
<1>2. nextVersion \in Nat
  BY AgentAssumption DEF Types, TypeOK
<1> QED
  BY <1>1, <1>2 DEF Types, Moves, Truthful, TypeOK, RowInv, lead

-----------------------------------------------------------------------------
(* What the agents know is of something applied here: a job past applying, *)
(* a report, a record.                                                     *)
Backed ==
    \A c \in Clusters :
        /\ \A j \in jobs[c] : j.step \in {"progressing", "record"} => What(j) \in applied[c]
        /\ \A p \in reports[c] : What(p) \in applied[c]
        /\ \A n \in Names : records[c][n] # NoRecord => records[c][n] \in applied[c]

(* A version that is no newer than what the row now gives this cluster.    *)
Current(c, w) ==
    /\ w.app \in created
    /\ kb[w.app] # NoRow => w.ver <= kb[w.app][TierOf[c]].version

(* The jobs of a tick are of the offers of one moment, and what runs under *)
(* any name is no newer than a job there is for the same application.      *)
Ordered ==
    \A c \in Clusters :
        /\ "deploy" \in due[c] => jobs[c] = {}
        /\ \A j \in jobs[c] : Current(c, j)
        /\ \A j, k \in jobs[c] : j.app = k.app => j.ver = k.ver
        /\ \A n \in Names : \A w \in running[c][n] :
              /\ Current(c, w)
              /\ \A x \in running[c][n] : w.app = x.app => w.ver = x.ver
              /\ \A j \in jobs[c] : w.app = j.app => w.ver <= j.ver

AgentInv == Types /\ Backed /\ Ordered /\ ReportedWasApplied

LEMMA WhatType ==
    ASSUME NEW g \in Job \cup Report
    PROVE  /\ What(g) \in Workload /\ What(g).app = g.app /\ What(g).ver = g.ver
           /\ g.name \in Names
BY DEF What, Workload, Job, Report

LEMMA OffersType ==
    ASSUME Types, NEW c \in Clusters, NEW j \in Offers(c)
    PROVE  /\ j \in Job /\ j.step = "apply"
           /\ kb[j.app] # NoRow /\ j.app \in created
           /\ j.ver = kb[j.app][TierOf[c]].version
<1> USE DEF Types
<1>1. PICK a \in Apps :
          /\ OfferedTo(kb[a], c)
          /\ j = [app |-> a, ver |-> kb[a][TierOf[c]].version, name |-> form[a].name, step |-> "apply",
                 deadly |-> AsksInVain(a, TierOf[c])]
  BY DEF Offers, OfferedAt
<1>2. /\ TierOf[c] \in Tier /\ c # NoCluster
      /\ kb[a] # NoRow /\ kb[a][TierOf[c]].cluster = c
  BY <1>1, ClustersAssumption DEF OfferedTo
<1>3. /\ GoodRow(kb[a]) /\ a \in created
      /\ kb[a][TierOf[c]].version < nextVersion
  BY <1>2 DEF RowInv
<1>4. kb[a][TierOf[c]].version \in Nat \ {0}
  BY <1>2, <1>3 DEF GoodRow, GoodService, Row, Service
<1>5. kb[a][TierOf[c]].version \in Version
  BY <1>3, <1>4, AgentAssumption DEF TypeOK, Version
<1>6. form[a].name \in Names
  BY DEF TypeOK, Form
<1>7. AsksInVain(a, TierOf[c]) \in BOOLEAN
  BY DEF AsksInVain
<1> QED
  BY <1>1, <1>2, <1>3, <1>5, <1>6, <1>7 DEF Job, JobStep

LEMMA AgentInit == Init => AgentInv
<1> SUFFICES ASSUME Init PROVE AgentInv
  OBVIOUS
<1>1. TypeOK
  <2>1. \A a \in Apps : Blank(a) \in Form
    BY AgentAssumption DEF Blank
  <2> QED
    BY <2>1, AgentAssumption DEF Init, TypeOK
<1>2. RowInv /\ ReportedWasApplied
  BY DEF Init, RowInv, ReportedWasApplied
<1>3. Backed /\ Ordered
  BY DEF Init, Backed, Ordered
<1> QED
  BY <1>1, <1>2, <1>3 DEF AgentInv, Types

(* Whoever takes a step, the table moves forward and stays truthful.       *)
LEMMA TableStep ==
    ASSUME AgentInv, [Next]_vars
    PROVE  Moves /\ Truthful
<1> USE DEF AgentInv
<1>1. CASE Lead
  BY <1>1, LeadMoves
<1>2. CASE UNCHANGED lead
  BY <1>2, NothingMoves
<1>3. ASSUME NEW c \in Clusters, NEW j \in jobs[c],
             NotifyDeployed(c, j) \/ NotifyFailed(c, j)
      PROVE  Moves /\ Truthful
  <2>1. What(j) \in Workload
    BY WhatType DEF Types, TypeOK
  <2>2. PICK s \in {"progressing", "failed"} :
            /\ HearOf(c, What(j), s)
            /\ s \in Runs => What(j) \in applied[c]
    BY <1>3 DEF NotifyDeployed, NotifyFailed, Backed, Runs
  <2>3. s \in Reported /\ UNCHANGED <<form, created, nextVersion>>
    BY <1>3 DEF NotifyDeployed, NotifyFailed, Reported, State
  <2> QED
    BY <2>1, <2>2, <2>3, HearMoves
<1>4. ASSUME NEW c \in Clusters, NEW p \in reports[c], NEW s \in Reported,
             HearOf(c, What(p), s), UNCHANGED <<form, created, nextVersion>>
      PROVE  Moves /\ Truthful
  <2>1. What(p) \in Workload
    BY WhatType DEF Types, TypeOK
  <2>2. What(p) \in applied[c]
    BY DEF Backed
  <2> QED
    BY <1>4, <2>1, <2>2, HearMoves
<1>5. ASSUME NEW c \in Clusters, NEW p \in reports[c], NEW s \in Reported, SendStatus(c, p, s)
      PROVE  Moves /\ Truthful
  BY <1>4, <1>5 DEF SendStatus
<1>6. ASSUME NEW c \in Clusters, NEW p \in reports[c], StatusLost(c, p)
      PROVE  Moves /\ Truthful
  <2>1. \A s \in Healths(c, p.name) : s \in Reported
    BY DEF Healths, Reported, State
  <2> QED
    BY <1>2, <1>4, <1>6, <2>1 DEF StatusLost, lead
<1>7. ASSUME NEW c \in Clusters, Agent(c) \/ Crash(c)
      PROVE  Moves /\ Truthful
  <2>1. CASE Tick(c)
    BY <1>2, <2>1 DEF Tick
  <2>2. CASE \E task \in {"deploy", "status"} : NoAnswer(c, task)
    BY <1>2, <2>2 DEF NoAnswer
  <2>3. CASE DeployScheduledJobs(c)
    BY <1>2, <1>3, <2>3
       DEF DeployScheduledJobs, GetScheduledJobs, OffersPanic, Apply, ApplyFails,
           ApplyPanics, NotifyLost, Record, RecordFails
  <2>4. CASE SendApplicationStatus(c)
    BY <1>2, <1>5, <1>6, <2>4
       DEF SendApplicationStatus, ReadRecords, DeleteNamespace, DeleteRecord, CleanupFails
  <2>5. CASE Crash(c)
    BY <1>2, <2>5 DEF Crash
  <2> QED
    BY <1>7, <2>1, <2>2, <2>3, <2>4, <2>5 DEF Agent
<1>8. CASE UNCHANGED vars
  BY <1>2, <1>8 DEF vars, lead
<1> QED
  BY <1>1, <1>7, <1>8 DEF Next

-----------------------------------------------------------------------------
(* Types.  The table's are in Moves; here are the agents'.                 *)
AgentTypes ==
    /\ records \in [Clusters -> [Names -> Workload \cup {NoRecord}]]
    /\ running \in [Clusters -> [Names -> SUBSET Workload]]
    /\ due \in [Clusters -> SUBSET {"deploy", "status"}]
    /\ jobs \in [Clusters -> SUBSET Job]
    /\ reports \in [Clusters -> SUBSET Report]
    /\ applied \in [Clusters -> SUBSET Workload]
    /\ faults \in 0 .. MaxFaults

LEMMA DeployTypes ==
    ASSUME Types, NEW c \in Clusters, NEW j \in jobs[c],
           \/ Apply(c, j) \/ ApplyFails(c, j) \/ ApplyPanics(c, j)
           \/ NotifyDeployed(c, j) \/ NotifyFailed(c, j) \/ NotifyLost(c, j)
           \/ Record(c, j) \/ RecordFails(c, j)
    PROVE  AgentTypes'
<1> USE DEF Types, TypeOK
<1>1. j \in Job /\ What(j) \in Workload /\ j.name \in Names
  BY WhatType
<1>2. ASSUME NEW step \in JobStep
      PROVE  [j EXCEPT !.step = step] \in Job
  BY <1>1 DEF Job
<1>3. ASSUME Install(c, j.name, What(j))
      PROVE  /\ running' \in [Clusters -> [Names -> SUBSET Workload]]
             /\ applied' \in [Clusters -> SUBSET Workload]
  BY <1>1, <1>3 DEF Install
<1>4. ASSUME NEW step \in JobStep, Proceed(c, j, step)
      PROVE  jobs' \in [Clusters -> SUBSET Job] /\ UNCHANGED <<due, reports, faults>>
  BY <1>2, <1>4 DEF Proceed
<1>5. ASSUME JobEnds(c, j)
      PROVE  jobs' \in [Clusters -> SUBSET Job] /\ UNCHANGED <<due, reports>>
  BY <1>5 DEF JobEnds
<1>6. {"apply", "progressing", "failed", "record"} \subseteq JobStep
  BY DEF JobStep
<1>7. CASE Apply(c, j)
  BY <1>3, <1>4, <1>6, <1>7 DEF Apply, AgentTypes
<1>8. CASE ApplyFails(c, j)
  BY <1>3, <1>4, <1>6, <1>8 DEF ApplyFails, AgentTypes
<1>9. CASE NotifyDeployed(c, j)
  BY <1>4, <1>6, <1>9 DEF NotifyDeployed, AgentTypes
<1>10. CASE NotifyFailed(c, j)
  BY <1>5, <1>10 DEF NotifyFailed, AgentTypes
<1>11. CASE NotifyLost(c, j)
  BY <1>4, <1>5, <1>6, <1>11 DEF NotifyLost, AgentTypes
<1>12. CASE Record(c, j)
  <2>1. records' \in [Clusters -> [Names -> Workload \cup {NoRecord}]]
    BY <1>1, <1>12 DEF Record
  <2> QED
    BY <1>5, <1>12, <2>1 DEF Record, AgentTypes
<1>13. CASE RecordFails(c, j)
  <2>1. faults' \in 0 .. MaxFaults
    BY <1>13, AgentAssumption DEF RecordFails
  <2> QED
    BY <1>5, <1>13, <2>1 DEF RecordFails, AgentTypes
<1>14. CASE ApplyPanics(c, j)
  <2>1. /\ running' \in [Clusters -> [Names -> SUBSET Workload]]
        /\ applied' \in [Clusters -> SUBSET Workload]
    BY <1>3, <1>14 DEF ApplyPanics
  <2> QED
    BY <1>14, <2>1 DEF ApplyPanics, Dies, AgentTypes
<1> QED
  BY <1>7, <1>8, <1>9, <1>10, <1>11, <1>12, <1>13, <1>14

LEMMA StatusTypes ==
    ASSUME Types, NEW c \in Clusters, SendApplicationStatus(c)
    PROVE  AgentTypes'
<1> USE DEF Types, TypeOK
<1>1. ASSUME ReadRecords(c)
      PROVE  AgentTypes'
  <2> DEFINE new == {[app |-> records[c][n].app, ver |-> records[c][n].ver, name |-> n,
                      step |-> "send"] : n \in Recorded(c)}
  <2>1. \A n \in Recorded(c) : n \in Names /\ records[c][n] \in Workload
    BY DEF Recorded
  <2>2. ASSUME NEW n \in Recorded(c)
        PROVE  [app |-> records[c][n].app, ver |-> records[c][n].ver, name |-> n,
                step |-> "send"] \in Report
    <3>1. n \in Names /\ records[c][n].app \in Apps /\ records[c][n].ver \in Version
      BY <2>1 DEF Workload
    <3> QED
      BY <3>1 DEF Report, ReportStep
  <2>3. new \subseteq Report
    BY <2>2
  <2> HIDE DEF new
  <2>4. reports' = [reports EXCEPT ![c] = @ \cup new]
    BY <1>1 DEF ReadRecords, new
  <2>5. reports' \in [Clusters -> SUBSET Report]
    BY <2>3, <2>4
  <2>6. due' \in [Clusters -> SUBSET {"deploy", "status"}]
    BY <1>1 DEF ReadRecords
  <2> QED
    BY <1>1, <2>5, <2>6 DEF ReadRecords, AgentTypes
<1>2. ASSUME NEW p \in reports[c], ReportEnds(c, p)
      PROVE  reports' \in [Clusters -> SUBSET Report] /\ UNCHANGED <<due, jobs>>
  BY <1>2 DEF ReportEnds
<1>3. ASSUME NEW p \in reports[c], NEW step \in ReportStep, ReportGoesOn(c, p, step)
      PROVE  reports' \in [Clusters -> SUBSET Report] /\ UNCHANGED <<due, jobs>>
  <2>1. p \in Report
    OBVIOUS
  <2>2. [p EXCEPT !.step = step] \in Report
    BY <2>1 DEF Report
  <2> QED
    BY <1>3, <2>2 DEF ReportGoesOn
<1>4. {"delete namespace", "delete record"} \subseteq ReportStep
  BY DEF ReportStep
<1>5. ASSUME NEW p \in reports[c]
      PROVE  p.name \in Names
  BY DEF Report
<1>6. ASSUME NEW p \in reports[c], NEW s \in Reported, SendStatus(c, p, s)
      PROVE  AgentTypes'
  BY <1>2, <1>3, <1>4, <1>6 DEF SendStatus, AgentTypes
<1>7. ASSUME NEW p \in reports[c], StatusLost(c, p)
      PROVE  AgentTypes'
  BY <1>2, <1>7 DEF StatusLost, AgentTypes
<1>8. ASSUME NEW p \in reports[c], DeleteNamespace(c, p)
      PROVE  AgentTypes'
  <2>1. running' \in [Clusters -> [Names -> SUBSET Workload]]
    BY <1>5, <1>8 DEF DeleteNamespace
  <2> QED
    BY <1>3, <1>4, <1>8, <2>1 DEF DeleteNamespace, AgentTypes
<1>9. ASSUME NEW p \in reports[c], DeleteRecord(c, p)
      PROVE  AgentTypes'
  <2>1. records' \in [Clusters -> [Names -> Workload \cup {NoRecord}]]
    BY <1>5, <1>9 DEF DeleteRecord
  <2> QED
    BY <1>2, <1>9, <2>1 DEF DeleteRecord, AgentTypes
<1>10. ASSUME NEW p \in reports[c], CleanupFails(c, p)
       PROVE  AgentTypes'
  <2>1. faults' \in 0 .. MaxFaults
    BY <1>10, AgentAssumption DEF CleanupFails
  <2> QED
    BY <1>2, <1>10, <2>1 DEF CleanupFails, AgentTypes
<1> QED
  BY <1>1, <1>6, <1>7, <1>8, <1>9, <1>10 DEF SendApplicationStatus

LEMMA TypesStep == AgentInv /\ [Next]_vars => Types'
<1> SUFFICES ASSUME AgentInv, [Next]_vars PROVE Types'
  OBVIOUS
<1>1. Moves
  BY TableStep
<1>2. AgentTypes
  BY DEF AgentInv, Types, TypeOK, AgentTypes
<1>3. AgentTypes'
  <2>1. ASSUME NEW a \in Apps, NEW row, SetRow(a, row)
        PROVE  AgentTypes'
    BY <1>2, <2>1 DEF SetRow, tasks, AgentTypes
  <2>2. CASE Lead
    BY <1>2, <2>1, <2>2 DEF Lead, Create, Update, Delete, Schedule, Sweep, tasks, AgentTypes
  <2>3. ASSUME NEW c \in Clusters, Tick(c)
        PROVE  AgentTypes'
    BY <1>2, <2>3 DEF Tick, AgentTypes
  <2>4. ASSUME NEW c \in Clusters, NEW task \in {"deploy", "status"}, NoAnswer(c, task)
        PROVE  AgentTypes'
    BY <1>2, <2>4 DEF NoAnswer, AgentTypes
  <2>5. ASSUME NEW c \in Clusters, GetScheduledJobs(c)
        PROVE  AgentTypes'
    <3>1. Offers(c) \subseteq Job
      BY OffersType DEF AgentInv
    <3> QED
      BY <1>2, <2>5, <3>1 DEF GetScheduledJobs, AgentTypes
  <2>6. ASSUME NEW c \in Clusters, OffersPanic(c)
        PROVE  AgentTypes'
    BY <1>2, <2>6 DEF OffersPanic, AgentTypes
  <2>7. ASSUME NEW c \in Clusters, Crash(c)
        PROVE  AgentTypes'
    BY <1>2, <2>7, AgentAssumption DEF Crash, Dies, AgentTypes
  <2>8. CASE UNCHANGED vars
    BY <1>2, <2>8 DEF vars, AgentTypes
  <2> QED
    BY <2>2, <2>3, <2>4, <2>5, <2>6, <2>7, <2>8, DeployTypes, StatusTypes
       DEF AgentInv, Next, Agent, DeployScheduledJobs
<1> QED
  BY <1>1, <1>3 DEF Moves, AgentTypes, Types, TypeOK

LEMMA BackedStep == AgentInv /\ [Next]_vars => Backed'
<1> SUFFICES ASSUME AgentInv, [Next]_vars PROVE Backed'
  OBVIOUS
<1> USE DEF AgentInv
<1>1. Backed /\ TypeOK
  BY DEF Types
<1>2. ASSUME UNCHANGED <<records, jobs, reports, applied>>
      PROVE  Backed'
  BY <1>1, <1>2 DEF Backed, What
<1>3. CASE Lead
  BY <1>2, <1>3 DEF Lead, Create, Update, Delete, Schedule, Sweep, SetRow, tasks
<1>4. ASSUME NEW c \in Clusters, GetScheduledJobs(c)
      PROVE  Backed'
  <2>1. \A j \in Offers(c) : j.step = "apply"
    BY OffersType
  <2> QED
    BY <1>1, <1>4, <2>1 DEF GetScheduledJobs, Backed, TypeOK, What
<1>5. ASSUME NEW c \in Clusters, NEW j \in jobs[c],
             \/ Apply(c, j) \/ ApplyFails(c, j) \/ ApplyPanics(c, j)
             \/ NotifyDeployed(c, j) \/ NotifyFailed(c, j) \/ NotifyLost(c, j)
             \/ Record(c, j) \/ RecordFails(c, j)
      PROVE  Backed'
  <2>1. /\ j \in Job /\ j.name \in Names
        /\ \A step : /\ [j EXCEPT !.step = step].step = step
                     /\ What([j EXCEPT !.step = step]) = What(j)
    BY <1>1, WhatType DEF TypeOK, Job, What
  <2>2. ASSUME Install(c, j.name, What(j))
        PROVE  /\ \A d \in Clusters : applied[d] \subseteq applied'[d]
               /\ What(j) \in applied'[c]
    BY <1>1, <2>2 DEF Install, TypeOK
  <2>3. ASSUME NEW step, Proceed(c, j, step),
               UNCHANGED records, \A d \in Clusters : applied[d] \subseteq applied'[d],
               step \in {"progressing", "record"} => What(j) \in applied'[c]
        PROVE  Backed'
    <3>1. \A d \in Clusters : \A k \in jobs'[d] :
              \/ k \in jobs[d]
              \/ d = c /\ k.step = step /\ What(k) = What(j)
      BY <1>1, <2>1, <2>3 DEF Proceed, TypeOK
    <3> QED
      BY <1>1, <2>3, <3>1 DEF Proceed, Backed, What
  <2>4. ASSUME JobEnds(c, j), UNCHANGED applied,
               records' = records \/ Record(c, j)
        PROVE  Backed'
    <3>1. \A d \in Clusters : jobs'[d] \subseteq jobs[d]
      BY <1>1, <2>4 DEF JobEnds, TypeOK
    <3>2. \A d \in Clusters, n \in Names :
              \/ records'[d][n] = records[d][n]
              \/ records'[d][n] = What(j) /\ d = c /\ j.step = "record"
      BY <1>1, <2>1, <2>4 DEF Record, TypeOK
    <3> QED
      BY <1>1, <2>4, <3>1, <3>2 DEF JobEnds, Backed, What
  <2>5. CASE Apply(c, j)
    BY <2>2, <2>3, <2>5 DEF Apply
  <2>6. CASE ApplyFails(c, j)
    BY <2>2, <2>3, <2>6 DEF ApplyFails
  <2>7. CASE NotifyDeployed(c, j) \/ (NotifyLost(c, j) /\ j.step = "progressing")
    <3>1. What(j) \in applied[c]
      BY <1>1, <2>7 DEF NotifyDeployed, Backed
    <3>2. Proceed(c, j, "record") /\ UNCHANGED <<records, applied>>
      BY <2>7 DEF NotifyDeployed, NotifyLost
    <3> QED
      BY <2>3, <3>1, <3>2
  <2>8. CASE \/ NotifyFailed(c, j) \/ Record(c, j) \/ RecordFails(c, j)
             \/ NotifyLost(c, j) /\ j.step # "progressing"
    BY <2>4, <2>8 DEF NotifyFailed, NotifyLost, Record, RecordFails
  <2>9. CASE ApplyPanics(c, j)
    <3>1. \A d \in Clusters : applied[d] \subseteq applied'[d]
      BY <2>2, <2>9 DEF ApplyPanics
    <3>2. \A d \in Clusters : jobs'[d] \subseteq jobs[d] /\ reports'[d] \subseteq reports[d]
      BY <1>1, <2>9 DEF ApplyPanics, Dies, TypeOK
    <3> QED
      BY <1>1, <2>9, <3>1, <3>2 DEF ApplyPanics, Backed, What
  <2> QED
    BY <1>5, <2>5, <2>6, <2>7, <2>8, <2>9
<1>6. ASSUME NEW c \in Clusters, ReadRecords(c)
      PROVE  Backed'
  <2>1. \A p \in reports'[c] : p \in reports[c] \/
            \E n \in Names : records[c][n] # NoRecord /\ What(p) = records[c][n]
    <3>1. \A n \in Recorded(c) : /\ n \in Names /\ records[c][n] # NoRecord
                                 /\ records[c][n] \in Workload
      BY <1>1 DEF Recorded, TypeOK
    <3>2. ASSUME NEW n \in Recorded(c)
          PROVE  What([app |-> records[c][n].app, ver |-> records[c][n].ver, name |-> n,
                       step |-> "send"]) = records[c][n]
      BY <3>1 DEF What, Workload
    <3>3. reports'[c] = reports[c] \cup
              {[app |-> records[c][n].app, ver |-> records[c][n].ver, name |-> n,
                step |-> "send"] : n \in Recorded(c)}
      BY <1>1, <1>6 DEF ReadRecords, TypeOK
    <3> QED
      BY <3>1, <3>2, <3>3
  <2>2. \A d \in Clusters : d # c => reports'[d] = reports[d]
    BY <1>1, <1>6 DEF ReadRecords, TypeOK
  <2> QED
    BY <1>1, <1>6, <2>1, <2>2 DEF ReadRecords, Backed
<1>7. ASSUME NEW c \in Clusters, NEW p \in reports[c],
             UNCHANGED <<jobs, applied>>,
             \A d \in Clusters, n \in Names :
                records'[d][n] = records[d][n] \/ records'[d][n] = NoRecord,
             ReportEnds(c, p) \/ \E step : ReportGoesOn(c, p, step)
      PROVE  Backed'
  <2>1. \A step : What([p EXCEPT !.step = step]) = What(p)
    <3>1. p \in Report
      BY <1>1 DEF TypeOK
    <3> QED
      BY <3>1 DEF What, Report
  <2>2. \A d \in Clusters : \A q \in reports'[d] :
            q \in reports[d] \/ (d = c /\ What(q) = What(p))
    <3>1. CASE ReportEnds(c, p)
      BY <1>1, <3>1 DEF ReportEnds, TypeOK
    <3>2. ASSUME NEW step, ReportGoesOn(c, p, step)
          PROVE  \A d \in Clusters : \A q \in reports'[d] :
                    q \in reports[d] \/ (d = c /\ What(q) = What(p))
      <4> DEFINE next == [p EXCEPT !.step = step]
      <4>1. What(next) = What(p)
        BY <2>1
      <4> HIDE DEF next
      <4>2. reports' = [reports EXCEPT ![c] = (@ \ {p}) \cup {next}]
        BY <3>2 DEF ReportGoesOn, next
      <4> QED
        BY <1>1, <4>1, <4>2 DEF TypeOK
    <3> QED
      BY <1>7, <3>1, <3>2
  <2> QED
    BY <1>1, <1>7, <2>2 DEF Backed
<1>8. ASSUME NEW c \in Clusters, SendApplicationStatus(c)
      PROVE  Backed'
  <2>1. ASSUME NEW p \in reports[c], NEW s \in Reported, SendStatus(c, p, s)
        PROVE  Backed'
    BY <1>7, <2>1 DEF SendStatus, ReportEnds, ReportGoesOn
  <2>2. ASSUME NEW p \in reports[c], StatusLost(c, p) \/ CleanupFails(c, p)
        PROVE  Backed'
    BY <1>7, <2>2 DEF StatusLost, CleanupFails, ReportEnds
  <2>3. ASSUME NEW p \in reports[c], DeleteNamespace(c, p)
        PROVE  Backed'
    BY <1>7, <2>3 DEF DeleteNamespace, ReportGoesOn
  <2>4. ASSUME NEW p \in reports[c], DeleteRecord(c, p)
        PROVE  Backed'
    <3>1. \A d \in Clusters, n \in Names :
              records'[d][n] = records[d][n] \/ records'[d][n] = NoRecord
      BY <1>1, <2>4 DEF DeleteRecord, TypeOK
    <3> QED
      BY <1>7, <2>4, <3>1 DEF DeleteRecord, ReportEnds
  <2> QED
    BY <1>6, <1>8, <2>1, <2>2, <2>3, <2>4 DEF SendApplicationStatus
<1>9. ASSUME NEW c \in Clusters, Crash(c)
      PROVE  Backed'
  BY <1>1, <1>9 DEF Crash, Dies, Backed, TypeOK, What
<1>10. ASSUME NEW c \in Clusters, \/ Tick(c) \/ OffersPanic(c)
                                \/ \E task \in {"deploy", "status"} : NoAnswer(c, task)
       PROVE  Backed'
  BY <1>2, <1>10 DEF Tick, OffersPanic, NoAnswer
<1>11. CASE UNCHANGED vars
  BY <1>2, <1>11 DEF vars
<1> QED
  BY <1>3, <1>4, <1>5, <1>8, <1>9, <1>10, <1>11 DEF Next, Agent, DeployScheduledJobs

-----------------------------------------------------------------------------
(* Rollouts.  All steps but the one that fetches the offers leave every    *)
(* agent with jobs it had, and put what one of them is of in the place of  *)
(* that application's version before.                                      *)
SameWork(g, h) == g.app = h.app /\ g.ver = h.ver

Stays ==
    \A c \in Clusters :
        /\ "deploy" \in due'[c] => jobs'[c] = {}
        /\ \A k \in jobs'[c] : \E j \in jobs[c] : SameWork(k, j)
        /\ \A n \in Names :
              \/ running'[c][n] \subseteq running[c][n]
              \/ \E j \in jobs[c] :
                    running'[c][n] = {x \in running[c][n] : x.app # j.app} \cup {What(j)}

LEMMA DeployStays ==
    ASSUME TypeOK, Ordered, NEW c \in Clusters, NEW j \in jobs[c],
           \/ Apply(c, j) \/ ApplyFails(c, j) \/ ApplyPanics(c, j)
           \/ NotifyDeployed(c, j) \/ NotifyFailed(c, j) \/ NotifyLost(c, j)
           \/ Record(c, j) \/ RecordFails(c, j)
    PROVE  Stays
<1>1. j \in Job /\ j.name \in Names
  BY WhatType DEF TypeOK
<1>2. \A step : SameWork([j EXCEPT !.step = step], j)
  BY <1>1 DEF Job, SameWork
<1>3. \A d \in Clusters : "deploy" \in due[d] => jobs[d] = {}
  BY DEF Ordered
<1>4. ASSUME NEW step, Proceed(c, j, step)
      PROVE  /\ \A d \in Clusters : "deploy" \in due'[d] => jobs'[d] = {}
             /\ \A d \in Clusters : \A k \in jobs'[d] : \E i \in jobs[d] : SameWork(k, i)
  <2> DEFINE next == [j EXCEPT !.step = step]
  <2>1. SameWork(next, j)
    BY <1>2
  <2> HIDE DEF next
  <2>2. jobs' = [jobs EXCEPT ![c] = (@ \ {j}) \cup {next}] /\ due' = due
    BY <1>4 DEF Proceed, next
  <2>3. /\ \A d \in Clusters : d # c => jobs'[d] = jobs[d]
        /\ jobs'[c] = (jobs[c] \ {j}) \cup {next}
    BY <2>2 DEF TypeOK
  <2> QED
    BY <1>3, <2>1, <2>2, <2>3 DEF SameWork
<1>5. ASSUME JobEnds(c, j)
      PROVE  /\ \A d \in Clusters : "deploy" \in due'[d] => jobs'[d] = {}
             /\ \A d \in Clusters : \A k \in jobs'[d] : \E i \in jobs[d] : SameWork(k, i)
  <2>1. \A d \in Clusters : jobs'[d] \subseteq jobs[d] /\ due' = due
    BY <1>5 DEF JobEnds, TypeOK
  <2> QED
    BY <1>3, <2>1 DEF SameWork
<1>6. ASSUME Install(c, j.name, What(j)) \/ UNCHANGED running
      PROVE  \A d \in Clusters, n \in Names :
                \/ running'[d][n] \subseteq running[d][n]
                \/ \E i \in jobs[d] :
                      running'[d][n] = {x \in running[d][n] : x.app # i.app} \cup {What(i)}
  <2>1. CASE Install(c, j.name, What(j))
    <3>1. What(j).app = j.app
      BY DEF What
    <3>2. running'[c][j.name] = {x \in running[c][j.name] : x.app # j.app} \cup {What(j)}
      BY <1>1, <2>1, <3>1 DEF Install, TypeOK
    <3>3. \A d \in Clusters, n \in Names :
              ~(d = c /\ n = j.name) => running'[d][n] = running[d][n]
      BY <1>1, <2>1 DEF Install, TypeOK
    <3> QED
      BY <3>2, <3>3
  <2>2. CASE UNCHANGED running
    BY <2>2
  <2> QED
    BY <1>6, <2>1, <2>2
<1>7. Install(c, j.name, What(j)) \/ UNCHANGED running
  BY DEF Apply, ApplyFails, ApplyPanics, NotifyDeployed, NotifyFailed, NotifyLost, Record,
         RecordFails
<1>8. JobEnds(c, j) \/ Dies(c) \/ \E step : Proceed(c, j, step)
  BY DEF Apply, ApplyFails, ApplyPanics, NotifyDeployed, NotifyFailed, NotifyLost, Record,
         RecordFails
<1>9. ASSUME Dies(c)
      PROVE  /\ \A d \in Clusters : "deploy" \in due'[d] => jobs'[d] = {}
             /\ \A d \in Clusters : \A k \in jobs'[d] : \E i \in jobs[d] : SameWork(k, i)
  <2>1. \A d \in Clusters : jobs'[d] \subseteq jobs[d] /\ due'[d] \subseteq due[d]
    BY <1>9 DEF Dies, TypeOK
  <2> QED
    BY <1>3, <2>1 DEF SameWork
<1> QED
  BY <1>4, <1>5, <1>6, <1>7, <1>8, <1>9 DEF Stays

LEMMA OthersStay ==
    ASSUME TypeOK, Ordered, [Next]_vars,
           \A c \in Clusters : DeployScheduledJobs(c) => OffersPanic(c)
    PROVE  Stays
<1>1. ASSUME \A c \in Clusters : "deploy" \in due'[c] => "deploy" \in due[c] \/ jobs[c] = {},
             \A c \in Clusters : jobs'[c] \subseteq jobs[c],
             \A c \in Clusters, n \in Names : running'[c][n] \subseteq running[c][n]
      PROVE  Stays
  BY <1>1 DEF Ordered, Stays, SameWork
<1>2. CASE UNCHANGED <<due, jobs, running>>
  BY <1>1, <1>2
<1>3. CASE Lead
  BY <1>2, <1>3 DEF Lead, Create, Update, Delete, Schedule, Sweep, SetRow, tasks
<1>4. ASSUME NEW c \in Clusters, Tick(c)
      PROVE  Stays
  BY <1>1, <1>4 DEF Tick, TypeOK
<1>5. ASSUME NEW c \in Clusters, NEW task \in {"deploy", "status"}, NoAnswer(c, task)
      PROVE  Stays
  BY <1>1, <1>5 DEF NoAnswer, TypeOK
<1>6. ASSUME NEW c \in Clusters, ReadRecords(c)
      PROVE  Stays
  BY <1>1, <1>6 DEF ReadRecords, TypeOK
<1>7. ASSUME NEW c \in Clusters, NEW p \in reports[c], DeleteNamespace(c, p)
      PROVE  Stays
  <2>1. p.name \in Names
    BY WhatType DEF TypeOK
  <2>2. \A d \in Clusters, n \in Names : running'[d][n] \subseteq running[d][n]
    BY <1>7, <2>1 DEF DeleteNamespace, TypeOK
  <2> QED
    BY <1>1, <1>7, <2>2 DEF DeleteNamespace, ReportGoesOn
<1>8. ASSUME NEW c \in Clusters, SendApplicationStatus(c)
      PROVE  Stays
  BY <1>2, <1>6, <1>7, <1>8
     DEF SendApplicationStatus, SendStatus, StatusLost, DeleteRecord, CleanupFails,
         ReportEnds, ReportGoesOn
<1>9. ASSUME NEW c \in Clusters, Crash(c)
      PROVE  Stays
  BY <1>1, <1>9 DEF Crash, Dies, TypeOK
<1>10. CASE UNCHANGED vars
  BY <1>2, <1>10 DEF vars
<1>11. ASSUME NEW c \in Clusters, OffersPanic(c)
       PROVE  Stays
  BY <1>1, <1>11 DEF OffersPanic, TypeOK
<1> QED
  BY <1>3, <1>4, <1>5, <1>8, <1>9, <1>10, <1>11 DEF Next, Agent

(* What is current stays so as the table moves forward.                    *)
LEMMA StaysCurrent ==
    ASSUME Types, Moves, NEW c \in Clusters, NEW w, w.app \in Apps, w.ver \in Nat, Current(c, w)
    PROVE  Current(c, w)'
<1>1. TierOf[c] \in Tier
  BY ClustersAssumption
<1>2. w.app \in created'
  BY DEF Current, Moves
<1>3. ASSUME kb'[w.app] # NoRow
      PROVE  w.ver <= kb'[w.app][TierOf[c]].version
  <2>1. kb[w.app] # NoRow
    BY <1>3 DEF Moves, Current
  <2>2. /\ w.ver <= kb[w.app][TierOf[c]].version
        /\ kb[w.app][TierOf[c]].version <= kb'[w.app][TierOf[c]].version
    BY <1>1, <1>3, <2>1 DEF Moves, Current
  <2>3. kb[w.app][TierOf[c]].version \in Nat /\ kb'[w.app][TierOf[c]].version \in Nat
    BY <1>1, <1>3, <2>1 DEF Types, Moves, RowInv, GoodRow, Row, Service
  <2> QED
    BY <2>2, <2>3
<1> QED
  BY <1>2, <1>3 DEF Current

LEMMA OrderedKept ==
    ASSUME Types, Types', Moves, Ordered, Stays
    PROVE  Ordered'
<1>1. ASSUME NEW c \in Clusters
      PROVE  /\ \A j \in jobs[c] : j.app \in Apps /\ j.ver \in Nat
             /\ \A n \in Names : \A w \in running[c][n] : w.app \in Apps /\ w.ver \in Nat
  <2>1. /\ \A j \in jobs[c] : j \in Job
        /\ \A n \in Names : \A w \in running[c][n] : w \in Workload
    BY DEF Types, TypeOK
  <2> QED
    BY <2>1, AgentAssumption DEF Job, Workload, Version
<1>2. ASSUME NEW c \in Clusters, NEW k \in jobs'[c]
      PROVE  \E j \in jobs[c] : SameWork(k, j)
  BY DEF Stays
<1>3. ASSUME NEW c \in Clusters, NEW n \in Names, NEW w \in running'[c][n]
      PROVE  \/ w \in running[c][n]
             \/ \E j \in jobs[c] :
                   /\ SameWork(w, j)
                   /\ running'[c][n] = {x \in running[c][n] : x.app # j.app} \cup {What(j)}
  <2>1. \A j : SameWork(What(j), j)
    BY DEF SameWork, What
  <2> QED
    BY <2>1 DEF Stays
<1>4. ASSUME NEW c \in Clusters, NEW j \in jobs[c]
      PROVE  Current(c, j)'
  BY <1>1, StaysCurrent DEF Ordered
<1>5. ASSUME NEW c \in Clusters, NEW k \in jobs'[c]
      PROVE  Current(c, k)'
  <2>1. PICK j \in jobs[c] : SameWork(k, j)
    BY <1>2
  <2> QED
    BY <1>4, <2>1 DEF Current, SameWork
<1>6. ASSUME NEW c \in Clusters, NEW j \in jobs'[c], NEW k \in jobs'[c], j.app = k.app
      PROVE  j.ver = k.ver
  BY <1>2, <1>6 DEF SameWork, Ordered
<1>7. ASSUME NEW c \in Clusters, NEW n \in Names, NEW w \in running'[c][n]
      PROVE  Current(c, w)'
  <2>1. CASE w \in running[c][n]
    BY <1>1, <2>1, StaysCurrent DEF Ordered
  <2>2. ASSUME NEW j \in jobs[c], SameWork(w, j)
        PROVE  Current(c, w)'
    BY <1>4, <2>2 DEF Current, SameWork
  <2> QED
    BY <1>3, <2>1, <2>2
<1>8. ASSUME NEW c \in Clusters, NEW n \in Names, NEW w \in running'[c][n],
             NEW x \in running'[c][n], w.app = x.app
      PROVE  w.ver = x.ver
  <2>1. \A j : What(j).app = j.app
    BY DEF What
  <2>2. CASE running'[c][n] \subseteq running[c][n]
    BY <1>8, <2>2 DEF Ordered
  <2>3. ASSUME NEW j \in jobs[c],
               running'[c][n] = {y \in running[c][n] : y.app # j.app} \cup {What(j)}
        PROVE  w.ver = x.ver
    BY <1>8, <2>1, <2>3 DEF Ordered
  <2> QED
    BY <2>2, <2>3 DEF Stays
<1>9. ASSUME NEW c \in Clusters, NEW n \in Names, NEW w \in running'[c][n],
             NEW k \in jobs'[c], w.app = k.app
      PROVE  w.ver <= k.ver
  <2>1. PICK j \in jobs[c] : SameWork(k, j)
    BY <1>2
  <2>2. CASE w \in running[c][n]
    BY <1>9, <2>1, <2>2 DEF Ordered, SameWork
  <2>3. ASSUME NEW i \in jobs[c], SameWork(w, i)
        PROVE  w.ver <= k.ver
    <3>1. w.ver = k.ver /\ i.ver = w.ver /\ i.ver \in Nat
      BY <1>1, <1>9, <2>1, <2>3 DEF Ordered, SameWork
    <3> QED
      BY <3>1
  <2> QED
    BY <1>3, <2>2, <2>3
<1> QED
  BY <1>5, <1>6, <1>7, <1>8, <1>9 DEF Ordered, Stays

(* The offers are fetched when no job is left of the tick before: each is  *)
(* of what the row says now, which what runs here is no newer than.        *)
LEMMA OffersOrdered ==
    ASSUME Types, Ordered, NEW c \in Clusters, GetScheduledJobs(c)
    PROVE  Ordered'
<1>1. jobs[c] = {}
  BY DEF GetScheduledJobs, Ordered
<1>2. /\ \A d \in Clusters : d # c => jobs'[d] = jobs[d] /\ due'[d] = due[d]
      /\ jobs'[c] = Offers(c) /\ "deploy" \notin due'[c]
      /\ UNCHANGED <<kb, created, running>>
  BY <1>1 DEF GetScheduledJobs, lead, Types, TypeOK
<1>3. ASSUME NEW j \in Offers(c)
      PROVE  /\ j.app \in created /\ kb[j.app] # NoRow
             /\ j.ver = kb[j.app][TierOf[c]].version /\ j.ver \in Nat
  BY OffersType, AgentAssumption DEF Job, Version
<1>4. ASSUME NEW j \in Offers(c)
      PROVE  Current(c, j)
  BY <1>3 DEF Current
<1>5. \A j, k \in Offers(c) : j.app = k.app => j.ver = k.ver
  BY <1>3
<1>6. ASSUME NEW j \in Offers(c), NEW n \in Names, NEW w \in running[c][n], w.app = j.app
      PROVE  w.ver <= j.ver
  BY <1>3, <1>6 DEF Ordered, Current
<1>7. ASSUME NEW d \in Clusters
      PROVE  /\ "deploy" \in due'[d] => jobs'[d] = {}
             /\ \A j \in jobs'[d] : Current(d, j)
             /\ \A j, k \in jobs'[d] : j.app = k.app => j.ver = k.ver
             /\ \A n \in Names : \A w \in running[d][n] :
                   \A j \in jobs'[d] : w.app = j.app => w.ver <= j.ver
  <2>1. CASE d = c
    BY <1>2, <1>4, <1>5, <1>6, <2>1
  <2>2. CASE d # c
    BY <1>2, <2>2 DEF Ordered
  <2> QED
    BY <2>1, <2>2
<1>8. \A d \in Clusters : \A w : Current(d, w)' <=> Current(d, w)
  BY <1>2 DEF Current
<1> QED
  BY <1>2, <1>7, <1>8 DEF Ordered

LEMMA StaysOrOffers ==
    AgentInv /\ [Next]_vars => Stays \/ \E c \in Clusters : GetScheduledJobs(c)
BY DeployStays, OthersStay DEF AgentInv, Types, DeployScheduledJobs

LEMMA OrderedStep == AgentInv /\ [Next]_vars => Ordered'
BY StaysOrOffers, OffersOrdered, OrderedKept, TypesStep, TableStep DEF AgentInv

-----------------------------------------------------------------------------
(* A state is reported for what was applied, and what was applied stays so.*)
LEMMA ReportedStep == AgentInv /\ [Next]_vars => ReportedWasApplied'
<1> SUFFICES ASSUME AgentInv, [Next]_vars PROVE ReportedWasApplied'
  OBVIOUS
<1>1. Truthful
  BY TableStep
<1>2. TypeOK
  BY DEF AgentInv, Types
<1>3. \A c \in Clusters : applied[c] \subseteq applied'[c]
  <2>1. CASE UNCHANGED applied
    BY <2>1
  <2>2. ASSUME NEW c \in Clusters, NEW j \in jobs[c], Install(c, j.name, What(j))
        PROVE  \A d \in Clusters : applied[d] \subseteq applied'[d]
    BY <1>2, <2>2 DEF Install, TypeOK
  <2>3. CASE Lead
    BY <2>1, <2>3 DEF Lead, Create, Update, Delete, Schedule, Sweep, SetRow
  <2>4. ASSUME NEW c \in Clusters, DeployScheduledJobs(c)
        PROVE  \A d \in Clusters : applied[d] \subseteq applied'[d]
    BY <2>1, <2>2, <2>4
       DEF DeployScheduledJobs, GetScheduledJobs, OffersPanic, Apply, ApplyFails,
           ApplyPanics, NotifyDeployed, NotifyFailed, NotifyLost, Record, RecordFails
  <2>5. ASSUME NEW c \in Clusters, SendApplicationStatus(c)
        PROVE  UNCHANGED applied
    BY <2>5
       DEF SendApplicationStatus, ReadRecords, SendStatus, StatusLost, DeleteNamespace,
           DeleteRecord, CleanupFails
  <2>6. ASSUME NEW c \in Clusters,
               Tick(c) \/ Crash(c) \/ \E task \in {"deploy", "status"} : NoAnswer(c, task)
        PROVE  UNCHANGED applied
    BY <2>6 DEF Tick, NoAnswer, Crash
  <2>7. CASE UNCHANGED vars
    BY <2>7 DEF vars
  <2> QED
    BY <2>1, <2>3, <2>4, <2>5, <2>6, <2>7 DEF Next, Agent
<1>4. ASSUME NEW a \in Apps, kb'[a] # NoRow, NEW t \in Tier, kb'[a][t].status.state \in Runs
      PROVE  [app |-> a, ver |-> kb'[a][t].status.ver] \in applied'[kb'[a][t].status.from]
  <2> DEFINE st == kb'[a][t].status
  <2>1. kb'[a] \in Row /\ GoodService(t, kb'[a][t])
    BY <1>4, TypesStep DEF Types, RowInv, GoodRow
  <2>2. st.from \in Clusters
    <3>1. st.state # "NULL"
      BY <1>4 DEF Runs
    <3>2. st.from = kb'[a][t].cluster /\ kb'[a][t].cluster # NoCluster
      BY <2>1, <3>1 DEF GoodService
    <3>3. kb'[a][t].cluster \in Clusters \cup {NoCluster}
      BY <2>1 DEF Row, Service
    <3> QED
      BY <3>2, <3>3
  <2>3. [app |-> a, ver |-> st.ver] \in applied[st.from]
    BY <1>1, <1>4 DEF Truthful, AgentInv, ReportedWasApplied, Runs
  <2> HIDE DEF st
  <2> QED
    BY <1>3, <2>2, <2>3 DEF st
<1> QED
  BY <1>4 DEF ReportedWasApplied, Runs

LEMMA AgentStep == AgentInv /\ [Next]_vars => AgentInv'
BY TypesStep, BackedStep, OrderedStep, ReportedStep DEF AgentInv

(* The table, the ConfigMaps, the namespaces and the goroutines keep their *)
(* types, whatever is lost, fails or crashes.                              *)
THEOREM AgentTypeCorrect == Spec => []TypeOK
<1>1. AgentInv => TypeOK
  BY DEF AgentInv, Types
<1> QED
  BY AgentInit, AgentStep, <1>1, PTL DEF Spec

(* DeployScheduledJobs and SendApplicationStatus tell the RLA that a       *)
(* version runs only after it was applied on the cluster that says so.     *)
THEOREM ReportsSafe == Spec => []ReportedWasApplied
<1>1. AgentInv => ReportedWasApplied
  BY DEF AgentInv
<1> QED
  BY AgentInit, AgentStep, <1>1, PTL DEF Spec

(* No offer fetched earlier is applied over a version applied since.       *)
LEMMA RolloutStep ==
    AgentInv /\ [Next]_vars =>
        \A c \in Clusters, n \in Names :
            \A w \in running[c][n], x \in running'[c][n] : w.app = x.app => x.ver >= w.ver
<1> SUFFICES ASSUME AgentInv, [Next]_vars, NEW c \in Clusters, NEW n \in Names,
                    NEW w \in running[c][n], NEW x \in running'[c][n], w.app = x.app
             PROVE  x.ver >= w.ver
  OBVIOUS
<1>1. w.ver \in Nat /\ x.ver \in Nat
  <2>1. TypeOK /\ TypeOK'
    BY TypesStep DEF AgentInv, Types
  <2>2. w \in Workload /\ x \in Workload
    BY <2>1 DEF TypeOK
  <2> QED
    BY <2>2, AgentAssumption DEF Workload, Version
<1>2. CASE x \in running[c][n]
  BY <1>1, <1>2 DEF AgentInv, Ordered
<1>3. ASSUME NEW j \in jobs[c], x = What(j)
      PROVE  x.ver >= w.ver
  <2>1. x.app = j.app /\ x.ver = j.ver
    BY <1>3 DEF What
  <2> QED
    BY <1>1, <2>1 DEF AgentInv, Ordered
<1>4. CASE Stays
  BY <1>2, <1>3, <1>4 DEF Stays
<1>5. CASE \E d \in Clusters : GetScheduledJobs(d)
  BY <1>2, <1>5 DEF GetScheduledJobs
<1> QED
  BY <1>4, <1>5, StaysOrOffers

(* The jobs of a tick end before the next tick fetches its offers, so what *)
(* runs under a name is never replaced by an older version.                *)
THEOREM RolloutsSafe == Spec => RolloutsMoveForward
<1> QED
  BY AgentInit, AgentStep, RolloutStep, PTL DEF Spec, RolloutsMoveForward
=============================================================================
