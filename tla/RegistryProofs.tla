--------------------------- MODULE RegistryProofs ---------------------------
(***************************************************************************)
(* LeadAgent implements AppRegistry as long as one operation at a time has *)
(* rows read and not yet saved.  What deletes, updates and placements may  *)
(* not do follows with it.                                                 *)
(*                                                                         *)
(* A read and its saves are several steps, and processes, leaders and the  *)
(* clock move in between.  The invariant says of each row in hand that it  *)
(* may still follow the row in the table by one operation of the registry: *)
(* no other operation can have changed that row, and time only makes       *)
(* heartbeats older.                                                       *)
(***************************************************************************)
EXTENDS LeadAgentProofs, FiniteSetTheorems

(* The operations of the registry, as what they make of a row.             *)
IsUpdate(old, new) ==
    \E T \in SUBSET Tier, v \in 1 .. MaxVersion, replace \in BOOLEAN :
        /\ \A t \in Tier : v > old[t].version
        /\ replace => {t \in Tier : old[t].svc} \subseteq T
        /\ new = [t \in Tier |->
               IF t \in T
               THEN [NewService(v) EXCEPT
                       !.cluster = IF replace THEN NoCluster ELSE old[t].cluster]
               ELSE old[t]]

IsReport(old, new, time) ==
    \E t \in Tier, s \in Reported, now \in 1 .. time :
        /\ now >= old[t].hb
        /\ old[t].cluster # NoCluster
        /\ new = [old EXCEPT
               ![t].status = [state |-> s, from |-> old[t].cluster, ver |-> old[t].version],
               ![t].hb     = now]

IsPlacement(old, new) ==
    \E where \in [Tier -> Clusters \cup {NoCluster}] :
        /\ \A t \in Pending(old) : where[t] # NoCluster /\ TierOf[where[t]] = t
        /\ new = PlaceRow(old, where)

IsEviction(old, new, time) ==
    \E T \in (SUBSET Tier) \ {{}} :
        /\ \A t \in T : /\ old[t].status.state \in {"healthy", "progressing"}
                        /\ old[t].hb + HeartbeatTimeout < time
        /\ new = [t \in Tier |-> IF t \in T THEN NewService(old[t].version) ELSE old[t]]

RowFollows(old, new, time) ==
    /\ old # NoRow
    /\ \/ IsUpdate(old, new)
       \/ IsReport(old, new, time)
       \/ IsPlacement(old, new)
       \/ IsEviction(old, new, time)

(* Its versions were given out, and its heartbeats are not of the future.  *)
Young(row, fresh, time) == \A t \in Tier : row[t].version < fresh /\ row[t].hb <= time

OneAtATime == \A p, q \in Overlapping : p = q

OthersHoldNothing ==
    \A r \in RLAs, k \in Task : phase[r][k] # "saving" => todo[r][k] = Nothing

RowsInHandFollow ==
    \A r \in RLAs, k \in Task, a \in Apps : todo[r][k][a] # NoRow =>
        /\ RowFollows(kb[a], todo[r][k][a], clock)
        /\ Young(todo[r][k][a], nextVersion, clock)

TableIsYoung ==
    \A a \in Apps : kb[a] # NoRow => a \in created /\ Young(kb[a], nextVersion, clock)

SerialInv ==
    IInv /\ OneAtATime /\ OthersHoldNothing /\ RowsInHandFollow /\ TableIsYoung

-----------------------------------------------------------------------------
(* What each handler makes of a row is one operation of the registry.      *)
LEMMA UpdateFollows ==
    ASSUME IInv, NEW old, GoodRow(old), Young(old, nextVersion, clock),
           NEW req \in RestRequest,
           nextVersion <= MaxVersion
    PROVE  /\ IsUpdate(old, UpdateRow(old, req, nextVersion))
           /\ \A t \in Tier : LET x == UpdateRow(old, req, nextVersion)[t]
                              IN  x.version <= nextVersion /\ x.hb <= clock
<1> DEFINE new == UpdateRow(old, req, nextVersion)
           T == {t \in Tier : Touches(req, old, t)}
<1>1. nextVersion \in 1 .. MaxVersion /\ clock \in Nat \ {0} /\ MaxVersion \in Nat
  BY LeadAgentAssumption DEF IInv, TypeOK
<1>2. req.qos \in BOOLEAN /\ req.qos = req.meta
  BY DEF RestRequest, Request
<1>3. ASSUME NEW t \in Tier
      PROVE  /\ old[t].version \in Nat /\ old[t].version < nextVersion /\ old[t].hb <= clock
             /\ old[t].cluster # NoCluster => old[t].svc
  BY DEF GoodRow, GoodService, Row, Service, Young
<1>4. req.qos => {t \in Tier : old[t].svc} \subseteq T
  BY <1>2 DEF Touches
<1>5. new = [t \in Tier |->
               IF t \in T
               THEN [NewService(nextVersion) EXCEPT
                       !.cluster = IF req.qos THEN NoCluster ELSE old[t].cluster]
               ELSE old[t]]
  <2>1. ASSUME NEW t \in Tier
        PROVE  (IF req.qos /\ old[t].svc THEN NoCluster ELSE old[t].cluster)
                 = (IF req.qos THEN NoCluster ELSE old[t].cluster)
    BY <1>2, <1>3
  <2> QED
    BY <2>1 DEF UpdateRow
<1>6. IsUpdate(old, new)
  <2>1. /\ T \in SUBSET Tier /\ nextVersion \in 1 .. MaxVersion /\ req.qos \in BOOLEAN
        /\ \A t \in Tier : nextVersion > old[t].version
    BY <1>1, <1>2, <1>3
  <2> HIDE DEF new, T
  <2> QED
    BY <1>4, <1>5, <2>1 DEF IsUpdate
<1>7. ASSUME NEW t \in Tier
      PROVE  new[t].version <= nextVersion /\ new[t].hb <= clock
  <2>1. CASE t \in T
    <3>1. new[t].version = nextVersion /\ new[t].hb = 0
      BY <2>1 DEF UpdateRow, NewService, NoService
    <3> QED
      BY <1>1, <3>1
  <2>2. CASE t \notin T
    BY <1>1, <1>3, <2>2 DEF UpdateRow
  <2> QED
    BY <2>1, <2>2
<1> QED
  BY <1>6, <1>7

LEMMA ReportFollows ==
    ASSUME IInv, NEW old, GoodRow(old), Young(old, nextVersion, clock),
           NEW c \in Clusters, NEW v \in Nat,
           NEW s \in Reported, Verdict(old, c, v) = "ok"
    PROVE  /\ IsReport(old, ReportRow(old, c, v, s, clock), clock)
           /\ Young(ReportRow(old, c, v, s, clock), nextVersion, clock)
<1> DEFINE new == ReportRow(old, c, v, s, clock)
           t == ReportedTier(old, c)
<1>1. clock \in Nat \ {0} /\ old \in [Tier -> Service]
  BY DEF IInv, TypeOK, GoodRow, Row
<1>2. t \in Tier /\ old[t].cluster = c /\ old[t].version = v /\ c # NoCluster
  BY ClustersAssumption DEF Verdict, PlacedOn, ReportedTier, Tier
<1> HIDE DEF t
<1>3. new = [old EXCEPT ![t].status = [state |-> s, from |-> c, ver |-> v], ![t].hb = clock]
  BY DEF ReportRow, t
<1>4. IsReport(old, new, clock)
  <2>1. clock >= old[t].hb /\ clock \in 1 .. clock
    BY <1>1, <1>2 DEF Young, Service
  <2>2. new = [old EXCEPT
            ![t].status = [state |-> s, from |-> old[t].cluster, ver |-> old[t].version],
            ![t].hb     = clock]
    BY <1>2, <1>3
  <2> HIDE DEF new
  <2> QED
    BY <1>2, <2>1, <2>2 DEF IsReport
<1>5. \A u \in Tier : /\ new[u].version = old[u].version
                      /\ new[u].hb = old[u].hb \/ new[u].hb = clock
  BY <1>1, <1>2, <1>3 DEF Service
<1> QED
  BY <1>1, <1>4, <1>5 DEF Young

LEMMA PlaceFollows ==
    ASSUME NEW old, GoodRow(old), Young(old, nextVersion, clock),
           NEW pick \in Pick,
           Pending(PlaceRow(old, pick)) = {}
    PROVE  /\ IsPlacement(old, PlaceRow(old, pick))
           /\ Young(PlaceRow(old, pick), nextVersion, clock)
<1> DEFINE new == PlaceRow(old, pick)
<1>1. \A t \in Tier : old[t] \in Service
  BY DEF GoodRow, Row
<1>2. pick \in [Tier -> Clusters \cup {NoCluster}]
  BY DEF Pick
<1>3. ASSUME NEW t \in Pending(old)
      PROVE  pick[t] # NoCluster /\ TierOf[pick[t]] = t
  <2>1. t \in Tier /\ old[t].svc
    BY DEF Pending
  <2>2. new[t].svc = old[t].svc /\ new[t].cluster = pick[t]
    BY <1>1, <2>1 DEF PlaceRow, Service
  <2>3. pick[t] # NoCluster
    BY <2>1, <2>2 DEF Pending
  <2> QED
    BY <1>2, <2>1, <2>3 DEF Pick
<1>4. \A t \in Tier : new[t].version = old[t].version /\ new[t].hb = old[t].hb
  BY <1>1 DEF PlaceRow, Service
<1> QED
  BY <1>2, <1>3, <1>4 DEF IsPlacement, Young

LEMMA ServiceEqual ==
    ASSUME NEW x \in Service, NEW y \in Service, x.svc <=> y.svc, x.version = y.version,
           x.cluster = y.cluster, x.status = y.status, x.hb = y.hb
    PROVE  x = y
BY DEF Service

(* The sweep looks at one tier after the other, and at each by itself as   *)
(* far as its own columns go.                                              *)
LEMMA EvictTierFollows ==
    ASSUME NEW row, GoodRow(row), NEW u \in Tier, NEW now
    PROVE  /\ \A t \in Tier : t # u => EvictTier(row, u, now)[t] = row[t]
           /\ \/ EvictTier(row, u, now)[u] = row[u]
              \/ /\ row[u].status.state \in {"healthy", "progressing"}
                 /\ row[u].hb + HeartbeatTimeout < now
                 /\ EvictTier(row, u, now)[u] = NewService(row[u].version)
<1>1. row \in [Tier -> Service] /\ row[u] \in Service /\ GoodService(u, row[u])
  BY DEF GoodRow, Row
<1>2. CASE Evictable(row, u, now)
  <2>1. /\ row[u].status.state \in {"healthy", "progressing"}
        /\ row[u].hb + HeartbeatTimeout < now
    BY <1>1, <1>2 DEF Evictable, Service, Status, State
  <2>2. row[u].svc = TRUE
    BY <1>1, <2>1 DEF GoodService, Service
  <2>3. EvictTier(row, u, now)[u] =
            [row[u] EXCEPT !.cluster = NoCluster, !.status = NoStatus, !.hb = 0]
    BY <1>1, <1>2 DEF EvictTier
  <2>4. EvictTier(row, u, now)[u] = NewService(row[u].version)
    <3> DEFINE x == EvictTier(row, u, now)[u]
    <3>1. x \in Service /\ NewService(row[u].version) \in Service
      <4>1. NoStatus \in Status
        BY DEF NoStatus, Status, State
      <4>2. x = [svc |-> row[u].svc, version |-> row[u].version, cluster |-> NoCluster,
                 status |-> NoStatus, hb |-> 0]
        BY <1>1, <2>3 DEF Service
      <4>3. row[u].version \in Nat \ {0}
        BY <1>1, <2>2 DEF GoodService, Service
      <4>4. NewService(row[u].version) \in Service
        BY <4>3, NewServiceGood
      <4> HIDE DEF x
      <4> QED
        BY <1>1, <4>1, <4>2, <4>4 DEF Service
    <3>2. x.svc /\ NewService(row[u].version).svc
      BY <1>1, <2>2, <2>3 DEF NewService, NoService, Service
    <3>3. /\ x.version = row[u].version /\ x.cluster = NoCluster
          /\ x.status = NoStatus /\ x.hb = 0
      BY <1>1, <2>3 DEF Service
    <3>4. /\ NewService(row[u].version).version = row[u].version
          /\ NewService(row[u].version).cluster = NoCluster
          /\ NewService(row[u].version).status = NoStatus
          /\ NewService(row[u].version).hb = 0
      BY DEF NewService, NoService
    <3> HIDE DEF x
    <3> QED
      BY <3>1, <3>2, <3>3, <3>4, ServiceEqual DEF x
  <2>5. \A t \in Tier : t # u => EvictTier(row, u, now)[t] = row[t]
    BY <1>1, <1>2 DEF EvictTier
  <2> QED
    BY <2>1, <2>4, <2>5
<1>3. CASE ~Evictable(row, u, now)
  BY <1>3 DEF EvictTier
<1> QED
  BY <1>2, <1>3

LEMMA SweepFollows ==
    ASSUME IInv, NEW old, GoodRow(old), Young(old, nextVersion, clock),
           SweptRow(old, clock) # old
    PROVE  /\ IsEviction(old, SweptRow(old, clock), clock)
           /\ Young(SweptRow(old, clock), nextVersion, clock)
<1> DEFINE r1 == EvictTier(old, "cloud", clock)
           r2 == EvictTier(r1, "fog", clock)
           r3 == EvictTier(r2, "edge", clock)
           T == {t \in Tier : r3[t] # old[t]}
<1>1. Tier = {"cloud", "fog", "edge"} /\ clock \in Nat
  BY DEF Tier, IInv, TypeOK
<1>2. GoodRow(r1) /\ GoodRow(r2) /\ GoodRow(r3)
  BY <1>1, EvictTierGood
<1>3. SweptRow(old, clock) = r3
  BY DEF SweptRow
<1>4. /\ r1["fog"] = old["fog"] /\ r1["edge"] = old["edge"]
      /\ r2["cloud"] = r1["cloud"] /\ r2["edge"] = r1["edge"]
      /\ r3["cloud"] = r2["cloud"] /\ r3["fog"] = r2["fog"]
  BY <1>1, <1>2, EvictTierFollows
<1>5. ASSUME NEW t \in Tier
      PROVE  \/ r3[t] = old[t]
             \/ /\ old[t].status.state \in {"healthy", "progressing"}
                /\ old[t].hb + HeartbeatTimeout < clock
                /\ r3[t] = NewService(old[t].version)
  <2>1. CASE t = "cloud"
    BY <1>1, <1>4, <2>1, EvictTierFollows
  <2>2. CASE t = "fog"
    BY <1>1, <1>2, <1>4, <2>2, EvictTierFollows
  <2>3. CASE t = "edge"
    BY <1>1, <1>2, <1>4, <2>3, EvictTierFollows
  <2> QED
    BY <1>1, <2>1, <2>2, <2>3
<1>6. old = [t \in Tier |-> old[t]] /\ r3 = [t \in Tier |-> r3[t]]
  BY <1>2 DEF GoodRow, Row
<1> HIDE DEF r1, r2, r3
<1>7. T # {}
  BY <1>3, <1>6
<1>8. r3 = [t \in Tier |-> IF t \in T THEN NewService(old[t].version) ELSE old[t]]
  BY <1>5, <1>6
<1>9. IsEviction(old, r3, clock)
  <2>1. T \in (SUBSET Tier) \ {{}}
    BY <1>7
  <2>2. \A t \in T : /\ old[t].status.state \in {"healthy", "progressing"}
                    /\ old[t].hb + HeartbeatTimeout < clock
    <3> SUFFICES ASSUME NEW t \in T
                 PROVE  /\ old[t].status.state \in {"healthy", "progressing"}
                        /\ old[t].hb + HeartbeatTimeout < clock
      OBVIOUS
    <3>1. t \in Tier /\ r3[t] # old[t]
      OBVIOUS
    <3> HIDE DEF T
    <3> QED
      BY <1>5, <3>1
  <2> HIDE DEF T
  <2> QED
    BY <1>8, <2>1, <2>2 DEF IsEviction
<1>10. Young(r3, nextVersion, clock)
  <2>1. \A v : NewService(v).version = v /\ NewService(v).hb = 0
    BY DEF NewService, NoService
  <2> QED
    BY <1>1, <1>5, <2>1 DEF Young
<1> QED
  BY <1>3, <1>9, <1>10
-----------------------------------------------------------------------------
(* Time only makes heartbeats older: what follows a row now follows it     *)
(* later, and what was young stays young.                                  *)
LEMMA FollowsLater ==
    ASSUME NEW old, GoodRow(old), NEW new, NEW now \in Nat, NEW later \in Nat, now <= later,
           RowFollows(old, new, now)
    PROVE  RowFollows(old, new, later)
<1>1. \A t \in Tier : old[t].hb \in Nat
  BY DEF GoodRow, Row, Service
<1>2. HeartbeatTimeout \in Nat
  BY TimeoutAssumption
<1>3. CASE IsReport(old, new, now)
  <2>1. 1 .. now \subseteq 1 .. later
    OBVIOUS
  <2> QED
    BY <1>3, <2>1 DEF IsReport, RowFollows
<1>4. CASE IsEviction(old, new, now)
  <2>1. \A t \in Tier : old[t].hb + HeartbeatTimeout < now => old[t].hb + HeartbeatTimeout < later
    BY <1>1, <1>2
  <2>2. PICK T \in (SUBSET Tier) \ {{}} :
          /\ \A t \in T : /\ old[t].status.state \in {"healthy", "progressing"}
                          /\ old[t].hb + HeartbeatTimeout < now
          /\ new = [t \in Tier |-> IF t \in T THEN NewService(old[t].version) ELSE old[t]]
    BY <1>4 DEF IsEviction
  <2>3. \A t \in T : old[t].hb + HeartbeatTimeout < later
    BY <2>1, <2>2
  <2>4. IsEviction(old, new, later)
    BY <2>2, <2>3 DEF IsEviction
  <2> QED
    BY <2>4 DEF RowFollows
<1> QED
  BY <1>3, <1>4 DEF RowFollows

LEMMA YoungLater ==
    ASSUME NEW row, GoodRow(row), NEW fresh \in Nat, NEW fresher \in Nat, fresh <= fresher,
           NEW now \in Nat, NEW later \in Nat, now <= later, Young(row, fresh, now)
    PROVE  Young(row, fresher, later)
<1>1. \A t \in Tier : row[t].hb \in Nat /\ row[t].version \in Nat
  BY DEF GoodRow, Row, Service
<1> QED
  BY <1>1 DEF Young

LEMMA CounterTypes == IInv => nextVersion \in Nat \ {0} /\ clock \in Nat \ {0}
BY DEF IInv, TypeOK

-----------------------------------------------------------------------------
(* One operation at a time: a task that may start finds all hands empty.   *)
LEMMA HandsAreEmpty ==
    ASSUME SerialInv, MaxOverlap = 1, MayStart
    PROVE  /\ Overlapping = {}
           /\ \A r \in RLAs, k \in Task : todo[r][k] = Nothing
<1>1. Overlapping = {}
  <2> SUFFICES ASSUME Overlapping # {} PROVE FALSE
    OBVIOUS
  <2>1. PICK p \in Overlapping : TRUE
    OBVIOUS
  <2>2. Overlapping = {p}
    BY <2>1 DEF SerialInv, OneAtATime
  <2>3. Cardinality(Overlapping) = 1
    BY <2>2, FS_Singleton
  <2> QED
    BY <2>3 DEF MayStart
<1>2. ASSUME NEW r \in RLAs, NEW k \in Task
      PROVE  phase[r][k] # "saving"
  <2>1. <<r, k>> \in RLAs \X Task /\ <<r, k>>[1] = r /\ <<r, k>>[2] = k
    OBVIOUS
  <2> QED
    BY <1>1, <2>1 DEF Overlapping
<1> QED
  BY <1>1, <1>2 DEF SerialInv, OthersHoldNothing

(* A task that starts alone with rows that follow the rows of the table.   *)
LEMMA StartSerial ==
    ASSUME SerialInv, MaxOverlap = 1, MayStart, IInv',
           NEW r \in RLAs, NEW k \in Task, NEW rows \in [Apps -> Row \cup {NoRow}],
           Keep(r, k, rows),
           UNCHANGED <<kb, created, clock>>, nextVersion <= nextVersion',
           \A a \in Apps : rows[a] # NoRow => /\ RowFollows(kb[a], rows[a], clock)
                                              /\ Young(rows[a], nextVersion', clock)
    PROVE  SerialInv'
<1>1. /\ phase \in [RLAs -> [Task -> Phase]]
      /\ todo \in [RLAs -> [Task -> [Apps -> Row \cup {NoRow}]]]
  BY DEF SerialInv, IInv, TypeOK
<1>2. Overlapping = {} /\ \A q \in RLAs, j \in Task : todo[q][j] = Nothing
  BY HandsAreEmpty
<1>3. ASSUME NEW q \in RLAs, NEW j \in Task
      PROVE  phase[q][j] # "saving"
  <2>1. <<q, j>> \in RLAs \X Task /\ <<q, j>>[1] = q /\ <<q, j>>[2] = j
    OBVIOUS
  <2> QED
    BY <1>2, <2>1 DEF Overlapping
<1>4. ASSUME NEW q \in RLAs, NEW j \in Task, q # r \/ j # k
      PROVE  todo'[q][j] = Nothing /\ phase'[q][j] # "saving"
  BY <1>1, <1>2, <1>3, <1>4 DEF Keep
<1>5. todo'[r][k] = rows /\ (phase'[r][k] # "saving" => rows = Nothing)
  BY <1>1 DEF Keep
<1>6. \A a \in Apps : Nothing[a] = NoRow
  BY DEF Nothing
<1>7. OneAtATime'
  <2>1. ASSUME NEW p \in Overlapping' PROVE p = <<r, k>>
    BY <1>4 DEF Overlapping
  <2> QED
    BY <2>1 DEF OneAtATime
<1>8. OthersHoldNothing'
  BY <1>4, <1>5 DEF OthersHoldNothing
<1>9. RowsInHandFollow'
  <2> SUFFICES ASSUME NEW q \in RLAs, NEW j \in Task, NEW a \in Apps, todo'[q][j][a] # NoRow
               PROVE  /\ RowFollows(kb'[a], todo'[q][j][a], clock')
                      /\ Young(todo'[q][j][a], nextVersion', clock')
    BY DEF RowsInHandFollow
  <2>1. q = r /\ j = k
    BY <1>4, <1>6
  <2> QED
    BY <1>5, <2>1
<1>10. TableIsYoung'
  <2> SUFFICES ASSUME NEW a \in Apps, kb[a] # NoRow
               PROVE  a \in created /\ Young(kb[a], nextVersion', clock)
    BY DEF TableIsYoung
  <2>1. a \in created /\ Young(kb[a], nextVersion, clock) /\ GoodRow(kb[a])
    BY DEF SerialInv, TableIsYoung, IInv, GoodRows
  <2>2. nextVersion \in Nat /\ nextVersion' \in Nat /\ clock \in Nat /\ clock <= clock
    BY CounterTypes DEF SerialInv, IInv, TypeOK
  <2> QED
    BY <2>1, <2>2, YoungLater
<1> QED
  BY <1>7, <1>8, <1>9, <1>10 DEF SerialInv

(* Create and Delete change one row of the table, with all hands empty.    *)
LEMMA TableSerial ==
    ASSUME SerialInv, MaxOverlap = 1, MayStart, IInv',
           NEW a \in Apps, NEW row, kb' = [kb EXCEPT ![a] = row],
           created \subseteq created', nextVersion <= nextVersion', UNCHANGED <<clock, procs>>,
           row # NoRow => a \in created' /\ Young(row, nextVersion', clock)
    PROVE  SerialInv'
<1>1. \A q \in RLAs, j \in Task : todo'[q][j] = Nothing
  BY HandsAreEmpty DEF procs
<1>2. OneAtATime' /\ OthersHoldNothing'
  BY DEF SerialInv, OneAtATime, OthersHoldNothing, Overlapping, procs
<1>3. RowsInHandFollow'
  BY <1>1 DEF RowsInHandFollow, Nothing
<1>4. TableIsYoung'
  <2> SUFFICES ASSUME NEW b \in Apps, kb'[b] # NoRow
               PROVE  b \in created' /\ Young(kb'[b], nextVersion', clock)
    BY DEF TableIsYoung
  <2>1. kb \in [Apps -> Row \cup {NoRow}]
    BY DEF SerialInv, IInv, TypeOK
  <2>2. CASE b = a
    BY <2>1, <2>2
  <2>3. CASE b # a
    <3>1. kb'[b] = kb[b]
      BY <2>1, <2>3
    <3>2. b \in created /\ Young(kb[b], nextVersion, clock) /\ GoodRow(kb[b])
      BY <3>1 DEF SerialInv, TableIsYoung, IInv, GoodRows
    <3>3. nextVersion \in Nat /\ nextVersion' \in Nat /\ clock \in Nat /\ clock <= clock
      BY CounterTypes DEF SerialInv, IInv, TypeOK
    <3> QED
      BY <3>1, <3>2, <3>3, YoungLater
  <2> QED
    BY <2>2, <2>3
<1> QED
  BY <1>2, <1>3, <1>4 DEF SerialInv

(* Steps that leave the table alone and put nothing new into any hand.     *)
LEMMA HandsSerial ==
    ASSUME SerialInv, IInv', UNCHANGED store, clock <= clock',
           \A r \in RLAs, k \in Task :
               /\ phase'[r][k] = "saving" => phase[r][k] = "saving"
               /\ phase'[r][k] # "saving" => todo'[r][k] = Nothing,
           \A r \in RLAs, k \in Task, a \in Apps :
               todo'[r][k][a] \in {todo[r][k][a], NoRow}
    PROVE  SerialInv'
<1>1. kb' = kb /\ created' = created /\ nextVersion' = nextVersion
  BY DEF store
<1>2. clock \in Nat /\ clock' \in Nat /\ nextVersion \in Nat /\ nextVersion <= nextVersion
  BY CounterTypes DEF SerialInv, IInv, TypeOK
<1>3. OneAtATime'
  <2>1. Overlapping' \subseteq Overlapping
    BY DEF Overlapping
  <2> QED
    BY <2>1 DEF SerialInv, OneAtATime
<1>4. OthersHoldNothing'
  BY DEF OthersHoldNothing
<1>5. RowsInHandFollow'
  <2> SUFFICES ASSUME NEW r \in RLAs, NEW k \in Task, NEW a \in Apps, todo'[r][k][a] # NoRow
               PROVE  /\ RowFollows(kb'[a], todo'[r][k][a], clock')
                      /\ Young(todo'[r][k][a], nextVersion', clock')
    BY DEF RowsInHandFollow
  <2>1. todo'[r][k][a] = todo[r][k][a]
    OBVIOUS
  <2>2. /\ RowFollows(kb[a], todo[r][k][a], clock)
        /\ Young(todo[r][k][a], nextVersion, clock)
    BY <2>1 DEF SerialInv, RowsInHandFollow
  <2>3. GoodRow(kb[a]) /\ GoodRow(todo[r][k][a])
    BY <2>1, <2>2 DEF SerialInv, IInv, GoodRows, RowFollows
  <2>4. RowFollows(kb[a], todo[r][k][a], clock')
    BY <1>2, <2>2, <2>3, FollowsLater
  <2>5. Young(todo[r][k][a], nextVersion, clock')
    BY <1>2, <2>2, <2>3, YoungLater
  <2> QED
    BY <1>1, <2>1, <2>4, <2>5
<1>6. TableIsYoung'
  <2> SUFFICES ASSUME NEW a \in Apps, kb[a] # NoRow
               PROVE  a \in created /\ Young(kb[a], nextVersion, clock')
    BY <1>1 DEF TableIsYoung
  <2>1. a \in created /\ Young(kb[a], nextVersion, clock) /\ GoodRow(kb[a])
    BY DEF SerialInv, TableIsYoung, IInv, GoodRows
  <2> QED
    BY <1>2, <2>1, YoungLater
<1> QED
  BY <1>3, <1>4, <1>5, <1>6 DEF SerialInv

(* What a save writes follows the row it replaces.                         *)
LEMMA SaveSerial ==
    ASSUME SerialInv, IInv', NEW r \in RLAs, NEW k \in Task, NEW a \in Apps, Save(r, k, a)
    PROVE  SerialInv'
<1> DEFINE row == todo[r][k][a]
<1>1. /\ phase \in [RLAs -> [Task -> Phase]]
      /\ todo \in [RLAs -> [Task -> [Apps -> Row \cup {NoRow}]]]
      /\ kb \in [Apps -> Row \cup {NoRow}]
  BY DEF SerialInv, IInv, TypeOK
<1>2. row # NoRow /\ todo[r][k] # Nothing /\ phase[r][k] = "saving"
  BY DEF Save, Nothing, SerialInv, OthersHoldNothing
<1>3. ASSUME NEW q \in RLAs, NEW j \in Task, phase[q][j] = "saving"
      PROVE  q = r /\ j = k
  <2>1. /\ <<q, j>> \in RLAs \X Task /\ <<q, j>>[1] = q /\ <<q, j>>[2] = j
        /\ <<r, k>> \in RLAs \X Task /\ <<r, k>>[1] = r /\ <<r, k>>[2] = k
    OBVIOUS
  <2>2. <<q, j>> \in Overlapping /\ <<r, k>> \in Overlapping
    BY <1>2, <1>3, <2>1 DEF Overlapping
  <2> QED
    BY <2>2 DEF SerialInv, OneAtATime
<1>4. ASSUME NEW q \in RLAs, NEW j \in Task, q # r \/ j # k
      PROVE  todo'[q][j] = Nothing /\ phase'[q][j] # "saving"
  <2>1. phase[q][j] # "saving"
    BY <1>3, <1>4
  <2>2. todo[q][j] = Nothing
    BY <2>1 DEF SerialInv, OthersHoldNothing
  <2> QED
    BY <1>1, <1>4, <2>1, <2>2 DEF Save, Keep
<1>5. /\ todo'[r][k] = [todo[r][k] EXCEPT ![a] = NoRow]
      /\ phase'[r][k] # "saving" => todo'[r][k] = Nothing
  BY <1>1 DEF Save, Keep
<1>6. kb' = [kb EXCEPT ![a] = row] /\ UNCHANGED <<created, nextVersion, clock>>
  BY DEF Save
<1>7. /\ RowFollows(kb[a], row, clock) /\ Young(row, nextVersion, clock)
      /\ kb[a] # NoRow /\ a \in created
  BY <1>2 DEF SerialInv, RowsInHandFollow, RowFollows, TableIsYoung
<1> HIDE DEF row
<1>8. OneAtATime'
  <2>1. ASSUME NEW p \in Overlapping' PROVE p = <<r, k>>
    BY <1>4 DEF Overlapping
  <2> QED
    BY <2>1 DEF OneAtATime
<1>9. OthersHoldNothing'
  BY <1>4, <1>5 DEF OthersHoldNothing
<1>10. RowsInHandFollow'
  <2> SUFFICES ASSUME NEW q \in RLAs, NEW j \in Task, NEW b \in Apps, todo'[q][j][b] # NoRow
               PROVE  /\ RowFollows(kb'[b], todo'[q][j][b], clock')
                      /\ Young(todo'[q][j][b], nextVersion', clock')
    BY DEF RowsInHandFollow
  <2>1. q = r /\ j = k
    BY <1>4 DEF Nothing
  <2>2. b # a /\ todo'[q][j][b] = todo[q][j][b]
    BY <1>1, <1>5, <2>1
  <2>3. kb'[b] = kb[b]
    BY <1>1, <1>6, <2>2
  <2> QED
    BY <1>6, <2>2, <2>3 DEF SerialInv, RowsInHandFollow
<1>11. TableIsYoung'
  <2> SUFFICES ASSUME NEW b \in Apps, kb'[b] # NoRow
               PROVE  b \in created /\ Young(kb'[b], nextVersion, clock)
    BY <1>6 DEF TableIsYoung
  <2>1. CASE b = a
    BY <1>1, <1>6, <1>7, <2>1
  <2>2. CASE b # a
    BY <1>1, <1>6, <2>2 DEF SerialInv, TableIsYoung
  <2> QED
    BY <2>1, <2>2
<1> QED
  BY <1>8, <1>9, <1>10, <1>11 DEF SerialInv

-----------------------------------------------------------------------------
LEMMA SerialInit == Init => SerialInv
<1> SUFFICES ASSUME Init PROVE SerialInv
  OBVIOUS
<1>1. IInv
  BY InitGood
<1>2. OneAtATime /\ OthersHoldNothing
  BY DEF Init, OneAtATime, OthersHoldNothing, Overlapping
<1>3. RowsInHandFollow /\ TableIsYoung
  BY DEF Init, RowsInHandFollow, TableIsYoung, Nothing
<1> QED
  BY <1>1, <1>2, <1>3 DEF SerialInv

LEMMA RequestsSerial ==
    ASSUME SerialInv, MaxOverlap = 1, IInv', Requests
    PROVE  SerialInv'
<1>1. nextVersion \in Nat \ {0} /\ clock \in Nat \ {0} /\ IInv
  BY CounterTypes DEF SerialInv
<1>2. ASSUME NEW r \in RLAs, NEW a \in Apps, NEW S \in SUBSET DeployTiers,
             CreateApplication(r, a, S)
      PROVE  SerialInv'
  <2> DEFINE row == NewRow(S, nextVersion)
  <2>1. /\ MayStart /\ kb' = [kb EXCEPT ![a] = row]
        /\ created' = created \cup {a} /\ nextVersion' = nextVersion + 1
        /\ UNCHANGED <<clock, procs>>
    BY <1>2 DEF CreateApplication
  <2>2. \A t \in Tier : row[t].version \in {0, nextVersion} /\ row[t].hb = 0
    BY DEF NewRow, NewService, NoService
  <2>3. Young(row, nextVersion', clock)
    BY <1>1, <2>1, <2>2 DEF Young
  <2>4. created \subseteq created' /\ a \in created' /\ nextVersion <= nextVersion'
    BY <1>1, <2>1
  <2> HIDE DEF row
  <2> QED
    BY <2>1, <2>3, <2>4, TableSerial
<1>3. ASSUME NEW r \in RLAs, NEW a \in Apps, DeleteApplication(r, a)
      PROVE  SerialInv'
  <2>1. /\ MayStart /\ kb' = [kb EXCEPT ![a] = NoRow]
        /\ created \subseteq created' /\ nextVersion <= nextVersion'
        /\ UNCHANGED <<clock, procs>>
    BY <1>1, <1>3 DEF DeleteApplication
  <2> QED
    BY <2>1, TableSerial
<1>4. ASSUME NEW r \in RLAs, NEW h \in HttpSlots, NEW a \in Apps, NEW req \in RestRequest,
             UpdateRead(r, h, a, req)
      PROVE  SerialInv'
  <2> DEFINE row  == UpdateRow(kb[a], req, nextVersion)
             rows == [Nothing EXCEPT ![a] = row]
  <2>1. /\ MayStart /\ nextVersion <= MaxVersion /\ kb[a] # NoRow
        /\ Keep(r, h, rows) /\ nextVersion' = nextVersion + 1
        /\ UNCHANGED <<kb, created, clock>>
    BY <1>4 DEF UpdateRead, Fresh
  <2>2. GoodRow(kb[a]) /\ Young(kb[a], nextVersion, clock)
    BY <1>1, <2>1 DEF SerialInv, TableIsYoung, IInv, GoodRows
  <2>3. /\ IsUpdate(kb[a], row)
        /\ \A t \in Tier : row[t].version <= nextVersion /\ row[t].hb <= clock
    BY <1>1, <2>1, <2>2, UpdateFollows
  <2>4. GoodRow(row) /\ h \in Task
    BY <1>1, <2>2, UpdateRowGood DEF RestRequest, Task
  <2>5. RowFollows(kb[a], row, clock) /\ Young(row, nextVersion', clock)
    <3>1. \A t \in Tier : row[t].version \in Nat
      BY <2>4 DEF GoodRow, Row, Service
    <3> HIDE DEF row
    <3> QED
      BY <1>1, <2>1, <2>3, <3>1 DEF RowFollows, Young
  <2> HIDE DEF row
  <2>6. rows \in [Apps -> Row \cup {NoRow}]
    BY <2>4 DEF Nothing, GoodRow
  <2>7. \A b \in Apps : rows[b] # NoRow => b = a /\ rows[b] = row
    BY DEF Nothing
  <2> HIDE DEF rows
  <2>8. nextVersion <= nextVersion'
    BY <1>1, <2>1
  <2> QED
    BY <2>1, <2>4, <2>5, <2>6, <2>7, <2>8, StartSerial
<1> QED
  BY <1>2, <1>3, <1>4 DEF Requests

LEMMA ReportsSerial ==
    ASSUME SerialInv, MaxOverlap = 1, IInv', Reports
    PROVE  SerialInv'
<1>1. nextVersion \in Nat \ {0} /\ clock \in Nat \ {0} /\ IInv
  BY CounterTypes DEF SerialInv
<1>2. PICK r \in RLAs, h \in HttpSlots, a \in Apps, c \in Clusters,
           v \in 1 .. MaxVersion, s \in Reported : StatusRead(r, h, a, c, v, s)
  BY DEF Reports
<1> DEFINE row  == ReportRow(kb[a], c, v, s, clock)
           rows == [Nothing EXCEPT ![a] = row]
<1>3. /\ MayStart /\ Verdict(kb[a], c, v) = "ok" /\ kb[a] # NoRow
      /\ Keep(r, h, rows) /\ UNCHANGED <<kb, created, clock>>
      /\ nextVersion <= nextVersion'  /\ nextVersion' = nextVersion
  BY <1>1, <1>2 DEF StatusRead, Verdict, store
<1>4. GoodRow(kb[a]) /\ Young(kb[a], nextVersion, clock)
  BY <1>1, <1>3 DEF SerialInv, TableIsYoung, IInv, GoodRows
<1>5. v \in Nat /\ h \in Task
  BY DEF Task
<1>6. IsReport(kb[a], row, clock) /\ Young(row, nextVersion, clock)
  BY <1>1, <1>3, <1>4, <1>5, ReportFollows
<1>7. GoodRow(row)
  BY <1>1, <1>3, <1>4, <1>5, ReportRowGood
<1> HIDE DEF row
<1>8. rows \in [Apps -> Row \cup {NoRow}]
  BY <1>7 DEF Nothing, GoodRow
<1>9. \A b \in Apps : rows[b] # NoRow => b = a /\ rows[b] = row
  BY DEF Nothing
<1> HIDE DEF rows
<1>10. RowFollows(kb[a], row, clock)
  BY <1>3, <1>6 DEF RowFollows
<1> QED
  BY <1>3, <1>5, <1>6, <1>8, <1>9, <1>10, StartSerial

LEMMA ScheduleSerial ==
    ASSUME SerialInv, MaxOverlap = 1, IInv', NEW r \in RLAs, NEW picks \in [Apps -> Pick],
           SchedulePendingApps(r, picks)
    PROVE  SerialInv'
<1> DEFINE rows == [a \in Apps |-> ScheduledRow(kb[a], picks[a])]
<1>1. nextVersion \in Nat \ {0} /\ clock \in Nat \ {0} /\ IInv
  BY CounterTypes DEF SerialInv
<1>2. /\ MayStart /\ Keep(r, "sched", rows) /\ UNCHANGED <<kb, created, clock>>
      /\ nextVersion' = nextVersion /\ nextVersion <= nextVersion'
  BY <1>1 DEF SchedulePendingApps, store
<1>3. ASSUME NEW a \in Apps, rows[a] # NoRow
      PROVE  /\ GoodRow(rows[a]) /\ RowFollows(kb[a], rows[a], clock)
             /\ Young(rows[a], nextVersion, clock)
  <2>1. /\ kb[a] # NoRow /\ rows[a] = PlaceRow(kb[a], picks[a])
        /\ Pending(PlaceRow(kb[a], picks[a])) = {}
    BY <1>3 DEF ScheduledRow
  <2>2. GoodRow(kb[a]) /\ Young(kb[a], nextVersion, clock)
    BY <1>1, <2>1 DEF SerialInv, TableIsYoung, IInv, GoodRows
  <2>3. picks[a] \in Pick
    OBVIOUS
  <2>4. GoodRow(PlaceRow(kb[a], picks[a]))
    BY <2>2, <2>3, PlaceRowGood DEF Pick
  <2>5. /\ IsPlacement(kb[a], PlaceRow(kb[a], picks[a]))
        /\ Young(PlaceRow(kb[a], picks[a]), nextVersion, clock)
    BY <2>1, <2>2, <2>3, PlaceFollows
  <2> QED
    BY <2>1, <2>4, <2>5 DEF RowFollows
<1>4. rows \in [Apps -> Row \cup {NoRow}]
  BY <1>3 DEF GoodRow
<1>5. "sched" \in Task
  BY DEF Task
<1> HIDE DEF rows
<1> QED
  BY <1>2, <1>3, <1>4, <1>5, StartSerial

LEMMA SweepSerial ==
    ASSUME SerialInv, MaxOverlap = 1, IInv', NEW r \in RLAs, HandleStalledApps(r)
    PROVE  SerialInv'
<1> DEFINE rows == [a \in Apps |-> StalledRow(kb[a], clock)]
<1>1. nextVersion \in Nat \ {0} /\ clock \in Nat \ {0} /\ IInv
  BY CounterTypes DEF SerialInv
<1>2. /\ MayStart /\ Keep(r, "stall", rows) /\ UNCHANGED <<kb, created, clock>>
      /\ nextVersion' = nextVersion /\ nextVersion <= nextVersion'
  BY <1>1 DEF HandleStalledApps, store
<1>3. ASSUME NEW a \in Apps, rows[a] # NoRow
      PROVE  /\ GoodRow(rows[a]) /\ RowFollows(kb[a], rows[a], clock)
             /\ Young(rows[a], nextVersion, clock)
  <2>1. /\ kb[a] # NoRow /\ rows[a] = SweptRow(kb[a], clock)
        /\ SweptRow(kb[a], clock) # kb[a]
    BY <1>3 DEF StalledRow
  <2>2. GoodRow(kb[a]) /\ Young(kb[a], nextVersion, clock)
    BY <1>1, <2>1 DEF SerialInv, TableIsYoung, IInv, GoodRows
  <2>3. GoodRow(SweptRow(kb[a], clock))
    BY <1>1, <2>2, SweptRowGood
  <2>4. /\ IsEviction(kb[a], SweptRow(kb[a], clock), clock)
        /\ Young(SweptRow(kb[a], clock), nextVersion, clock)
    BY <1>1, <2>1, <2>2, SweepFollows
  <2> QED
    BY <2>1, <2>3, <2>4 DEF RowFollows
<1>4. rows \in [Apps -> Row \cup {NoRow}]
  BY <1>3 DEF GoodRow
<1>5. "stall" \in Task
  BY DEF Task
<1> HIDE DEF rows
<1> QED
  BY <1>2, <1>3, <1>4, <1>5, StartSerial

(* Ticks, failing saves, crashes, restarts, leader changes and time.       *)
LEMMA QuietSerial ==
    ASSUME SerialInv, IInv', NEW r \in RLAs,
           \/ Tick(r)
           \/ \E k \in {"sched", "stall"} : Skip(r, k)
           \/ \E k \in Task, a \in Apps : SaveFails(r, k, a)
           \/ Die(r)
           \/ UNCHANGED <<store, clock, phase, todo>>
           \/ ClockTick
    PROVE  SerialInv'
<1>1. /\ phase \in [RLAs -> [Task -> Phase]]
      /\ todo \in [RLAs -> [Task -> [Apps -> Row \cup {NoRow}]]]
      /\ clock \in Nat
  BY DEF SerialInv, IInv, TypeOK
<1>2. \A q \in RLAs, j \in Task : phase[q][j] # "saving" => todo[q][j] = Nothing
  BY DEF SerialInv, OthersHoldNothing
<1>3. UNCHANGED store /\ clock <= clock'
  <2>1. UNCHANGED store /\ clock' \in {clock, clock + 1}
    BY Zenon DEF Tick, Skip, SaveFails, Die, ClockTick
  <2> QED
    BY <1>1, <2>1
<1>4. CASE Tick(r)
  <2>1. "sched" \in Task /\ "stall" \in Task /\ todo' = todo
    BY <1>4 DEF Task, Tick
  <2>2. \A q \in RLAs, j \in Task : phase'[q][j] = "saving" <=> phase[q][j] = "saving"
    BY <1>1, <1>4, <2>1 DEF Tick
  <2> QED
    BY <1>2, <1>3, <2>1, <2>2, HandsSerial
<1>5. ASSUME NEW k \in {"sched", "stall"}, Skip(r, k)
      PROVE  SerialInv'
  <2>1. k \in Task /\ todo' = todo
    BY <1>5 DEF Task, Skip
  <2>2. \A q \in RLAs, j \in Task : phase'[q][j] = "saving" <=> phase[q][j] = "saving"
    BY <1>1, <1>5, <2>1 DEF Skip
  <2> QED
    BY <1>2, <1>3, <2>1, <2>2, HandsSerial
<1>6. ASSUME NEW k \in Task, NEW a \in Apps, SaveFails(r, k, a)
      PROVE  SerialInv'
  <2> DEFINE rows == [todo[r][k] EXCEPT ![a] = NoRow]
  <2>1. Keep(r, k, rows) /\ todo[r][k] # Nothing
    BY <1>6 DEF SaveFails, Nothing
  <2>2. \A b \in Apps : rows[b] \in {todo[r][k][b], NoRow}
    BY <1>1
  <2> HIDE DEF rows
  <2>3. /\ phase[r][k] = "saving" /\ todo'[r][k] = rows
        /\ phase'[r][k] # "saving" => rows = Nothing
        /\ \A q \in RLAs, j \in Task : q # r \/ j # k =>
              phase'[q][j] = phase[q][j] /\ todo'[q][j] = todo[q][j]
    BY <1>1, <1>2, <2>1 DEF Keep
  <2>4. \A q \in RLAs, j \in Task : /\ phase'[q][j] = "saving" => phase[q][j] = "saving"
                                    /\ phase'[q][j] # "saving" => todo'[q][j] = Nothing
    BY <1>2, <2>3
  <2>5. \A q \in RLAs, j \in Task, b \in Apps : todo'[q][j][b] \in {todo[q][j][b], NoRow}
    BY <2>2, <2>3
  <2> QED
    BY <1>3, <2>4, <2>5, HandsSerial
<1>7. CASE Die(r)
  <2>1. \A q \in RLAs, j \in Task :
            \/ phase'[q][j] = phase[q][j] /\ todo'[q][j] = todo[q][j]
            \/ phase'[q][j] = "idle" /\ todo'[q][j] = Nothing
    BY <1>1, <1>7 DEF Die
  <2>2. \A b \in Apps : Nothing[b] = NoRow
    BY DEF Nothing
  <2> QED
    BY <1>2, <1>3, <2>1, <2>2, HandsSerial
<1>8. CASE UNCHANGED <<store, clock, phase, todo>>
  BY <1>2, <1>3, <1>8, HandsSerial
<1>9. CASE ClockTick
  BY <1>2, <1>3, <1>9, HandsSerial DEF ClockTick, procs
<1> QED
  BY <1>4, <1>5, <1>6, <1>7, <1>8, <1>9

LEMMA SerialNext ==
    ASSUME SerialInv, MaxOverlap = 1, [Next]_vars
    PROVE  SerialInv'
<1>1. IInv'
  BY NextGood DEF SerialInv
<1>2. CASE Requests
  BY <1>1, <1>2, RequestsSerial
<1>3. CASE Reports
  BY <1>1, <1>3, ReportsSerial
<1>4. CASE Loop
  <2>1. PICK r \in RLAs : \/ Tick(r)
                          \/ \E k \in {"sched", "stall"} : Skip(r, k)
                          \/ \E picks \in [Apps -> Pick] : SchedulePendingApps(r, picks)
                          \/ HandleStalledApps(r)
                          \/ SweepPanics(r)
    BY <1>4 DEF Loop
  <2>2. CASE SweepPanics(r)
    BY <1>1, <2>2, QuietSerial DEF SweepPanics
  <2>3. CASE Tick(r) \/ \E k \in {"sched", "stall"} : Skip(r, k)
    BY <1>1, <2>3, QuietSerial
  <2> QED
    BY <1>1, <2>1, <2>2, <2>3, ScheduleSerial, SweepSerial
<1>5. CASE Saves
  <2>1. PICK r \in RLAs, k \in Task, a \in Apps : Save(r, k, a) \/ SaveFails(r, k, a)
    BY <1>5 DEF Saves
  <2>2. CASE SaveFails(r, k, a)
    BY <1>1, <2>2, QuietSerial
  <2> QED
    BY <1>1, <2>1, <2>2, SaveSerial
<1>6. CASE Environment \/ UNCHANGED vars
  <2>1. CASE ClockTick \/ UNCHANGED vars
    <3>1. clock <= clock' /\ UNCHANGED <<store, phase, todo>>
      BY <2>1 DEF ClockTick, vars, store, procs, SerialInv, IInv, TypeOK
    <3>2. \A q \in RLAs, j \in Task : phase[q][j] # "saving" => todo[q][j] = Nothing
      BY DEF SerialInv, OthersHoldNothing
    <3> QED
      BY <1>1, <3>1, <3>2, HandsSerial
  <2>2. ASSUME NEW r \in RLAs, Crash(r) \/ Restart(r) \/ LeaderMoves(r)
        PROVE  SerialInv'
    <3>1. Die(r) \/ UNCHANGED <<store, clock, phase, todo>>
      BY <2>2 DEF Crash, Restart, LeaderMoves
    <3> QED
      BY <1>1, <3>1, QuietSerial
  <2> QED
    BY <1>6, <2>1, <2>2 DEF Environment
<1> QED
  BY <1>2, <1>3, <1>4, <1>5, <1>6 DEF Next

-----------------------------------------------------------------------------
(* What a step does to the table when operations do not overlap.           *)
TableMove ==
    \/ UNCHANGED <<kb, created>> /\ clock' \in {clock, clock + 1}
    \/ \E a \in Apps, S \in (SUBSET Tier) \ {{}}, v \in 1 .. MaxVersion :
          /\ a \notin created
          /\ kb' = [kb EXCEPT ![a] = NewRow(S, v)]
          /\ created' = created \cup {a}
          /\ UNCHANGED clock
    \/ \E a \in Apps, row \in Row \cup {NoRow} :
          /\ \/ row = NoRow /\ kb[a] # NoRow
             \/ RowFollows(kb[a], row, clock)
          /\ kb' = [kb EXCEPT ![a] = row]
          /\ UNCHANGED <<created, clock>>

LEMMA TableMoves ==
    ASSUME SerialInv, [Next]_vars
    PROVE  TableMove
<1>1. nextVersion \in Nat \ {0} /\ MaxVersion \in Nat /\ DeployTiers \subseteq Tier
  BY CounterTypes, LeadAgentAssumption DEF SerialInv
<1>2. CASE Requests
  <2>1. ASSUME NEW r \in RLAs, NEW a \in Apps, NEW S \in SUBSET DeployTiers,
               CreateApplication(r, a, S)
        PROVE  TableMove
    <3>1. nextVersion \in 1 .. MaxVersion /\ S \in (SUBSET Tier) \ {{}}
      BY <1>1, <2>1 DEF CreateApplication, Fresh
    <3> QED
      BY <2>1, <3>1 DEF CreateApplication, TableMove
  <2>2. ASSUME NEW r \in RLAs, NEW a \in Apps, DeleteApplication(r, a)
        PROVE  TableMove
    BY <2>2 DEF DeleteApplication, TableMove
  <2>3. ASSUME NEW r \in RLAs, NEW h \in HttpSlots, NEW a \in Apps, NEW req \in RestRequest,
               UpdateRead(r, h, a, req)
        PROVE  TableMove
    BY <2>3 DEF UpdateRead, TableMove
  <2> QED
    BY <1>2, <2>1, <2>2, <2>3 DEF Requests
<1>3. CASE Reports
  BY <1>3 DEF Reports, StatusRead, store, TableMove
<1>4. CASE Loop
  BY <1>4 DEF Loop, Tick, Skip, SchedulePendingApps, HandleStalledApps, SweepPanics, Die,
              store, TableMove
<1>5. CASE Saves
  <2>1. PICK r \in RLAs, k \in Task, a \in Apps : Save(r, k, a) \/ SaveFails(r, k, a)
    BY <1>5 DEF Saves
  <2>2. CASE SaveFails(r, k, a)
    BY <2>2 DEF SaveFails, store, TableMove
  <2>3. CASE Save(r, k, a)
    <3>1. /\ kb' = [kb EXCEPT ![a] = todo[r][k][a]] /\ todo[r][k][a] # NoRow
          /\ UNCHANGED <<created, clock>>
      BY <2>3 DEF Save
    <3>2. RowFollows(kb[a], todo[r][k][a], clock)
      BY <3>1 DEF SerialInv, RowsInHandFollow
    <3>3. todo[r][k][a] \in Row \cup {NoRow}
      BY DEF SerialInv, IInv, TypeOK
    <3> QED
      BY <3>1, <3>2, <3>3 DEF TableMove
  <2> QED
    BY <2>1, <2>2, <2>3
<1>6. CASE Environment
  BY <1>6 DEF Environment, Crash, Restart, LeaderMoves, ClockTick, Die, store, procs, TableMove
<1>7. CASE UNCHANGED vars
  BY <1>7 DEF vars, TableMove
<1> QED
  BY <1>2, <1>3, <1>4, <1>5, <1>6, <1>7 DEF Next

-----------------------------------------------------------------------------
LEMMA RegistryInit == Init => Registry!Init
BY DEF Init, Registry!Init, Nothing

(* A row that follows another one is what an operation of AppRegistry makes*)
(* of it.                                                                  *)
LEMMA FollowsIsOperation ==
    ASSUME NEW a \in Apps, NEW row, RowFollows(kb[a], row, clock),
           kb' = [kb EXCEPT ![a] = row], UNCHANGED <<created, clock>>
    PROVE  Registry!Next
<1> USE DEF Tier, Registry!Tier, Registry!Exists, Registry!Becomes
<1>1. kb[a] # NoRow
  BY DEF RowFollows
<1>2. CASE IsUpdate(kb[a], row)
  <2>1. PICK T \in SUBSET Tier, v \in 1 .. MaxVersion, replace \in BOOLEAN :
          /\ \A t \in Tier : v > kb[a][t].version
          /\ replace => {t \in Tier : kb[a][t].svc} \subseteq T
          /\ row = [t \in Tier |->
                 IF t \in T
                 THEN [NewService(v) EXCEPT
                         !.cluster = IF replace THEN NoCluster ELSE kb[a][t].cluster]
                 ELSE kb[a][t]]
    BY <1>2 DEF IsUpdate
  <2>2. Registry!Update(a)
    BY <1>1, <2>1
    DEF Registry!Update, NewService, NoService, NoStatus,
        Registry!NewService, Registry!NoService, Registry!NoStatus
  <2> QED
    BY <2>2 DEF Registry!Next
<1>3. CASE IsReport(kb[a], row, clock)
  <2>1. Registry!Report(a)
    BY <1>1, <1>3 DEF IsReport, Registry!Report, Reported, State, Registry!Reported, Registry!State
  <2> QED
    BY <2>1 DEF Registry!Next
<1>4. CASE IsPlacement(kb[a], row)
  <2>1. Registry!Place(a)
    BY <1>1, <1>4 DEF IsPlacement, PlaceRow, Pending, Registry!Place, Registry!Pending
  <2> QED
    BY <2>1 DEF Registry!Next
<1>5. CASE IsEviction(kb[a], row, clock)
  <2>1. Registry!Evict(a)
    BY <1>1, <1>5
    DEF IsEviction, Registry!Evict, NewService, NoService, NoStatus,
        Registry!NewService, Registry!NoService, Registry!NoStatus
  <2> QED
    BY <2>1 DEF Registry!Next
<1> QED
  BY <1>2, <1>3, <1>4, <1>5 DEF RowFollows

LEMMA RegistryStep ==
    ASSUME TableMove
    PROVE  [Registry!Next]_(Registry!vars)
<1>1. CASE UNCHANGED <<kb, created>> /\ clock' \in {clock, clock + 1}
  BY <1>1 DEF Registry!Next, Registry!TimePasses, Registry!vars
<1>2. ASSUME NEW a \in Apps, NEW S \in (SUBSET Tier) \ {{}}, NEW v \in 1 .. MaxVersion,
             a \notin created,
             kb' = [kb EXCEPT ![a] = NewRow(S, v)],
             created' = created \cup {a},
             clock' = clock
      PROVE  Registry!Next
  <2>1. Registry!Create(a)
    BY <1>2
    DEF Registry!Create, Tier, Registry!Tier, NewRow, NewService, NoService, NoStatus,
        Registry!NewService, Registry!NoService, Registry!NoStatus
  <2> QED
    BY <2>1 DEF Registry!Next
<1>3. ASSUME NEW a \in Apps, NEW row \in Row \cup {NoRow},
             (row = NoRow /\ kb[a] # NoRow) \/ RowFollows(kb[a], row, clock),
             kb' = [kb EXCEPT ![a] = row],
             created' = created, clock' = clock
      PROVE  Registry!Next
  <2>1. CASE RowFollows(kb[a], row, clock)
    BY <1>3, <2>1, FollowsIsOperation
  <2>2. CASE row = NoRow /\ kb[a] # NoRow
    BY <1>3, <2>2 DEF Registry!Next, Registry!Delete, Registry!Exists, Registry!Becomes
  <2> QED
    BY <1>3, <2>1, <2>2
<1> QED
  BY <1>1, <1>2, <1>3 DEF TableMove

-----------------------------------------------------------------------------
(* The invariant under which reads and saves do not overlap.  MaxOverlap   *)
(* is a constant, so its value is no hypothesis about a state.             *)
THEOREM SerialInvariance == MaxOverlap = 1 /\ Spec => []SerialInv
<1>1. CASE MaxOverlap = 1
  <2>1. SerialInv /\ [Next]_vars => SerialInv'
    BY <1>1, SerialNext
  <2> QED
    BY <2>1, SerialInit, PTL DEF Spec
<1>2. CASE MaxOverlap # 1
  BY <1>2
<1> QED
  BY <1>1, <1>2

(* The RLAs implement the registry: as long as operations on rows do not   *)
(* overlap, each handler is one whole operation per row or none, whichever *)
(* process serves it, whoever believes to lead, and wherever crashes and   *)
(* failing saves cut it off.                                               *)
THEOREM SerialRefinesRegistry == MaxOverlap = 1 /\ Spec => RegistrySpec
<1>1. SerialInv /\ [Next]_vars => [Registry!Next]_(Registry!vars)
  BY TableMoves, RegistryStep
<1> QED
  BY <1>1, RegistryInit, SerialInvariance, PTL DEF Spec, RegistrySpec, Registry!Spec

-----------------------------------------------------------------------------
(* No operation of the registry takes a version back.                      *)
LEMMA FollowsForward ==
    ASSUME NEW old, GoodRow(old), NEW new, NEW time, RowFollows(old, new, time), NEW t \in Tier
    PROVE  new[t].version >= old[t].version
<1>1. old \in [Tier -> Service] /\ old[t] \in Service /\ old[t].version \in Nat
  BY DEF GoodRow, Row, Service
<1>2. CASE IsUpdate(old, new)
  <2>1. PICK T \in SUBSET Tier, v \in 1 .. MaxVersion, replace \in BOOLEAN :
          /\ \A u \in Tier : v > old[u].version
          /\ new = [u \in Tier |->
                 IF u \in T
                 THEN [NewService(v) EXCEPT
                         !.cluster = IF replace THEN NoCluster ELSE old[u].cluster]
                 ELSE old[u]]
    BY <1>2 DEF IsUpdate
  <2>2. new[t].version \in {v, old[t].version}
    BY <2>1 DEF NewService, NoService
  <2>3. v \in Nat /\ v > old[t].version
    BY <2>1
  <2> QED
    BY <1>1, <2>2, <2>3
<1>3. CASE IsReport(old, new, time)
  <2>1. new[t].version = old[t].version
    BY <1>1, <1>3 DEF IsReport, Service
  <2> QED
    BY <1>1, <2>1
<1>4. CASE IsPlacement(old, new)
  <2>1. new[t].version = old[t].version
    BY <1>1, <1>4 DEF IsPlacement, PlaceRow, Service
  <2> QED
    BY <1>1, <2>1
<1>5. CASE IsEviction(old, new, time)
  <2>1. \A v : NewService(v).version = v
    BY DEF NewService, NoService
  <2>2. new[t].version = old[t].version
    BY <1>5, <2>1 DEF IsEviction
  <2> QED
    BY <1>1, <2>2
<1> QED
  BY <1>2, <1>3, <1>4, <1>5 DEF RowFollows

(* No operation of the registry places a part of the pending services.     *)
LEMMA FollowsWhole ==
    ASSUME NEW old, GoodRow(old), NEW new, NEW time, RowFollows(old, new, time),
           NEW t \in Pending(old), new[t].cluster # NoCluster
    PROVE  Pending(new) = {}
<1>1. old \in [Tier -> Service] /\ t \in Tier /\ old[t].cluster = NoCluster
  BY DEF GoodRow, Row, Pending
<1>2. CASE IsUpdate(old, new)
  <2>1. PICK T \in SUBSET Tier, v \in 1 .. MaxVersion, replace \in BOOLEAN :
          new = [u \in Tier |->
                 IF u \in T
                 THEN [NewService(v) EXCEPT
                         !.cluster = IF replace THEN NoCluster ELSE old[u].cluster]
                 ELSE old[u]]
    BY <1>2 DEF IsUpdate
  <2>2. new[t].cluster = NoCluster
    BY <1>1, <2>1 DEF NewService, NoService
  <2> QED
    BY <2>2
<1>3. CASE IsReport(old, new, time)
  <2>1. new[t].cluster = NoCluster
    BY <1>1, <1>3 DEF IsReport, Service
  <2> QED
    BY <2>1
<1>4. CASE IsPlacement(old, new)
  <2>1. PICK where \in [Tier -> Clusters \cup {NoCluster}] :
          /\ \A u \in Pending(old) : where[u] # NoCluster
          /\ new = PlaceRow(old, where)
    BY <1>4 DEF IsPlacement
  <2>2. ASSUME NEW u \in Pending(new) PROVE FALSE
    <3>1. u \in Tier /\ new[u].svc /\ new[u].cluster = NoCluster
      BY DEF Pending
    <3>2. CASE u \in Pending(old)
      BY <1>1, <2>1, <3>1, <3>2 DEF PlaceRow, Service
    <3>3. CASE u \notin Pending(old)
      BY <2>1, <3>1, <3>3 DEF PlaceRow, Pending
    <3> QED
      BY <3>2, <3>3
  <2> QED
    BY <2>2
<1>5. CASE IsEviction(old, new, time)
  <2>1. \A v : NewService(v).cluster = NoCluster
    BY DEF NewService, NoService
  <2>2. new[t].cluster = NoCluster
    BY <1>1, <1>5, <2>1 DEF IsEviction
  <2> QED
    BY <2>2
<1> QED
  BY <1>2, <1>3, <1>4, <1>5 DEF RowFollows

(* The row of one application changes, and others do not.                  *)
LEMMA RowChanges ==
    ASSUME SerialInv, TableMove, NEW a \in Apps, kb'[a] # kb[a]
    PROVE  \/ a \notin created
           \/ kb'[a] = NoRow /\ kb[a] # NoRow
           \/ RowFollows(kb[a], kb'[a], clock)
<1>1. kb \in [Apps -> Row \cup {NoRow}]
  BY DEF SerialInv, IInv, TypeOK
<1> QED
  BY <1>1 DEF TableMove

(* Without overlap a deleted application stays deleted: no write brings    *)
(* back a row that an earlier read still had.                              *)
THEOREM DeletesAreFinal == MaxOverlap = 1 /\ Spec => DeleteIsFinal
<1>1. ASSUME SerialInv, [Next]_vars
      PROVE  [\A a \in created : kb[a] = NoRow => kb'[a] = NoRow]_vars
  <2> SUFFICES ASSUME NEW a \in created, kb[a] = NoRow PROVE kb'[a] = NoRow
    OBVIOUS
  <2>1. a \in Apps /\ TableMove
    BY <1>1, TableMoves DEF SerialInv, IInv, TypeOK
  <2> QED
    BY <1>1, <2>1, RowChanges DEF RowFollows
<1> QED
  BY <1>1, SerialInvariance, PTL DEF Spec, DeleteIsFinal

(* Without overlap no update is taken back by the write of an older read.  *)
THEOREM UpdatesAreKept == MaxOverlap = 1 /\ Spec => VersionsMoveForward
<1>1. ASSUME SerialInv, [Next]_vars
      PROVE  [\A a \in Apps, t \in Tier : kb[a] # NoRow /\ kb'[a] # NoRow =>
                  kb'[a][t].version >= kb[a][t].version]_vars
  <2> SUFFICES ASSUME NEW a \in Apps, NEW t \in Tier, kb[a] # NoRow, kb'[a] # NoRow
               PROVE  kb'[a][t].version >= kb[a][t].version
    OBVIOUS
  <2>1. GoodRow(kb[a]) /\ a \in created
    BY <1>1 DEF SerialInv, IInv, GoodRows, TableIsYoung
  <2>2. CASE kb'[a] = kb[a]
    BY <2>1, <2>2 DEF GoodRow, Row, Service
  <2>3. CASE kb'[a] # kb[a]
    BY <1>1, <2>1, <2>3, TableMoves, RowChanges, FollowsForward
  <2> QED
    BY <2>2, <2>3
<1> QED
  BY <1>1, SerialInvariance, PTL DEF Spec, VersionsMoveForward

(* Without overlap the services of an application are placed together.     *)
THEOREM PlacementsAreWhole == MaxOverlap = 1 /\ Spec => NoPartialPlacement
<1>1. ASSUME SerialInv, [Next]_vars
      PROVE  [\A a \in Apps :
                  /\ kb[a] # NoRow /\ kb'[a] # NoRow
                  /\ \E t \in Pending(kb[a]) : kb'[a][t].cluster # NoCluster
                  => Pending(kb'[a]) = {}]_vars
  <2> SUFFICES ASSUME NEW a \in Apps, kb[a] # NoRow, kb'[a] # NoRow,
                      NEW t \in Pending(kb[a]), kb'[a][t].cluster # NoCluster
               PROVE  Pending(kb'[a]) = {}
    OBVIOUS
  <2>1. GoodRow(kb[a]) /\ a \in created
    BY <1>1 DEF SerialInv, IInv, GoodRows, TableIsYoung
  <2>2. kb'[a] # kb[a]
    BY DEF Pending
  <2>3. RowFollows(kb[a], kb'[a], clock)
    BY <1>1, <2>1, <2>2, TableMoves, RowChanges
  <2> QED
    BY <2>1, <2>3, FollowsWhole
<1> QED
  BY <1>1, SerialInvariance, PTL DEF Spec, NoPartialPlacement
=============================================================================
