---------------------------- MODULE AppRowProofs ----------------------------
(***************************************************************************)
(* What the row functions of AppRow preserve.  A row is good when its      *)
(* columns agree with each other: the handlers dereference one of them on  *)
(* the strength of another.  Every function that makes a row to be saved   *)
(* makes a good one, from a good one.                                      *)
(***************************************************************************)
EXTENDS AppRow, TLAPS

GoodService(t, x) ==
    /\ x.svc <=> x.version # 0
    /\ x.cluster # NoCluster => x.svc /\ TierOf[x.cluster] = t
    /\ x.status.state # "NULL" <=> x.hb # 0
    /\ x.status.state # "NULL" => /\ x.cluster # NoCluster
                                  /\ x.status.from = x.cluster
                                  /\ x.status.ver = x.version

GoodRow(row) == row \in Row /\ \A t \in Tier : GoodService(t, row[t])

(* The services the functions build are good services of any tier.         *)
LEMMA NoServiceGood ==
    /\ NoService \in Service
    /\ \A t \in Tier : GoodService(t, NoService)
BY DEF NoService, Service, NoStatus, Status, State, GoodService

LEMMA NewServiceGood ==
    ASSUME NEW ver \in Nat \ {0}
    PROVE  /\ NewService(ver) \in Service
           /\ \A t \in Tier : GoodService(t, NewService(ver))
BY DEF NewService, NoService, Service, NoStatus, Status, State, GoodService

(* A row put together tier by tier from good services is good.             *)
LEMMA RowByTier ==
    ASSUME NEW row, row = [t \in Tier |-> row[t]],
           \A t \in Tier : row[t] \in Service /\ GoodService(t, row[t])
    PROVE  GoodRow(row)
BY DEF GoodRow, Row

(* CreateApplication stores a good row.                                    *)
LEMMA NewRowGood ==
    ASSUME NEW S, NEW ver \in Nat \ {0}
    PROVE  GoodRow(NewRow(S, ver))
<1> DEFINE row == NewRow(S, ver)
<1>1. row = [t \in Tier |-> row[t]]
  BY DEF NewRow
<1>2. \A t \in Tier : row[t] \in Service /\ GoodService(t, row[t])
  BY NoServiceGood, NewServiceGood DEF NewRow
<1> QED
  BY <1>1, <1>2, RowByTier

(* UpdateApplication makes a good row: where it replaces the version it    *)
(* drops the status and the heartbeat that went with the old one.          *)
LEMMA UpdateRowGood ==
    ASSUME NEW row, GoodRow(row), NEW req \in Request, NEW ver \in Nat \ {0}
    PROVE  GoodRow(UpdateRow(row, req, ver))
<1> DEFINE new == UpdateRow(row, req, ver)
           keep(t) == IF req.qos /\ row[t].svc THEN NoCluster ELSE row[t].cluster
<1>1. new = [t \in Tier |-> new[t]]
  BY DEF UpdateRow
<1>2. ASSUME NEW t \in Tier
      PROVE  new[t] \in Service /\ GoodService(t, new[t])
  <2>1. row[t] \in Service /\ GoodService(t, row[t])
    BY DEF GoodRow, Row
  <2>2. CASE Touches(req, row, t)
    <3>1. new[t] = [NewService(ver) EXCEPT !.cluster = keep(t)]
      BY <2>2 DEF UpdateRow
    <3>2. keep(t) \in Clusters \cup {NoCluster}
      BY <2>1 DEF Service
    <3>3. keep(t) # NoCluster => TierOf[keep(t)] = t
      BY <2>1 DEF GoodService
    <3> HIDE DEF keep
    <3>4. new[t] = [svc |-> TRUE, version |-> ver, cluster |-> keep(t),
                    status |-> NoStatus, hb |-> 0]
      BY <3>1 DEF NewService, NoService
    <3>5. NoStatus \in Status /\ NoStatus.state = "NULL"
      BY DEF NoStatus, Status, State
    <3>6. new[t] \in Service
      BY <3>2, <3>4, <3>5 DEF Service
    <3>7. GoodService(t, new[t])
      BY <3>3, <3>4, <3>5 DEF GoodService
    <3> QED
      BY <3>6, <3>7
  <2>3. CASE ~Touches(req, row, t)
    BY <2>1, <2>3 DEF UpdateRow
  <2> QED
    BY <2>2, <2>3
<1> QED
  BY <1>1, <1>2, RowByTier

(* ClusterApplicationStatus makes a good row from one it accepts a report  *)
(* for: the reported tier is placed on the reporting cluster and has the   *)
(* reported version, so the status it stores belongs to the placement.     *)
LEMMA ReportRowGood ==
    ASSUME NEW row, GoodRow(row), NEW c \in Clusters, NEW v \in Nat,
           NEW s \in Reported, NEW now \in Nat \ {0}, Verdict(row, c, v) = "ok"
    PROVE  GoodRow(ReportRow(row, c, v, s, now))
<1> DEFINE new == ReportRow(row, c, v, s, now)
           rt == ReportedTier(row, c)
<1>1. rt \in Tier /\ row[rt].cluster = c
  BY DEF Verdict, PlacedOn, ReportedTier, Tier
<1>2. row[rt].version = v
  BY DEF Verdict
<1>3. row \in Row
  BY DEF GoodRow
<1>4. /\ new = [t \in Tier |-> new[t]]
      /\ \A t \in Tier : t # rt => new[t] = row[t]
      /\ new[rt] = [row[rt] EXCEPT !.status = [state |-> s, from |-> c, ver |-> v],
                                   !.hb = now]
  BY <1>1, <1>3 DEF ReportRow, Row
<1>5. ASSUME NEW t \in Tier
      PROVE  new[t] \in Service /\ GoodService(t, new[t])
  <2>1. row[t] \in Service /\ GoodService(t, row[t])
    BY DEF GoodRow, Row
  <2>2. CASE t = rt
    <3> DEFINE st == [state |-> s, from |-> c, ver |-> v]
    <3>1. new[t] = [svc |-> row[t].svc, version |-> v, cluster |-> c,
                    status |-> st, hb |-> now]
      BY <1>1, <1>2, <1>4, <2>1, <2>2 DEF Service
    <3>2. c # NoCluster
      BY ClustersAssumption
    <3>3. st \in Status /\ st.state # "NULL" /\ st.from = c /\ st.ver = v
      BY DEF Status, Reported, State
    <3>4. (row[t].svc <=> v # 0) /\ row[t].svc \in BOOLEAN /\ row[t].svc /\ TierOf[c] = t
      BY <1>1, <1>2, <2>1, <2>2, <3>2 DEF GoodService, Service
    <3> HIDE DEF st
    <3>5. new[t] \in Service
      BY <3>1, <3>3, <3>4 DEF Service
    <3>6. GoodService(t, new[t])
      BY <3>1, <3>2, <3>3, <3>4 DEF GoodService
    <3> QED
      BY <3>5, <3>6
  <2>3. CASE t # rt
    BY <1>4, <2>1, <2>3
  <2> QED
    BY <2>2, <2>3
<1> QED
  BY <1>4, <1>5, RowByTier

(* HandleStalledApps makes a good row: it drops the placement, the status  *)
(* and the heartbeat of a service together.                                *)
LEMMA EvictTierGood ==
    ASSUME NEW row, GoodRow(row), NEW t \in Tier, NEW now \in Nat
    PROVE  GoodRow(EvictTier(row, t, now))
<1> DEFINE new == EvictTier(row, t, now)
<1>1. CASE Evictable(row, t, now)
  <2>1. row \in Row
    BY DEF GoodRow
  <2>2. /\ new = [u \in Tier |-> new[u]]
        /\ \A u \in Tier : u # t => new[u] = row[u]
        /\ new[t] = [row[t] EXCEPT !.cluster = NoCluster, !.status = NoStatus, !.hb = 0]
    BY <1>1, <2>1 DEF EvictTier, Row
  <2>3. \A u \in Tier : row[u] \in Service /\ GoodService(u, row[u])
    BY DEF GoodRow, Row
  <2>4. NoStatus \in Status /\ NoStatus.state = "NULL"
    BY DEF NoStatus, Status, State
  <2>5. new[t] = [svc |-> row[t].svc, version |-> row[t].version, cluster |-> NoCluster,
                  status |-> NoStatus, hb |-> 0]
    BY <2>2, <2>3 DEF Service
  <2>6. new[t] \in Service
    BY <2>3, <2>4, <2>5 DEF Service
  <2>7. GoodService(t, new[t])
    BY <2>3, <2>4, <2>5 DEF GoodService
  <2> QED
    BY <2>2, <2>3, <2>6, <2>7, RowByTier
<1>2. CASE ~Evictable(row, t, now)
  BY <1>2 DEF EvictTier
<1> QED
  BY <1>1, <1>2

LEMMA SweptRowGood ==
    ASSUME NEW row, GoodRow(row), NEW now \in Nat
    PROVE  GoodRow(SweptRow(row, now))
<1>1. "cloud" \in Tier /\ "fog" \in Tier /\ "edge" \in Tier
  BY DEF Tier
<1>2. GoodRow(EvictTier(row, "cloud", now))
  BY <1>1, EvictTierGood
<1>3. GoodRow(EvictTier(EvictTier(row, "cloud", now), "fog", now))
  BY <1>1, <1>2, EvictTierGood
<1> QED
  BY <1>1, <1>3, EvictTierGood DEF SweptRow

(* SchedulePendingApps makes a good row: the scorer is asked about the     *)
(* nodes of the tier, and what it places had no status.                    *)
LEMMA PlaceRowGood ==
    ASSUME NEW row, GoodRow(row), NEW pick \in [Tier -> Clusters \cup {NoCluster}],
           \A t \in Tier : pick[t] \in Clusters => TierOf[pick[t]] = t
    PROVE  GoodRow(PlaceRow(row, pick))
<1> DEFINE new == PlaceRow(row, pick)
<1>1. new = [t \in Tier |-> new[t]]
  BY DEF PlaceRow
<1>2. ASSUME NEW t \in Tier
      PROVE  new[t] \in Service /\ GoodService(t, new[t])
  <2>1. row[t] \in Service /\ GoodService(t, row[t])
    BY DEF GoodRow, Row
  <2>2. CASE t \in Pending(row)
    <3>1. new[t] = [row[t] EXCEPT !.cluster = pick[t]]
      BY <2>2 DEF PlaceRow
    <3>2. row[t].svc /\ row[t].cluster = NoCluster
      BY <2>2 DEF Pending
    <3>3. new[t] \in Service
      BY <2>1, <3>1 DEF Service
    <3> QED
      BY <2>1, <3>1, <3>2, <3>3 DEF Service, GoodService
  <2>3. CASE t \notin Pending(row)
    BY <2>1, <2>3 DEF PlaceRow
  <2> QED
    BY <2>2, <2>3
<1> QED
  BY <1>1, <1>2, RowByTier
=============================================================================
