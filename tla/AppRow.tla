------------------------------- MODULE AppRow -------------------------------
(***************************************************************************)
(* One row of the knowledge base's "applications" table and what the       *)
(* handlers of the Resource Lead Agent (RLA) compute from it.  Nothing     *)
(* here reads or writes a variable: the modules LeadAgent and AppRegistry  *)
(* say when the rows are read and when they are written back.              *)
(*                                                                         *)
(* An application has one optional service per tier (cloud, fog, edge).    *)
(* Its columns per tier are:                                               *)
(*   svc      the service is present  (the manifest itself is opaque)      *)
(*   version  the version uuid, a fresh number; 0 is NULL                  *)
(*   cluster  the cluster it is placed on, with the node list that is      *)
(*            always set and cleared with it                               *)
(*   status   the state last reported, "NULL" when there is none           *)
(*   hb       when it was reported; 0 is NULL                              *)
(* A status also carries who reported it and for which version ("from" and *)
(* "ver").  The table has no such columns: they are history, for the       *)
(* properties only, and no definition below decides anything on them.      *)
(***************************************************************************)
EXTENDS Naturals

CONSTANTS
    Clusters,           \* cluster ids
    TierOf,             \* the tier a cluster was registered with
    NoCluster,          \* NULL in a *_svc_cluster column
    NoRow,              \* no row with that id
    HeartbeatTimeout    \* app.applicationheartbeattimeout, in clock ticks

Tier == {"cloud", "fog", "edge"}

ASSUME ClustersAssumption ==
    /\ TierOf \in [Clusters -> Tier]
    /\ NoCluster \notin Clusters

ASSUME TimeoutAssumption == HeartbeatTimeout \in Nat

State    == {"NULL", "progressing", "healthy", "failed"}
Reported == State \ {"NULL"}     \* what ClusterApplicationStatus.Validate lets in

Status   == [state : State, from : Clusters \cup {NoCluster}, ver : Nat]
NoStatus == [state |-> "NULL", from |-> NoCluster, ver |-> 0]

Service == [svc     : BOOLEAN,
            version : Nat,
            cluster : Clusters \cup {NoCluster},
            status  : Status,
            hb      : Nat]
Row == [Tier -> Service]

ASSUME NoRowAssumption == NoRow \notin Row

NoService == [svc |-> FALSE, version |-> 0, cluster |-> NoCluster,
              status |-> NoStatus, hb |-> 0]

NewService(ver) == [NoService EXCEPT !.svc = TRUE, !.version = ver]

-----------------------------------------------------------------------------
(* CreateApplication: the tiers in S are given, each with a fresh version. *)
NewRow(S, ver) == [t \in Tier |-> IF t \in S THEN NewService(ver) ELSE NoService]

(***************************************************************************)
(* UpdateApplication.  A request carries a new QoS, a new name or new      *)
(* labels, and new manifests for some tiers.  The QoS comparison of the    *)
(* code compares two pointers, so a QoS that is given is always a new one. *)
(* A new QoS gives up the placement; a new manifest keeps it.              *)
(***************************************************************************)
Request == [qos : BOOLEAN, meta : BOOLEAN, svcs : SUBSET Tier]

Touches(req, row, t) == \/ t \in req.svcs
                        \/ (req.qos \/ req.meta) /\ row[t].svc

(* Mutant of UpdateRow: the status of the old version stays.               *)
UpdateRowKeepsStatus(row, req, ver) ==
    [t \in Tier |->
        IF Touches(req, row, t)
        THEN [row[t] EXCEPT
                !.svc = TRUE,
                !.version = ver,
                !.cluster = IF req.qos /\ row[t].svc THEN NoCluster ELSE row[t].cluster]
        ELSE row[t]]

UpdateRow(row, req, ver) ==
    [t \in Tier |->
        IF Touches(req, row, t)
        THEN [NewService(ver) EXCEPT
                !.cluster = IF req.qos /\ row[t].svc THEN NoCluster ELSE row[t].cluster]
        ELSE row[t]]

(***************************************************************************)
(* ClusterApplicationStatus.  The first tier, in the order cloud, fog,     *)
(* edge, placed on the reporting cluster c is the one the report is about. *)
(***************************************************************************)
PlacedOn(row, c) == {t \in Tier : row[t].cluster = c}

ReportedTier(row, c) == IF row["cloud"].cluster = c THEN "cloud"
                        ELSE IF row["fog"].cluster = c THEN "fog" ELSE "edge"

Verdict(row, c, v) ==
    IF row = NoRow \/ PlacedOn(row, c) = {} THEN "ErrApplicationNotFound"
    ELSE IF row[ReportedTier(row, c)].version = v THEN "ok"
    ELSE "ErrApplicationNotSynced"

(* Mutant of ReportRow: the heartbeat is not set.                          *)
ReportRowNoHeartbeat(row, c, v, s, now) ==
    [row EXCEPT ![ReportedTier(row, c)].status = [state |-> s, from |-> c, ver |-> v]]

ReportRow(row, c, v, s, now) ==
    [row EXCEPT ![ReportedTier(row, c)].status = [state |-> s, from |-> c, ver |-> v],
                ![ReportedTier(row, c)].hb     = now]

-----------------------------------------------------------------------------
(***************************************************************************)
(* HandleStalledApps.  A service is evicted when it has a status that is   *)
(* not "failed", the CLOUD status is not "progressing", and its heartbeat  *)
(* is older than the timeout.  The three tests of the code read            *)
(* *app.CloudSvcStatus, the fog and the edge one too, so the eviction of   *)
(* the cloud service is seen by the tests that follow it.                  *)
(***************************************************************************)
(* Mutant of Evictable: failed services are evicted too.                   *)
EvictableFailed(row, t, now) ==
    /\ row[t].status.state # "NULL"
    /\ row["cloud"].status.state # "progressing"
    /\ row[t].hb + HeartbeatTimeout < now

(* Mutant of Evictable: After for Before.                                  *)
EvictableReversed(row, t, now) ==
    /\ row[t].status.state \notin {"NULL", "failed"}
    /\ row["cloud"].status.state # "progressing"
    /\ row[t].hb + HeartbeatTimeout > now

Evictable(row, t, now) ==
    /\ row[t].status.state \notin {"NULL", "failed"}
    /\ row["cloud"].status.state # "progressing"
    /\ row[t].hb + HeartbeatTimeout < now

(* Mutant of EvictTier: the version goes with the placement.               *)
EvictTierResetsVersion(row, t, now) ==
    IF Evictable(row, t, now)
    THEN [row EXCEPT ![t] = [NoService EXCEPT !.svc = TRUE]]
    ELSE row

EvictTier(row, t, now) ==
    IF Evictable(row, t, now)
    THEN [row EXCEPT ![t] = [@ EXCEPT !.cluster = NoCluster, !.status = NoStatus, !.hb = 0]]
    ELSE row

SweptRow(row, now) ==
    EvictTier(EvictTier(EvictTier(row, "cloud", now), "fog", now), "edge", now)

(* The fog or edge test dereferences the nil cloud status of a row.  Go    *)
(* panics there, nothing recovers, and the RLA process dies.               *)
DerefsNilStatus(row, now) ==
    /\ EvictTier(row, "cloud", now)["cloud"].status.state = "NULL"
    /\ \E t \in {"fog", "edge"} : row[t].status.state \notin {"NULL", "failed"}

-----------------------------------------------------------------------------
(***************************************************************************)
(* SchedulePendingApps.  pick[t] is what the scorer returned for tier t,   *)
(* NoCluster when it found no node.                                        *)
(***************************************************************************)
Pending(row) == {t \in Tier : row[t].svc /\ row[t].cluster = NoCluster}

(* Mutant of PlaceRow: the scorer's answer is stored without the test for  *)
(* "", its way to say there is none.                                       *)
PlaceRowUntested(row, pick) ==
    [t \in Tier |-> IF t \in Pending(row)
                    THEN [row[t] EXCEPT !.cluster = IF pick[t] = NoCluster THEN "" ELSE pick[t]]
                    ELSE row[t]]

PlaceRow(row, pick) ==
    [t \in Tier |-> IF t \in Pending(row) THEN [row[t] EXCEPT !.cluster = pick[t]] ELSE row[t]]

(* GetClusterScheduledApps: the row is offered to cluster c.               *)
OfferedTo(row, c) ==
    /\ row # NoRow
    /\ row[TierOf[c]].cluster = c
    /\ row[TierOf[c]].status.state = "NULL"
=============================================================================
