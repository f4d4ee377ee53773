--------------------------- MODULE ResourceAgent ---------------------------
(***************************************************************************)
(* The Resource Agents (RA), one per cluster, against the RLA they poll.   *)
(*                                                                         *)
(* Once per heartbeat interval an RA starts, at the same time,             *)
(*   DeployScheduledJobs    fetch the applications offered to the cluster; *)
(*       a goroutine per application applies its manifests in a namespace  *)
(*       of the application's name, reports it progressing (or failed),    *)
(*       and records it in the ConfigMap "applications";                   *)
(*   SendApplicationStatus  a goroutine per recorded application reports   *)
(*       its health; when the RLA answers 404 it cleans the name up:       *)
(*       delete the namespace, then the record.                            *)
(* The next tick waits for all of them.  Nothing else orders them.         *)
(*                                                                         *)
(* On the side of the RLA, an operation on a row is one step here: what    *)
(* happens when it is not is the subject of LeadAgent.  Time is left out:  *)
(* any heartbeat may be an old one when the sweep looks at it.             *)
(***************************************************************************)
EXTENDS AppRow, FiniteSets

CONSTANTS
    Apps,           \* application ids
    Names,          \* application names; the table does not make them unique
    Forms,          \* what users may write of each application, see Form
    NoRecord,       \* the ConfigMap has no such key
    MaxVersion,     \* bound: versions given out by the RLA
    MaxFaults       \* bound: crashes and failed Kubernetes calls

(* What users write of an application is its name, its labels, of which    *)
(* matters whether there are any (else the column holds JSON null, and the *)
(* program a nil map), and its manifests, of which matters what tiers'     *)
(* addresses the ConfigMaps of each ask for.                               *)
Form == [name : Names, labelled : BOOLEAN, asks : [Tier -> SUBSET Tier]]

ASSUME AgentAssumption ==
    /\ DOMAIN Forms = Apps
    /\ \A a \in Apps : Forms[a] # {} /\ Forms[a] \subseteq Form
    /\ MaxVersion \in Nat /\ MaxFaults \in Nat

Version  == 1 .. MaxVersion
Workload == [app : Apps, ver : Version]

JobStep    == {"apply", "progressing", "failed", "record"}
ReportStep == {"send", "delete namespace", "delete record"}

Job    == [app : Apps, ver : Version, name : Names, step : JobStep, deadly : BOOLEAN]
Report == [app : Apps, ver : Version, name : Names, step : ReportStep]

ASSUME NoRecordAssumption == NoRecord \notin Workload

VARIABLES
    kb,             \* the rows of the applications table
    form,           \* ... and what users wrote in them
    created,        \* ids given out so far
    nextVersion,    \* the next fresh version
    records,        \* per cluster, the ConfigMap "applications"
    running,        \* per cluster and namespace, the workloads applied there
    due,            \* per cluster, the tasks of this tick not yet started
    jobs,           \* per cluster, the goroutines of DeployScheduledJobs
    reports,        \* per cluster, those of SendApplicationStatus
    applied,        \* history: what was ever applied on a cluster
    faults          \* crashes and failed calls so far

lead  == <<kb, form, created, nextVersion>>
tasks == <<due, jobs, reports>>
vars  == <<kb, form, created, nextVersion, records, running, due, jobs, reports,
           applied, faults>>

TypeOK ==
    /\ kb \in [Apps -> Row \cup {NoRow}]
    /\ form \in [Apps -> Form]
    /\ created \subseteq Apps
    /\ nextVersion \in 1 .. MaxVersion + 1
    /\ records \in [Clusters -> [Names -> Workload \cup {NoRecord}]]
    /\ running \in [Clusters -> [Names -> SUBSET Workload]]
    /\ due \in [Clusters -> SUBSET {"deploy", "status"}]
    /\ jobs \in [Clusters -> SUBSET Job]
    /\ reports \in [Clusters -> SUBSET Report]
    /\ applied \in [Clusters -> SUBSET Workload]
    /\ faults \in 0 .. MaxFaults

(* What stands for the form where there is no row.                         *)
Blank(a) == CHOOSE f \in Forms[a] : TRUE

Init ==
    /\ kb = [a \in Apps |-> NoRow]
    /\ form = [a \in Apps |-> Blank(a)]
    /\ created = {}
    /\ nextVersion = 1
    /\ records = [c \in Clusters |-> [n \in Names |-> NoRecord]]
    /\ running = [c \in Clusters |-> [n \in Names |-> {}]]
    /\ due     = [c \in Clusters |-> {}]
    /\ jobs    = [c \in Clusters |-> {}]
    /\ reports = [c \in Clusters |-> {}]
    /\ applied = [c \in Clusters |-> {}]
    /\ faults = 0

-----------------------------------------------------------------------------
(* The RLA, one operation of it at a time.                                 *)

Fresh == nextVersion <= MaxVersion

SetRow(a, row) ==
    /\ kb' = [kb EXCEPT ![a] = row]
    /\ UNCHANGED <<created, records, running, tasks, applied, faults>>

Create(a, S, f) ==
    /\ Fresh /\ a \notin created
    /\ kb' = [kb EXCEPT ![a] = NewRow(S, nextVersion)]
    /\ form' = [form EXCEPT ![a] = f]
    /\ created' = created \cup {a}
    /\ nextVersion' = nextVersion + 1
    /\ UNCHANGED <<records, running, tasks, applied, faults>>

(* The "application" part of the form sets the name and the labels with    *)
(* the QoS.                                                                *)
Update(a, req, f) ==
    /\ Fresh /\ kb[a] # NoRow
    /\ f.name # form[a].name \/ f.labelled # form[a].labelled => req.meta
    /\ \A t \in Tier \ req.svcs : f.asks[t] = form[a].asks[t]
    /\ SetRow(a, UpdateRow(kb[a], req, nextVersion))
    /\ form' = [form EXCEPT ![a] = f]
    /\ nextVersion' = nextVersion + 1

Delete(a) ==
    /\ kb[a] # NoRow
    /\ SetRow(a, NoRow)
    /\ form' = [form EXCEPT ![a] = Blank(a)]
    /\ UNCHANGED nextVersion

Schedule(a, pick) ==
    /\ kb[a] # NoRow /\ Pending(kb[a]) # {}
    /\ Pending(PlaceRow(kb[a], pick)) = {}
    /\ SetRow(a, PlaceRow(kb[a], pick))
    /\ UNCHANGED <<form, nextVersion>>

Now  == 1
Late == Now + HeartbeatTimeout + 1

Sweep(a) ==
    /\ kb[a] # NoRow
    /\ ~DerefsNilStatus(kb[a], Late)
    /\ SweptRow(kb[a], Late) # kb[a]
    /\ SetRow(a, SweptRow(kb[a], Late))
    /\ UNCHANGED <<form, nextVersion>>

(* The RLA's side of NotifyAppHealth, when c says that w is in state s.    *)
HearOf(c, w, s) ==
    kb' = IF Verdict(kb[w.app], c, w.ver) = "ok"
          THEN [kb EXCEPT ![w.app] = ReportRow(kb[w.app], c, w.ver, s, Now)]
          ELSE kb

-----------------------------------------------------------------------------
(* Mutant of Tick: the tasks of the last tick are not waited for.          *)
TickUnwaited(c) ==
    /\ due[c] = {} /\ reports[c] = {}
    /\ due' = [due EXCEPT ![c] = {"deploy", "status"}]
    /\ UNCHANGED <<lead, records, running, jobs, reports, applied, faults>>

Tick(c) ==
    /\ due[c] = {} /\ jobs[c] = {} /\ reports[c] = {}
    /\ due' = [due EXCEPT ![c] = {"deploy", "status"}]
    /\ UNCHANGED <<lead, records, running, jobs, reports, applied, faults>>

(* The RLA or the ConfigMap could not be read: the task ends.              *)
NoAnswer(c, task) ==
    /\ task \in due[c]
    /\ due' = [due EXCEPT ![c] = @ \ {task}]
    /\ UNCHANGED <<lead, records, running, jobs, reports, applied, faults>>

(* An offer has the address of each tier the application has a service in. *)
AsksInVain(a, t) == \E u \in form[a].asks[t] : ~kb[a][u].svc

OfferedAt(c) == {a \in Apps : OfferedTo(kb[a], c)}

(* Mutant of Offers: the branches of the tiers mixed up.                   *)
OffersEdgeVersion(c) ==
    {[app |-> a, ver |-> kb[a]["edge"].version, name |-> form[a].name, step |-> "apply",
      deadly |-> AsksInVain(a, TierOf[c])] : a \in OfferedAt(c)}

Offers(c) ==
    {[app |-> a, ver |-> kb[a][TierOf[c]].version, name |-> form[a].name, step |-> "apply",
      deadly |-> AsksInVain(a, TierOf[c])] : a \in OfferedAt(c)}

(* The RLA adds labels of its own to those of each application it offers.  *)
(* Where there are none this is an assignment to a nil map: the handler    *)
(* panics, and the agent gets none of its offers.                          *)
Unoffered(c) == \E a \in OfferedAt(c) : ~form[a].labelled

OffersPanic(c) ==
    /\ "deploy" \in due[c] /\ Unoffered(c)
    /\ due' = [due EXCEPT ![c] = @ \ {"deploy"}]
    /\ UNCHANGED <<lead, records, running, jobs, reports, applied, faults>>

GetScheduledJobs(c) ==
    /\ "deploy" \in due[c] /\ ~Unoffered(c)
    /\ due'  = [due EXCEPT ![c] = @ \ {"deploy"}]
    /\ jobs' = [jobs EXCEPT ![c] = @ \cup Offers(c)]
    /\ UNCHANGED <<lead, records, running, reports, applied, faults>>

-----------------------------------------------------------------------------
(* DeployScheduledJobs: one goroutine.                                     *)

What(j) == [app |-> j.app, ver |-> j.ver]

Proceed(c, j, step) ==
    /\ jobs' = [jobs EXCEPT ![c] = (@ \ {j}) \cup {[j EXCEPT !.step = step]}]
    /\ UNCHANGED <<due, reports, faults>>

JobEnds(c, j) ==
    /\ jobs' = [jobs EXCEPT ![c] = @ \ {j}]
    /\ UNCHANGED <<due, reports>>

(* The namespace has the objects of w, over those of w.app's version before*)
Install(c, n, w) ==
    /\ running' = [running EXCEPT ![c][n] = {x \in @ : x.app # w.app} \cup {w}]
    /\ applied' = [applied EXCEPT ![c] = @ \cup {w}]

Apply(c, j) ==
    /\ j.step = "apply" /\ ~j.deadly
    /\ Install(c, j.name, What(j))
    /\ Proceed(c, j, "progressing")
    /\ UNCHANGED <<lead, records>>

(* Mutant of ApplyFails: the errors are collected and forgotten.           *)
ApplyFailsQuietly(c, j) ==
    /\ j.step = "apply" /\ ~j.deadly
    /\ UNCHANGED <<running, applied>>
    /\ Proceed(c, j, "progressing")
    /\ UNCHANGED <<lead, records>>

(* Errors are collected and the remaining resources applied all the same.  *)
ApplyFails(c, j) ==
    /\ j.step = "apply" /\ ~j.deadly
    /\ Install(c, j.name, What(j)) \/ UNCHANGED <<running, applied>>
    /\ Proceed(c, j, "failed")
    /\ UNCHANGED <<lead, records>>

(* A process that dies is started again by Kubernetes; RegisterCluster     *)
(* finds the ConfigMaps as they were.                                      *)
Dies(c) ==
    /\ due'     = [due EXCEPT ![c] = {}]
    /\ jobs'    = [jobs EXCEPT ![c] = {}]
    /\ reports' = [reports EXCEPT ![c] = {}]

(* The address of a tier the application is not in is a nil pointer.  The  *)
(* goroutine panics at the ConfigMap that asks for it, after some of the   *)
(* resources or none, and takes the process with it.                       *)
ApplyPanics(c, j) ==
    /\ j.step = "apply" /\ j.deadly
    /\ Install(c, j.name, What(j)) \/ UNCHANGED <<running, applied>>
    /\ Dies(c)
    /\ UNCHANGED <<lead, records, faults>>

(* Whatever the RLA answers, a deployed application is recorded next.      *)
NotifyDeployed(c, j) ==
    /\ j.step = "progressing"
    /\ HearOf(c, What(j), "progressing")
    /\ Proceed(c, j, "record")
    /\ UNCHANGED <<form, created, nextVersion, records, running, applied>>

(* Mutant of NotifyFailed: the error is logged, and nobody told.           *)
NotifyFailedNot(c, j) ==
    /\ j.step = "failed"
    /\ JobEnds(c, j)
    /\ UNCHANGED <<lead, records, running, applied, faults>>

(* A failed one is not recorded.                                           *)
NotifyFailed(c, j) ==
    /\ j.step = "failed"
    /\ HearOf(c, What(j), "failed")
    /\ JobEnds(c, j)
    /\ UNCHANGED <<form, created, nextVersion, records, running, applied, faults>>

(* The POST did not get through.                                           *)
NotifyLost(c, j) ==
    /\ \/ j.step = "progressing" /\ Proceed(c, j, "record")
       \/ j.step = "failed" /\ JobEnds(c, j) /\ UNCHANGED faults
    /\ UNCHANGED <<lead, records, running, applied>>

Record(c, j) ==
    /\ j.step = "record"
    /\ records' = [records EXCEPT ![c][j.name] = What(j)]
    /\ JobEnds(c, j)
    /\ UNCHANGED <<lead, running, applied, faults>>

RecordFails(c, j) ==
    /\ j.step = "record" /\ faults < MaxFaults
    /\ faults' = faults + 1
    /\ JobEnds(c, j)
    /\ UNCHANGED <<lead, records, running, applied>>

-----------------------------------------------------------------------------
(* SendApplicationStatus: read the records, then a goroutine for each.     *)

Recorded(c) == {n \in Names : records[c][n] # NoRecord}

ReadRecords(c) ==
    /\ "status" \in due[c]
    /\ due' = [due EXCEPT ![c] = @ \ {"status"}]
    /\ reports' = [reports EXCEPT ![c] = @ \cup
           {[app |-> records[c][n].app, ver |-> records[c][n].ver, name |-> n,
             step |-> "send"] : n \in Recorded(c)}]
    /\ UNCHANGED <<lead, records, running, jobs, applied, faults>>

ReportEnds(c, p) ==
    /\ reports' = [reports EXCEPT ![c] = @ \ {p}]
    /\ UNCHANGED <<due, jobs>>

ReportGoesOn(c, p, step) ==
    /\ reports' = [reports EXCEPT ![c] = (@ \ {p}) \cup {[p EXCEPT !.step = step]}]
    /\ UNCHANGED <<due, jobs>>

(* External, Kubernetes: the list of deployments of a namespace that does  *)
(* not exist is empty, and no deployment of an empty list is unready.      *)
Healths(c, n) == IF running[c][n] = {} THEN {"healthy"} ELSE Reported

SendStatus(c, p, s) ==
    /\ p.step = "send"
    /\ s \in Healths(c, p.name)
    /\ HearOf(c, What(p), s)
    /\ IF Verdict(kb[p.app], c, p.ver) = "ErrApplicationNotFound"
       THEN ReportGoesOn(c, p, "delete namespace") ELSE ReportEnds(c, p)
    /\ UNCHANGED <<form, created, nextVersion, records, running, applied, faults>>

(* The POST, or the answer to it, did not get through.                     *)
StatusLost(c, p) ==
    /\ p.step = "send"
    /\ \/ UNCHANGED kb
       \/ \E s \in Healths(c, p.name) : HearOf(c, What(p), s)
    /\ ReportEnds(c, p)
    /\ UNCHANGED <<form, created, nextVersion, records, running, applied, faults>>

(* Cleanup.                                                                *)

(* Mutant of DeleteNamespace: the call is made and its effect not seen to. *)
DeleteNamespaceNot(c, p) ==
    /\ p.step = "delete namespace"
    /\ ReportGoesOn(c, p, "delete record")
    /\ UNCHANGED <<lead, records, running, applied, faults>>

DeleteNamespace(c, p) ==
    /\ p.step = "delete namespace"
    /\ running' = [running EXCEPT ![c][p.name] = {}]
    /\ ReportGoesOn(c, p, "delete record")
    /\ UNCHANGED <<lead, records, applied, faults>>

(* Mutant of DeleteRecord: the entry is deleted from a copy of the map.    *)
DeleteRecordNot(c, p) ==
    /\ p.step = "delete record"
    /\ ReportEnds(c, p)
    /\ UNCHANGED <<lead, records, running, applied, faults>>

DeleteRecord(c, p) ==
    /\ p.step = "delete record"
    /\ records' = [records EXCEPT ![c][p.name] = NoRecord]
    /\ ReportEnds(c, p)
    /\ UNCHANGED <<lead, running, applied, faults>>

CleanupFails(c, p) ==
    /\ p.step # "send" /\ faults < MaxFaults
    /\ faults' = faults + 1
    /\ ReportEnds(c, p)
    /\ UNCHANGED <<lead, records, running, applied>>

-----------------------------------------------------------------------------
Crash(c) ==
    /\ faults < MaxFaults
    /\ faults' = faults + 1
    /\ Dies(c)
    /\ UNCHANGED <<lead, records, running, applied>>

-----------------------------------------------------------------------------
(* What the REST handler can ask: the QoS comes with the name.             *)
Requests == {req \in Request : req.qos = req.meta /\ req.svcs \subseteq {TierOf[c] : c \in Clusters}}

Picks == {p \in [Tier -> Clusters \cup {NoCluster}] :
             \A t \in Tier : p[t] \in Clusters => TierOf[p[t]] = t}

Lead ==
    \E a \in Apps :
        \/ \E S \in SUBSET {TierOf[c] : c \in Clusters} \ {{}}, f \in Forms[a] : Create(a, S, f)
        \/ \E req \in Requests, f \in Forms[a] : Update(a, req, f)
        \/ Delete(a)
        \/ \E p \in Picks : Schedule(a, p)
        \/ Sweep(a)

DeployScheduledJobs(c) ==
    \/ GetScheduledJobs(c) \/ OffersPanic(c)
    \/ \E j \in jobs[c] :
          \/ Apply(c, j) \/ ApplyFails(c, j) \/ ApplyPanics(c, j)
          \/ NotifyDeployed(c, j) \/ NotifyFailed(c, j) \/ NotifyLost(c, j)
          \/ Record(c, j) \/ RecordFails(c, j)

SendApplicationStatus(c) ==
    \/ ReadRecords(c)
    \/ \E p \in reports[c] :
          \/ \E s \in Reported : SendStatus(c, p, s)
          \/ StatusLost(c, p)
          \/ DeleteNamespace(c, p) \/ DeleteRecord(c, p) \/ CleanupFails(c, p)

Agent(c) ==
    \/ Tick(c)
    \/ \E task \in {"deploy", "status"} : NoAnswer(c, task)
    \/ DeployScheduledJobs(c)
    \/ SendApplicationStatus(c)

Next == Lead \/ \E c \in Clusters : Agent(c) \/ Crash(c)

Spec == Init /\ [][Next]_vars

-----------------------------------------------------------------------------
(* Is application a placed on c, under the name n?                         *)
PlacedAt(a, c) == kb[a] # NoRow /\ PlacedOn(kb[a], c) # {}
Served(c, n)   == \E a \in Apps : /\ form[a].name = n /\ PlacedAt(a, c)
                                 /\ \E t \in PlacedOn(kb[a], c) :
                                       kb[a][t].status.state \in {"progressing", "healthy"}

(* The RLA is told that a version runs only after the reporting cluster    *)
(* has applied that version, whatever was updated, moved, lost or restarted*)
(* between the offer and the report.                                       *)
ReportedWasApplied ==
    \A a \in Apps : kb[a] # NoRow =>
        \A t \in Tier : kb[a][t].status.state \in {"progressing", "healthy"} =>
            [app |-> a, ver |-> kb[a][t].status.ver] \in applied[kb[a][t].status.from]

(* An old offer never overwrites a newer deployment of the application:    *)
(* the jobs of a tick end before the next tick fetches its offers.         *)
RolloutsMoveForward ==
    [][\A c \in Clusters, n \in Names :
          \A w \in running[c][n], x \in running'[c][n] : w.app = x.app => x.ver >= w.ver]_vars

(* RA README: "Cleanup: deletes workloads that the RLA no longer expects   *)
(* on this cluster".  No step deletes the namespace of an application that *)
(* is placed on the cluster and reported as deployed there.                *)
ExpectedIsNotDeleted ==
    [][\A c \in Clusters, n \in Names :
          running[c][n] # {} /\ running'[c][n] = {} => ~Served(c, n)]_vars

-----------------------------------------------------------------------------
(***************************************************************************)
(* Fairness.  Go runs the goroutines of an agent to their end and the      *)
(* ticker ticks (weak: nothing but the step itself, or the death of the    *)
(* process, disables it).  Requests to the RLA get lost, but not for ever  *)
(* (strong); that one for the offers gets through does not mean that it is *)
(* answered.  An agent that dies in every tick may die before it reports:  *)
(* the properties claim nothing then.  Nothing is assumed of the users or  *)
(* of the RLA's own loop.                                                  *)
(***************************************************************************)
JobStepped(c) ==
    \E j \in jobs[c] :
        \/ Apply(c, j) \/ ApplyFails(c, j) \/ ApplyPanics(c, j)
        \/ NotifyDeployed(c, j) \/ NotifyFailed(c, j)
        \/ NotifyLost(c, j) \/ Record(c, j) \/ RecordFails(c, j)

NotifiedOf(c, a) ==
    \E j \in jobs[c] : j.app = a /\ (NotifyDeployed(c, j) \/ NotifyFailed(c, j))

SentOf(c, n) == \E p \in reports[c], s \in Reported : p.name = n /\ SendStatus(c, p, s)

CleanedOf(c, n) ==
    \E p \in reports[c] : p.name = n /\ (DeleteNamespace(c, p) \/ DeleteRecord(c, p))

Fairness ==
    \A c \in Clusters :
        /\ WF_vars(Tick(c))
        /\ SF_vars(GetScheduledJobs(c) \/ OffersPanic(c))
        /\ SF_vars(ReadRecords(c))
        /\ WF_vars(JobStepped(c))
        /\ \A a \in Apps : SF_vars(NotifiedOf(c, a))
        /\ \A n \in Names : SF_vars(SentOf(c, n))
        /\ \A n \in Names : WF_vars(CleanedOf(c, n))

FairSpec == Spec /\ Fairness

(* An offer to c that kills its agent: it does so in every tick, until the *)
(* application is updated, moved or deleted.                               *)
Deadly(c) == \E a \in OfferedAt(c) : AsksInVain(a, TierOf[c])

(* An offer is answered: an application placed on a cluster does not stay  *)
(* without a status there, however often its agent crashes or its messages *)
(* are lost, unless an application without labels or one that asks for an  *)
(* address in vain is offered to that cluster.                             *)
OfferIsAnswered ==
    \A a \in Apps, c \in Clusters :
        OfferedTo(kb[a], c) ~> (~OfferedTo(kb[a], c) \/ Unoffered(c) \/ Deadly(c))

RecordOf(c, n, a) == records[c][n] # NoRecord /\ records[c][n].app = a

(* A record of an application that has left the cluster does not stay: the *)
(* RLA answers 404 to its next report, and the agent cleans it up.         *)
GoneIsForgotten ==
    \A a \in Apps, c \in Clusters, n \in Names :
        (RecordOf(c, n, a) /\ ~PlacedAt(a, c))
            ~> (~RecordOf(c, n, a) \/ PlacedAt(a, c) \/ Deadly(c))

(* Nor does what runs under its name: it is deleted before the record is,  *)
(* however often Cleanup is interrupted -- unless another application of   *)
(* that name is deployed first and takes the record over.  Then nothing    *)
(* tells the objects of the one from those of the other, and they stay     *)
(* until the other leaves, which is this property for that one.            *)
(* This is so from a state between two ticks on: what is deployed while    *)
(* Cleanup is at work may be left without a record, and so may a           *)
(* deployment that failed half-way.                                        *)
AtRest(c, n) == \A g \in jobs[c] \cup reports[c] : g.name # n

TakenOver(c, n, a) == \E b \in Apps \ {a} : RecordOf(c, n, b)

GoneIsDeleted ==
    \A a \in Apps, c \in Clusters, n \in Names :
        (RecordOf(c, n, a) /\ ~PlacedAt(a, c) /\ AtRest(c, n))
            ~> \/ running[c][n] = {} \/ PlacedAt(a, c)
               \/ TakenOver(c, n, a) \/ Deadly(c)
=============================================================================
