------------------------- MODULE RegistrationProofs -------------------------
(***************************************************************************)
(* That what a site believes of itself is in the table, and that a serving *)
(* RLA is found there unless its site had no address when it started, for  *)
(* any sites, crashes, lost answers and users.                             *)
(***************************************************************************)
EXTENDS Registration, TLAPS

USE DEF State

LEMMA Processes ==
    ASSUME NEW p \in Proc
    PROVE  /\ p[1] \in {"RLA", "RA"} /\ p[2] \in Site
           /\ p[1] = "RLA" => p[2] \in RLASites /\ p = <<"RLA", p[2]>>
           /\ p[1] = "RA"  => p[2] \in RASites
BY RegistrationAssumption DEF Proc

LEMMA GoesType ==
    ASSUME TypeOK, NEW p \in Proc,
           NEW st \in State,
           NEW where \in Site \cup {NoSite}, NEW what \in {"nothing", "create", "update"},
           NEW id \in Id, Goes(p, st, where, what, id)
    PROVE  /\ state' \in [Proc -> State]
           /\ at' \in [Proc -> Site \cup {NoSite}]
           /\ asks' \in [Proc -> {"nothing", "create", "update"}]
           /\ row' \in [Proc -> Id]
BY DEF TypeOK, Goes

LEMMA RequestedType ==
    ASSUME NEW p \in Proc, NEW id \in Id \ {0}
    PROVE  Requested(p, id) \in Cluster
BY Processes DEF Requested, Cluster

LEMMA FreshIdType == \A s \in Site : FreshId(s) \in Id \ {0}
BY DEF FreshId, Id

(* A request to make a master is an RLA's, and names a row once it is      *)
(* stored.                                                                 *)
Requests ==
    \A p \in Proc : /\ asks[p] = "update" => p[1] = "RLA" /\ row[p] # 0
                    /\ state[p] = "storing" => asks[p] = "update"
                    /\ state[p] = "answered" => asks[p] # "nothing" /\ row[p] # 0

(* A PATCH under way was asked for.                                        *)
Edits == edit # NoEdit => <<"update", edit.site>> \in asked

RegistrationTypes == TypeOK /\ Requests /\ Edits

LEMMA SelfId ==
    ASSUME TypeOK, NEW s \in Site
    PROVE  /\ self[s].id \in Id
           /\ self[s] # NoSelf => self[s].id # 0
           /\ self[s].role \in {"none", "worker", "master"}
           /\ self[s].role = "none" => self[s] = NoSelf
BY DEF TypeOK, NoSelf, Id

LEMMA RowId ==
    ASSUME TypeOK, NEW s \in Site
    PROVE  /\ clusters[s].id \in Id
           /\ clusters[s] # NoCluster <=> clusters[s].id # 0
BY DEF TypeOK, NoCluster, Cluster, Id

LEMMA GoesRequests ==
    ASSUME TypeOK, Requests, NEW p \in Proc, NEW st, NEW where, NEW what, NEW id,
           Goes(p, st, where, what, id),
           what = "update" => p[1] = "RLA" /\ id # 0,
           st = "storing" => what = "update",
           st = "answered" => what # "nothing" /\ id # 0
    PROVE  Requests'
BY DEF TypeOK, Requests, Goes

LEMMA TypesInit == Init => RegistrationTypes
BY RegistrationAssumption
   DEF Init, RegistrationTypes, TypeOK, Requests, Edits, Id, NoCluster, NoSelf

LEMMA CreateTypes ==
    ASSUME RegistrationTypes, NEW p \in Proc, CreateCluster(p)
    PROVE  RegistrationTypes'
<1> USE DEF RegistrationTypes
<1>1. p[2] \in Site
  BY Processes
<1>2. FreshId(p[2]) \in Id \ {0} /\ Requested(p, FreshId(p[2])) \in Cluster
  BY <1>1, FreshIdType, RequestedType
<1>3. CASE clusters[p[2]] # NoCluster
  <2>1. Goes(p, "registering", NoSite, "nothing", 0)
    BY <1>3 DEF CreateCluster, TriesAgain
  <2> QED
    <3>1. Requests'
      BY <2>1, GoesRequests
    <3>2. TypeOK'
      BY <1>3, <2>1, GoesType DEF CreateCluster, TypeOK, Id, users
    <3> QED
      BY <3>1, <3>2 DEF CreateCluster, Edits, users
<1>4. CASE clusters[p[2]] = NoCluster
  <2>1. Goes(p, "answered", NoSite, "create", FreshId(p[2]))
    BY <1>4 DEF CreateCluster
  <2>2. Requests'
    BY <1>2, <2>1, GoesRequests
  <2> QED
    <3>1. TypeOK'
      <4>1. clusters' \in [Site -> Cluster \cup {NoCluster}]
        BY <1>1, <1>2, <1>4 DEF CreateCluster, TypeOK
      <4> QED
        BY <1>2, <2>1, <4>1, GoesType DEF CreateCluster, TypeOK, users
    <3> QED
      BY <2>2, <3>1 DEF CreateCluster, Edits, users
<1> QED
  BY <1>3, <1>4

LEMMA UpdateTypes ==
    ASSUME RegistrationTypes, NEW p \in Proc, UpdateCluster(p)
    PROVE  RegistrationTypes'
<1> USE DEF RegistrationTypes
<1>1. p[2] \in Site
  BY Processes
<1>2. IdIn(p) \in Id \ {0} /\ p[1] = "RLA"
  <2>1. CASE AtHome(p) /\ Task(p) = "update"
    BY <1>1, <2>1, SelfId DEF AtHome, Task, IdIn
  <2>2. CASE AtLeader(p) /\ asks[p] = "update"
    BY <2>2 DEF Requests, AtLeader, IdIn, TypeOK
  <2> QED
    BY <2>1, <2>2 DEF UpdateCluster
<1>3. CASE clusters[p[2]].id = IdIn(p)
  <2>1. Goes(p, "storing", at[p], "update", IdIn(p)) /\ at[p] \in Site \cup {NoSite}
    BY <1>3 DEF UpdateCluster, TypeOK
  <2>2. Requests'
    BY <1>2, <2>1, GoesRequests
  <2> QED
    BY <1>2, <2>1, <2>2, GoesType DEF UpdateCluster, TypeOK, Edits, users
<1>4. CASE clusters[p[2]].id # IdIn(p)
  <2>1. Goes(p, "registering", NoSite, "nothing", 0)
    BY <1>4 DEF UpdateCluster, TriesAgain
  <2> QED
    <3>1. Requests'
      BY <2>1, GoesRequests
    <3>2. TypeOK'
      BY <2>1, GoesType DEF UpdateCluster, TypeOK, Id, users
    <3> QED
      BY <3>1, <3>2 DEF UpdateCluster, Edits, users
<1> QED
  BY <1>3, <1>4

LEMMA SaveTypes ==
    ASSUME RegistrationTypes, NEW p \in Proc, SaveRow(p)
    PROVE  RegistrationTypes'
<1> USE DEF RegistrationTypes
<1>1. p[2] \in Site /\ row[p] \in Id \ {0} /\ p[1] = "RLA"
  BY Processes DEF SaveRow, Requests, TypeOK
<1>2. Requested(p, row[p]) \in Cluster
  BY <1>1, RequestedType
<1>3. CASE SaveRefused(p[2], row[p])
  <2>1. Goes(p, "registering", NoSite, "nothing", 0)
    BY <1>3 DEF SaveRow, TriesAgain
  <2>2. Requests'
    BY <2>1, GoesRequests
  <2>3. TypeOK'
    BY <1>3, <2>1, GoesType DEF SaveRow, TypeOK, Id, users
  <2> QED
    BY <2>2, <2>3 DEF SaveRow, Edits, users
<1>4. CASE ~SaveRefused(p[2], row[p])
  <2>1. Goes(p, "answered", NoSite, "update", row[p])
    BY <1>4 DEF SaveRow
  <2>2. Requests'
    BY <1>1, <2>1, GoesRequests
  <2>3. clusters' \in [Site -> Cluster \cup {NoCluster}]
    BY <1>1, <1>2, <1>4 DEF SaveRow, TypeOK
  <2>4. TypeOK'
    BY <1>1, <2>1, <2>3, GoesType DEF SaveRow, TypeOK, users
  <2> QED
    BY <2>2, <2>4 DEF SaveRow, Edits, users
<1> QED
  BY <1>3, <1>4

LEMMA TypesStep == RegistrationTypes /\ [Next]_vars => RegistrationTypes'
<1> SUFFICES ASSUME RegistrationTypes, [Next]_vars PROVE RegistrationTypes'
  OBVIOUS
<1> USE RegistrationAssumption DEF RegistrationTypes, users
<1>1. ASSUME NEW p \in Proc, Registered(p)
      PROVE  RegistrationTypes'
  BY <1>1, Processes DEF Registered, Goes, TypeOK, Requests, Edits, Id
<1>2. ASSUME NEW p \in Proc, Call(p)
      PROVE  RegistrationTypes'
  <2>1. CASE p[1] = "RA"
    <3>1. Goes(p, "calling", Seed, "create", 0)
      BY <1>2, <2>1 DEF Call
    <3>2. TypeOK'
      BY <1>2, <3>1, GoesType DEF Call, TypeOK, Id
    <3> QED
      BY <1>2, <3>1, <3>2 DEF Call, Goes, TypeOK, Requests, Edits
  <2>2. CASE p[1] # "RA"
    <3>1. p[1] = "RLA" /\ p[2] \in Site /\ p[2] \in RLASites
      BY <2>2, Processes
    <3>2. /\ cache[p[2]] \in Site \cup {NoSite}
          /\ Task(p) \in {"create", "update"}
          /\ self[p[2]].id \in Id /\ (Task(p) = "update" => self[p[2]].id # 0)
      BY <3>1, <1>2, SelfId DEF Call, Task, TypeOK
    <3>3. Goes(p, "calling", cache[p[2]], Task(p), self[p[2]].id)
      BY <1>2, <2>2 DEF Call
    <3> QED
      BY <1>2, <3>1, <3>2, <3>3 DEF Call, Goes, TypeOK, Requests, Edits, Id
  <2> QED
    BY <2>1, <2>2
<1>3. ASSUME NEW p \in Proc, LookupPanics(p)
      PROVE  RegistrationTypes'
  BY <1>3 DEF LookupPanics, calls, TypeOK, Requests, Edits
<1>4. ASSUME NEW p \in Proc, Forward(p)
      PROVE  RegistrationTypes'
  <2>1. Listed(cache[at[p]]) /\ at[p] \in RLASites
    BY <1>4 DEF Forward, Serves, Proc
  <2>2. cache[at[p]] \in Site
    BY <2>1 DEF Listed, TypeOK
  <2> QED
    BY <1>4, <2>2 DEF Forward, Goes, TypeOK, Requests, Edits, Id
<1>5. ASSUME NEW p \in Proc, CallFails(p)
      PROVE  RegistrationTypes'
  BY <1>5 DEF CallFails, TriesAgain, Goes, TypeOK, Requests, Edits, Id
<1>6. ASSUME NEW p \in Proc, AnswerLost(p)
      PROVE  RegistrationTypes'
  BY <1>6 DEF AnswerLost, TriesAgain, Goes, TypeOK, Requests, Edits, Id
<1>7. ASSUME NEW p \in Proc, WriteSelf(p)
      PROVE  RegistrationTypes'
  <2>1. p[2] \in Site /\ SelfOf(p) \in [id : Id \ {0}, role : {"worker", "master"}]
    BY <1>7, Processes DEF WriteSelf, SelfOf, Requests, TypeOK
  <2> QED
    BY <1>7, <2>1 DEF WriteSelf, TriesAgain, Goes, TypeOK, Requests, Edits, Id
<1>8. ASSUME NEW s \in RASites, SyncClusterConfig(s)
      PROVE  RegistrationTypes'
  BY <1>8 DEF SyncClusterConfig, ClusterConfig, calls, TypeOK, Requests, Edits
<1>9. ASSUME NEW s \in Site, DeleteCluster(s)
      PROVE  RegistrationTypes'
  BY <1>9 DEF DeleteCluster, calls, TypeOK, Requests, Edits
<1>10. ASSUME NEW s \in Site, EditRead(s) \/ GetsAddress(s)
      PROVE  RegistrationTypes'
  BY <1>10 DEF EditRead, GetsAddress, calls, TypeOK, Requests, Edits
<1>11. ASSUME EditSave
      PROVE  RegistrationTypes'
  BY <1>11 DEF EditSave, calls, TypeOK, Requests, Edits
<1>12. ASSUME NEW s \in RLASites, NEW l \in RLASites, Hear(s, l)
      PROVE  RegistrationTypes'
  BY <1>12 DEF Hear, calls, TypeOK, Requests, Edits
<1>13. ASSUME NEW p \in Proc, Crash(p)
      PROVE  RegistrationTypes'
  <2>1. /\ cache' \in [RLASites -> RLASites \cup {NoSite}]
        /\ edit' = NoEdit \/ edit' = edit
        /\ faults' \in 0 .. MaxFaults
    <3>1. cache' = cache \/ cache' = [cache EXCEPT ![p[2]] = NoSite]
      BY <1>13 DEF Crash
    <3>2. edit' = NoEdit \/ edit' = edit
      BY <1>13, Zenon DEF Crash
    <3>3. faults' \in 0 .. MaxFaults
      BY <1>13 DEF Crash, TypeOK
    <3> QED
      BY <3>1, <3>2, <3>3 DEF TypeOK
  <2>2. /\ state' \in [Proc -> State]
        /\ at' \in [Proc -> Site \cup {NoSite}]
        /\ asks' \in [Proc -> {"nothing", "create", "update"}]
        /\ row' \in [Proc -> Id]
    BY <1>13 DEF Crash, TypeOK, Id
  <2>3. TypeOK'
    BY <1>13, <2>1, <2>2 DEF Crash, TypeOK
  <2> QED
    BY <1>13, <2>1, <2>3 DEF Crash, TypeOK, Requests, Edits
<1>14. CASE UNCHANGED vars
  BY <1>14 DEF vars, TypeOK, Requests, Edits
<1> QED
  BY <1>1, <1>2, <1>3, <1>4, <1>5, <1>6, <1>7, <1>8, <1>9, <1>10, <1>11, <1>12, <1>13, <1>14,
     CreateTypes, UpdateTypes, SaveTypes
     DEF Next, Attempt, Serve

(* Processes, requests and the table keep their types, whatever users ask  *)
(* and whoever crashes.                                                    *)
THEOREM RegistrationTypeCorrect == Spec => []TypeOK
<1>1. RegistrationTypes => TypeOK
  BY DEF RegistrationTypes
<1> QED
  BY TypesInit, TypesStep, <1>1, PTL DEF Spec

-----------------------------------------------------------------------------
(* What is true of a site whose row no user touched: "self" names its row, *)
(* "self" says master only when the row does, with the raft_id; and so     *)
(* does every answer on its way to "self", and every row about to be saved.*)
SelfTrue(s) ==
    self[s] # NoSelf =>
        /\ clusters[s].id = self[s].id
        /\ self[s].role = "master" => clusters[s].role = "master" /\ clusters[s].raft = s

AnswerTrue(p) ==
    /\ state[p] \in {"storing", "answered"} => clusters[p[2]].id = row[p]
    /\ state[p] = "answered" /\ p[1] = "RLA" =>
          clusters[p[2]].role = "master" /\ clusters[p[2]].raft = p[2]

SiteTrue(s) == SelfTrue(s) /\ \A p \in Proc : p[2] = s => AnswerTrue(p)

(* An RLA that serves registered has read "master" in "self", which nobody *)
(* takes back.                                                             *)
ServersAreMasters ==
    \A s \in RLASites : <<"RLA", s>> \in Proc /\ state[<<"RLA", s>>] = "serving" =>
        self[s].role = "master"

(* Before a site has its address nothing is stored or asked for it, and    *)
(* only its own RLA's requests put its Raft id into a row: not as long as  *)
(* that RLA serves unregistered.                                           *)
NotYet(s) ==
    s \notin addressed =>
        /\ clusters[s] = NoCluster /\ self[s] = NoSelf
        /\ \A p \in Proc : p[2] = s => state[p] \in {"registering", "unregistered"}

Unlisted(s) ==
    \A p \in Proc : p = <<"RLA", s>> /\ state[p] = "unregistered" => clusters[s].raft # s

LateTrue(s) == NotYet(s) /\ Unlisted(s)

RegInv ==
    /\ RegistrationTypes
    /\ ServersAreMasters
    /\ \A s \in Site : ~Touched(s) => SiteTrue(s) /\ LateTrue(s)

LEMMA RegInit == Init => RegInv
<1> SUFFICES ASSUME Init PROVE RegInv
  OBVIOUS
<1>1. ServersAreMasters
  BY RegistrationAssumption DEF Init, ServersAreMasters
<1>2. \A s \in Site : SiteTrue(s) /\ LateTrue(s)
  BY DEF Init, SiteTrue, SelfTrue, AnswerTrue, LateTrue, NotYet, Unlisted
<1> QED
  BY <1>1, <1>2, TypesInit DEF RegInv

(* Most steps leave the row and "self" of a site alone, and bring no       *)
(* process of it nearer to writing them.                                   *)
LEMMA SiteStays ==
    ASSUME NEW s \in Site, SiteTrue(s), clusters'[s] = clusters[s], self'[s] = self[s],
           \A p \in Proc : p[2] = s /\ state'[p] \in {"storing", "answered"} =>
               state'[p] = state[p] /\ row'[p] = row[p]
    PROVE  SiteTrue(s)'
BY DEF SiteTrue, SelfTrue, AnswerTrue

LEMMA CreateSite ==
    ASSUME RegInv, NEW p \in Proc, CreateCluster(p), NEW s \in Site, ~Touched(s)
    PROVE  SiteTrue(s)'
<1>0. TypeOK /\ Requests /\ SiteTrue(s) /\ p[2] \in Site
  BY Processes DEF RegInv, RegistrationTypes
<1>1. CASE clusters[p[2]] # NoCluster
  BY <1>0, <1>1, SiteStays DEF CreateCluster, TriesAgain, Goes, TypeOK
<1>2. CASE clusters[p[2]] = NoCluster /\ p[2] # s
  BY <1>0, <1>2, SiteStays DEF CreateCluster, Goes, TypeOK
<1>3. CASE clusters[p[2]] = NoCluster /\ p[2] = s
  <2>1. clusters[s].id = 0 /\ self[s] = NoSelf /\ self' = self
    BY <1>0, <1>3, SelfId DEF SiteTrue, SelfTrue, NoCluster, CreateCluster
  <2>2. \A q \in Proc : q[2] = s => state[q] \notin {"storing", "answered"}
    BY <1>0, <2>1 DEF SiteTrue, AnswerTrue, Requests
  <2>3. /\ clusters'[s] = Requested(p, FreshId(s))
        /\ row'[p] = FreshId(s)
        /\ \A q \in Proc : q # p => state'[q] = state[q]
    BY <1>0, <1>3 DEF CreateCluster, Goes, TypeOK
  <2>4. \A q \in Proc : q[2] = s => AnswerTrue(q)'
    <3>1. AnswerTrue(p)'
      BY <1>3, <2>3 DEF AnswerTrue, Requested
    <3>2. ASSUME NEW q \in Proc, q # p, q[2] = s
          PROVE  AnswerTrue(q)'
      BY <2>2, <2>3, <3>2 DEF AnswerTrue
    <3> QED
      BY <3>1, <3>2
  <2> QED
    BY <2>1, <2>4 DEF SiteTrue, SelfTrue
<1> QED
  BY <1>1, <1>2, <1>3

LEMMA UpdateSite ==
    ASSUME RegInv, NEW p \in Proc, UpdateCluster(p), NEW s \in Site, ~Touched(s)
    PROVE  SiteTrue(s)'
<1>0. TypeOK /\ SiteTrue(s) /\ p[2] \in Site
  BY Processes DEF RegInv, RegistrationTypes
<1>1. CASE clusters[p[2]].id # IdIn(p)
  BY <1>0, <1>1, SiteStays DEF UpdateCluster, TriesAgain, Goes, TypeOK
<1>2. CASE clusters[p[2]].id = IdIn(p)
  BY <1>0, <1>2 DEF UpdateCluster, Goes, TypeOK, SiteTrue, SelfTrue, AnswerTrue
<1> QED
  BY <1>1, <1>2

LEMMA SaveSite ==
    ASSUME RegInv, NEW p \in Proc, SaveRow(p), NEW s \in Site, ~Touched(s)
    PROVE  SiteTrue(s)'
<1>0. TypeOK /\ SiteTrue(s) /\ p[2] \in Site /\ p[1] = "RLA" /\ state[p] = "storing"
  BY Processes DEF RegInv, RegistrationTypes, Requests, SaveRow
<1>1. CASE SaveRefused(p[2], row[p])
  BY <1>0, <1>1, SiteStays DEF SaveRow, TriesAgain, Goes, TypeOK
<1>2. CASE ~SaveRefused(p[2], row[p]) /\ p[2] # s
  BY <1>0, <1>2, SiteStays DEF SaveRow, Goes, TypeOK
<1>3. CASE ~SaveRefused(p[2], row[p]) /\ p[2] = s
  <2>1. clusters[s].id = row[p]
    BY <1>0, <1>3 DEF SiteTrue, AnswerTrue
  <2>2. /\ clusters'[s].id = row[p] /\ clusters'[s].role = "master" /\ clusters'[s].raft = s
        /\ self' = self /\ \A q \in Proc : row'[q] = row[q]
        /\ \A q \in Proc : q # p => state'[q] = state[q]
    BY <1>0, <1>3 DEF SaveRow, Goes, TypeOK, Requested
  <2> QED
    BY <1>0, <1>3, <2>1, <2>2 DEF SiteTrue, SelfTrue, AnswerTrue
<1> QED
  BY <1>1, <1>2, <1>3

LEMMA WriteSite ==
    ASSUME RegInv, NEW p \in Proc, WriteSelf(p), NEW s \in Site, ~Touched(s)
    PROVE  SiteTrue(s)'
<1>0. TypeOK /\ SiteTrue(s) /\ p[2] \in Site /\ state[p] = "answered"
  BY Processes DEF RegInv, RegistrationTypes, WriteSelf
<1>1. CASE self'[s] = self[s]
  BY <1>0, <1>1, SiteStays DEF WriteSelf, TriesAgain, Goes, TypeOK
<1>2. CASE self'[s] # self[s]
  <2>1. p[2] = s /\ self'[s] = SelfOf(p)
    BY <1>0, <1>2 DEF WriteSelf, TypeOK
  <2>2. AnswerTrue(p)
    BY <1>0, <2>1 DEF SiteTrue
  <2>3. SelfTrue(s)'
    BY <1>0, <2>1, <2>2 DEF SelfTrue, AnswerTrue, SelfOf, WriteSelf
  <2> QED
    BY <1>0, <2>3 DEF SiteTrue, AnswerTrue, WriteSelf, TriesAgain, Goes, TypeOK
<1> QED
  BY <1>1, <1>2

(* Only an attempt with nothing left to do ends in serving.                *)
LEMMA StartsToServe ==
    ASSUME TypeOK, [Next]_vars, NEW p \in Proc, state'[p] = "serving", state[p] # "serving"
    PROVE  Registered(p) /\ self' = self
<1>1. ASSUME NEW q \in Proc, Registered(q)
      PROVE  Registered(p) /\ self' = self
  BY <1>1 DEF Registered, Goes, TypeOK
<1>2. ~\E q \in Proc : \/ Call(q) \/ Forward(q) \/ CallFails(q) \/ AnswerLost(q) \/ WriteSelf(q)
                       \/ SaveRow(q)
  BY DEF Call, Forward, CallFails, AnswerLost, WriteSelf, SaveRow, TriesAgain, Goes, TypeOK
<1>3. ~\E q \in Proc : CreateCluster(q) \/ UpdateCluster(q)
  BY DEF CreateCluster, UpdateCluster, TriesAgain, Goes, TypeOK
<1>4. ~\E q \in Proc : LookupPanics(q) \/ Crash(q)
  BY DEF LookupPanics, Crash, calls
<1>5. state' # state
  OBVIOUS
<1>6. ~\E s \in Site : DeleteCluster(s) \/ EditRead(s) \/ GetsAddress(s) \/ SyncClusterConfig(s)
  BY <1>5 DEF DeleteCluster, EditRead, GetsAddress, SyncClusterConfig, calls
<1>7. ~EditSave /\ ~\E s, l \in RLASites : Hear(s, l)
  BY <1>5 DEF EditSave, Hear, calls
<1> QED
  BY <1>1, <1>2, <1>3, <1>4, <1>5, <1>6, <1>7, RegistrationAssumption
     DEF Next, vars, Attempt, Serve

(* "self" is not taken back, and who starts to serve has just read it.     *)
LEMMA MastersStep == RegInv /\ [Next]_vars => ServersAreMasters'
<1> SUFFICES ASSUME RegInv, [Next]_vars, NEW s \in RLASites,
                    <<"RLA", s>> \in Proc, state'[<<"RLA", s>>] = "serving"
             PROVE  self'[s].role = "master"
  BY DEF ServersAreMasters
<1> DEFINE P == <<"RLA", s>>
<1>0. /\ TypeOK /\ P \in Proc /\ s \in Site /\ state'[P] = "serving" /\ P[1] = "RLA" /\ P[2] = s
      /\ state[P] = "serving" => self[s].role = "master"
  BY RegistrationAssumption DEF RegInv, RegistrationTypes, ServersAreMasters, Serves, Proc
<1>1. CASE state[P] # "serving"
  <2>1. Registered(P) /\ self' = self
    BY <1>0, <1>1, StartsToServe
  <2>2. self[s] # NoSelf /\ self[s].role # "worker"
    BY <1>0, <2>1 DEF Registered, Task, Goes, TypeOK
  <2> QED
    BY <1>0, <2>1, <2>2, SelfId
<1>2. CASE state[P] = "serving"
  <2>1. self[s].role = "master"
    BY <1>0, <1>2
  <2>2. CASE self'[s] = self[s]
    BY <2>1, <2>2
  <2>3. CASE self'[s] # self[s]
    <3>1. PICK p \in Proc : WriteSelf(p)
      BY <2>3 DEF Next, vars, Attempt, Serve, Registered, Call, LookupPanics,
         CreateCluster, UpdateCluster, SaveRow, Forward, CallFails, AnswerLost, Crash,
         SyncClusterConfig, DeleteCluster, EditRead, GetsAddress, EditSave, Hear
    <3>2. p[2] = s /\ self'[s] = SelfOf(p) /\ (asks[p] # "create" \/ self[s] = NoSelf)
      BY <1>0, <2>3, <3>1, Processes DEF WriteSelf, TypeOK
    <3>3. self[s] # NoSelf
      BY <2>1 DEF NoSelf
    <3>4. p[1] = "RLA"
      BY <3>1, <3>2, <3>3 DEF RegInv, RegistrationTypes, Requests, TypeOK, WriteSelf
    <3> QED
      BY <3>2, <3>4 DEF SelfOf
  <2> QED
    BY <2>2, <2>3
<1> QED
  BY <1>1, <1>2

LEMMA SitesStep ==
    ASSUME RegInv, [Next]_vars, NEW s \in Site, ~Touched(s)'
    PROVE  SiteTrue(s)'
<1>0. TypeOK /\ Edits
  BY DEF RegInv, RegistrationTypes
<1>1. ~Touched(s) /\ SiteTrue(s)
  <2>1. asked \subseteq asked'
    BY DEF Next, vars, users, Attempt, Serve, Registered, Call, LookupPanics,
       CreateCluster, UpdateCluster, SaveRow, Forward, CallFails, AnswerLost, WriteSelf, Crash,
       SyncClusterConfig, DeleteCluster, EditRead, GetsAddress, EditSave, Hear
  <2> QED
    BY <2>1 DEF Touched, RegInv
<1>2. ASSUME NEW p \in Proc, Registered(p) \/ Call(p) \/ Forward(p) \/ CallFails(p) \/ AnswerLost(p)
      PROVE  SiteTrue(s)'
  BY <1>0, <1>1, <1>2, SiteStays
     DEF Registered, Call, Forward, CallFails, AnswerLost, TriesAgain, Goes, TypeOK
<1>3. ASSUME NEW p \in Proc, LookupPanics(p)
      PROVE  SiteTrue(s)'
  BY <1>1, <1>3, SiteStays DEF LookupPanics, calls
<1>4. ASSUME NEW r \in RASites, SyncClusterConfig(r)
      PROVE  SiteTrue(s)'
  BY <1>1, <1>4, SiteStays DEF SyncClusterConfig, calls
<1>5. ASSUME NEW r \in Site, DeleteCluster(r)
      PROVE  SiteTrue(s)'
  <2>1. r # s
    BY <1>5 DEF DeleteCluster, Touched
  <2> QED
    BY <1>0, <1>1, <1>5, <2>1, SiteStays DEF DeleteCluster, calls, TypeOK
<1>6. ASSUME NEW r \in Site, EditRead(r) \/ GetsAddress(r)
      PROVE  SiteTrue(s)'
  BY <1>1, <1>6, SiteStays DEF EditRead, GetsAddress, calls
<1>7. ASSUME EditSave
      PROVE  SiteTrue(s)'
  <2>1. edit.site # s
    BY <1>0, <1>1, <1>7 DEF EditSave, Edits, Touched
  <2> QED
    BY <1>0, <1>1, <1>7, <2>1, SiteStays DEF EditSave, calls, TypeOK
<1>8. ASSUME NEW r \in RLASites, NEW l \in RLASites, Hear(r, l)
      PROVE  SiteTrue(s)'
  BY <1>1, <1>8, SiteStays DEF Hear, calls
<1>9. ASSUME NEW p \in Proc, Crash(p)
      PROVE  SiteTrue(s)'
  BY <1>1, <1>9, SiteStays DEF Crash
<1>10. CASE UNCHANGED vars
  BY <1>1, <1>10, SiteStays DEF vars
<1> QED
  BY <1>1, <1>2, <1>3, <1>4, <1>5, <1>6, <1>7, <1>8, <1>9, <1>10,
     CreateSite, UpdateSite, SaveSite, WriteSite
     DEF Next, Attempt, Serve

(* Most steps leave the row and "self" of a site alone, and no process of  *)
(* it starts to ask.                                                       *)
LEMMA LateStays ==
    ASSUME NEW s \in Site, LateTrue(s), addressed \subseteq addressed',
           clusters'[s] = clusters[s], self'[s] = self[s],
           \A p \in Proc : p[2] = s => \/ state'[p] = state[p]
                                       \/ state'[p] = "registering"
                                       \/ s \in addressed /\ state'[p] # "unregistered"
    PROVE  LateTrue(s)'
<1>1. NotYet(s)'
  BY DEF LateTrue, NotYet
<1>2. \A p \in Proc : p = <<"RLA", s>> => p[2] = s
  OBVIOUS
<1>3. Unlisted(s)'
  BY <1>2 DEF LateTrue, Unlisted
<1> QED
  BY <1>1, <1>3 DEF LateTrue

(* A step that writes the row of a site that has its address, for one of   *)
(* its processes.                                                          *)
LEMMA LateWritten ==
    ASSUME TypeOK, NEW s \in Site, LateTrue(s), s \in addressed, addressed' = addressed,
           NEW p \in Proc, p[2] = s, state'[p] # "unregistered",
           NEW id, clusters'[s] = Requested(p, id),
           \A q \in Proc : q # p => state'[q] = state[q]
    PROVE  LateTrue(s)'
<1>1. NotYet(s)'
  BY DEF NotYet
<1>2. ASSUME NEW q \in Proc, q = <<"RLA", s>>, state'[q] = "unregistered"
      PROVE  clusters'[s].raft # s
  <2>1. q # p
    BY <1>2
  <2>2. p[1] = "RA"
    BY <1>2, <2>1, Processes
  <2> QED
    BY <2>2, RegistrationAssumption DEF Requested
<1>3. Unlisted(s)'
  BY <1>2 DEF Unlisted
<1> QED
  BY <1>1, <1>3 DEF LateTrue

(* An RLA that starts to serve unregistered has found no address.          *)
LEMMA LateRegistered ==
    ASSUME RegInv, NEW p \in Proc, Registered(p), NEW s \in Site, ~Touched(s)
    PROVE  LateTrue(s)'
<1>0. TypeOK /\ LateTrue(s) /\ p[2] \in Site /\ s # NoSite
  BY Processes, RegistrationAssumption DEF RegInv, RegistrationTypes
<1>1. CASE p[2] # s \/ self[p[2]] # NoSelf
  <2>1. \A q \in Proc : q[2] = s /\ state'[q] # state[q] => s \in addressed /\ state'[q] = "serving"
    BY <1>0, <1>1 DEF Registered, Goes, TypeOK, LateTrue, NotYet
  <2> QED
    BY <1>0, <2>1, LateStays DEF Registered
<1>2. CASE p[2] = s /\ self[s] = NoSelf
  <2>1. s \notin addressed
    BY <1>2 DEF Registered, Task
  <2>2. clusters'[s] = NoCluster /\ self'[s] = NoSelf /\ clusters'[s].raft # s
    BY <1>0, <2>1 DEF Registered, LateTrue, NotYet, NoCluster
  <2>3. \A q \in Proc : q[2] = s => state'[q] \in {"registering", "unregistered"}
    BY <1>0, <1>2, <2>1 DEF Registered, Goes, TypeOK, LateTrue, NotYet
  <2> QED
    BY <2>2, <2>3 DEF LateTrue, NotYet, Unlisted
<1> QED
  BY <1>1, <1>2

LEMMA LateStep ==
    ASSUME RegInv, [Next]_vars, NEW s \in Site, ~Touched(s)'
    PROVE  LateTrue(s)'
<1>0. TypeOK /\ Edits /\ \A p \in Proc : p[2] \in Site
  BY Processes DEF RegInv, RegistrationTypes
<1>1. ~Touched(s) /\ LateTrue(s)
  <2>1. asked \subseteq asked'
    BY DEF Next, vars, users, Attempt, Serve, Registered, Call, LookupPanics,
       CreateCluster, UpdateCluster, SaveRow, Forward, CallFails, AnswerLost, WriteSelf, Crash,
       SyncClusterConfig, DeleteCluster, EditRead, GetsAddress, EditSave, Hear
  <2> QED
    BY <2>1 DEF Touched, RegInv
(* Who asks has an address.                                                *)
<1>2. \A p \in Proc : p[2] = s =>
          /\ Task(p) \in {"create", "update"} => s \in addressed
          /\ state[p] \notin {"registering", "unregistered"} => s \in addressed
  BY <1>1, Processes DEF LateTrue, NotYet, Task
<1>3. ASSUME NEW p \in Proc, Call(p) \/ Forward(p) \/ CallFails(p) \/ AnswerLost(p)
      PROVE  LateTrue(s)'
  BY <1>0, <1>1, <1>2, <1>3, LateStays
     DEF Call, Forward, CallFails, AnswerLost, TriesAgain, Goes, TypeOK
<1>4. ASSUME NEW p \in Proc, UpdateCluster(p)
      PROVE  LateTrue(s)'
  BY <1>0, <1>1, <1>2, <1>4, LateStays
     DEF UpdateCluster, AtLeader, AtHome, TriesAgain, Goes, TypeOK
<1>5. ASSUME NEW p \in Proc, CreateCluster(p)
      PROVE  LateTrue(s)'
  <2>1. p[2] = s => s \in addressed
    BY <1>2, <1>5 DEF CreateCluster, AtLeader, AtHome
  <2>2. CASE clusters[p[2]] = NoCluster /\ p[2] = s
    BY <1>0, <1>1, <1>5, <2>1, <2>2, LateWritten DEF CreateCluster, Goes, TypeOK
  <2>3. CASE clusters[p[2]] # NoCluster \/ p[2] # s
    BY <1>0, <1>1, <1>5, <2>1, <2>3, LateStays DEF CreateCluster, TriesAgain, Goes, TypeOK
  <2> QED
    BY <2>2, <2>3
<1>6. ASSUME NEW p \in Proc, SaveRow(p)
      PROVE  LateTrue(s)'
  <2>1. p[2] = s => s \in addressed
    BY <1>2, <1>6 DEF SaveRow
  <2>2. CASE ~SaveRefused(p[2], row[p]) /\ p[2] = s
    BY <1>0, <1>1, <1>6, <2>1, <2>2, LateWritten DEF SaveRow, Goes, TypeOK
  <2>3. CASE SaveRefused(p[2], row[p]) \/ p[2] # s
    BY <1>0, <1>1, <1>6, <2>1, <2>3, LateStays DEF SaveRow, TriesAgain, Goes, TypeOK
  <2> QED
    BY <2>2, <2>3
<1>7. ASSUME NEW p \in Proc, WriteSelf(p)
      PROVE  LateTrue(s)'
  <2>1. /\ p[2] = s => s \in addressed
        /\ state' = [state EXCEPT ![p] = "registering"]
        /\ clusters' = clusters /\ addressed' = addressed
        /\ p[2] # s => self'[s] = self[s]
    BY <1>0, <1>2, <1>7 DEF WriteSelf, TriesAgain, Goes, TypeOK
  <2>2. CASE p[2] # s
    BY <1>0, <1>1, <2>1, <2>2, LateStays DEF TypeOK
  <2>3. CASE p[2] = s
    BY <1>0, <1>1, <2>1, <2>3 DEF LateTrue, NotYet, Unlisted, TypeOK
  <2> QED
    BY <2>2, <2>3
<1>8. ASSUME NEW r \in Site, DeleteCluster(r)
      PROVE  LateTrue(s)'
  <2>1. r # s
    BY <1>8 DEF DeleteCluster, Touched
  <2> QED
    BY <1>0, <1>1, <1>8, <2>1, LateStays DEF DeleteCluster, calls, TypeOK
<1>9. ASSUME EditSave
      PROVE  LateTrue(s)'
  <2>1. edit.site # s
    BY <1>0, <1>1, <1>9 DEF EditSave, Edits, Touched
  <2> QED
    BY <1>0, <1>1, <1>9, <2>1, LateStays DEF EditSave, calls, TypeOK
<1>10. ASSUME NEW p \in Proc, LookupPanics(p) \/ Crash(p)
      PROVE  LateTrue(s)'
  BY <1>1, <1>10, LateStays DEF LookupPanics, Crash, calls
<1>11. ASSUME NEW r \in Site, EditRead(r) \/ GetsAddress(r) \/ SyncClusterConfig(r)
      PROVE  LateTrue(s)'
  BY <1>1, <1>11, LateStays DEF EditRead, GetsAddress, SyncClusterConfig, calls
<1>12. ASSUME NEW r \in RLASites, NEW l \in RLASites, Hear(r, l)
      PROVE  LateTrue(s)'
  BY <1>1, <1>12, LateStays DEF Hear, calls
<1>13. CASE UNCHANGED vars
  BY <1>1, <1>13, LateStays DEF vars
<1> QED
  BY <1>1, <1>3, <1>4, <1>5, <1>6, <1>7, <1>8, <1>9, <1>10, <1>11, <1>12, <1>13,
     LateRegistered, RegistrationAssumption
     DEF Next, Attempt, Serve

LEMMA RegStep == RegInv /\ [Next]_vars => RegInv'
BY TypesStep, MastersStep, SitesStep, LateStep DEF RegInv

(* Whoever answered and whatever was lost, "self" names the row of its     *)
(* site with a role not above it, unless a user touched the row.           *)
THEOREM SelfSafe == Spec => []SelfIsInTable
<1>1. RegInv => SelfIsInTable
  BY DEF RegInv, SiteTrue, SelfTrue, SelfIsInTable
<1> QED
  BY RegInit, RegStep, <1>1, PTL DEF Spec

(* An RLA that serves is found by its Raft id, unless a user touched its   *)
(* row, and but for the one that RegisterCluster let go without an         *)
(* address: that one is not found for as long as it serves.                *)
THEOREM LeadSafe == Spec => []ServingLeadIsListed
<1>1. ASSUME RegInv PROVE ServingLeadIsListed
  <2>1. ASSUME NEW s \in RLASites, Serves(s), ~Touched(s)
        PROVE  Listed(s) <=> state[<<"RLA", s>>] # "unregistered"
    <3>1. s \in Site /\ s # NoSite /\ SelfTrue(s) /\ Unlisted(s)
      BY <1>1, <2>1, RegistrationAssumption DEF RegInv, SiteTrue, LateTrue
    <3>2. CASE state[<<"RLA", s>>] = "unregistered"
      BY <2>1, <3>1, <3>2 DEF Unlisted, Listed, Serves
    <3>3. CASE state[<<"RLA", s>>] = "serving"
      <4>1. self[s].role = "master"
        BY <1>1, <2>1, <3>3 DEF RegInv, ServersAreMasters, Serves
      <4> QED
        BY <3>1, <3>3, <4>1 DEF SelfTrue, Listed, NoSelf
    <3> QED
      BY <2>1, <3>2, <3>3 DEF Serves
  <2> QED
    BY <2>1 DEF ServingLeadIsListed
<1> QED
  BY RegInit, RegStep, <1>1, PTL DEF Spec
=============================================================================
