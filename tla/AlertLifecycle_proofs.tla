----------------------- MODULE AlertLifecycle_proofs -----------------------
(***************************************************************************)
(* Invariants of AlertLifecycle for every set of identities, alerts,       *)
(* scores and approvals.  First what reconcile_alert and                   *)
(* _close_open_alerts preserve, for every table: the flushed table (view)  *)
(* and the session's objects (mem) are kept apart, and Follows says what a *)
(* session that only moves its alerts forward knows about the two.         *)
(***************************************************************************)
EXTENDS AlertLifecycle, TLAPS

(* The session knows the same alerts as the database and has un-resolved   *)
(* none of them.                                                           *)
Follows(mem, view) ==
  /\ Present(mem) = Present(view)
  /\ \A a \in Present(view) : /\ mem[a].identity = view[a].identity
                              /\ view[a].resolved => mem[a].resolved
-----------------------------------------------------------------------------
(* A scoring pass refreshes an alert without changing whose it is, never   *)
(* withdraws resolved_at, and stamps what it closes.                       *)
LEMMA RefreshKeeps ==
  ASSUME NEW al \in Alert, NEW r \in Result
  PROVE  /\ Refresh(al, r) \in Alert
         /\ Refresh(al, r).identity = al.identity
         /\ al.resolved => Refresh(al, r).resolved
         /\ Refresh(al, r).status \in Terminal =>
              Refresh(al, r).resolved \/ al.status \in Terminal
         /\ al.status = "CONFIRMED_INCIDENT" =>
              Refresh(al, r).status \in {"CONFIRMED_INCIDENT", "SUPPRESSED"}
BY DEF Refresh, Alert, Result, Status, Terminal

(* A raised alert is well formed, belongs to the identity scored, and is   *)
(* open or suppressed.                                                     *)
LEMMA NewAlertOpen ==
  ASSUME NEW i \in Identities, NEW r \in Result
  PROVE  /\ NewAlert(i, r) \in Alert
         /\ NewAlert(i, r).identity = i
         /\ NewAlert(i, r).status \notin Terminal
BY DEF NewAlert, Alert, Result, Status, Terminal

(* Where the alerts of a reconciled table come from: one the session had,  *)
(* left alone or refreshed, or one raised for an identity without an       *)
(* unresolved alert.                                                       *)
LEMMA ReconcileOrigin ==
  ASSUME NEW view \in Table, NEW mem \in Table, NEW I \in SUBSET Identities,
         NEW res \in [I -> Result],
         NEW ids \in NextIds(mem, Raised(view, res)),
         NEW a \in AlertIds
  PROVE  LET t == Reconcile(view, mem, res, ids) IN
         /\ mem[a] # NoAlert =>
              \/ t[a] = mem[a]
              \/ /\ mem[a].identity \in I
                 /\ IsExisting(view, mem[a].identity, a)
                 /\ t[a] = Refresh(mem[a], res[mem[a].identity])
         /\ mem[a] = NoAlert =>
              \/ t[a] = NoAlert
              \/ \E i \in Raised(view, res) :
                   ids[i] = a /\ t[a] = NewAlert(i, res[i])
<1>1. DOMAIN ids = Raised(view, res) /\ DOMAIN res = I
  BY DEF NextIds
<1>2. ASSUME mem[a] = NoAlert, \E i \in DOMAIN ids : ids[i] = a
      PROVE  \E i \in Raised(view, res) :
               ids[i] = a /\ Reconcile(view, mem, res, ids)[a] = NewAlert(i, res[i])
  <2> DEFINE i == CHOOSE i \in DOMAIN ids : ids[i] = a
  <2>1. i \in Raised(view, res) /\ ids[i] = a
    BY <1>1, <1>2
  <2>2. Reconcile(view, mem, res, ids)[a] = NewAlert(i, res[i])
    BY <1>2 DEF Reconcile
  <2> QED
    BY <2>1, <2>2
<1>3. ASSUME mem[a] = NoAlert, ~\E i \in DOMAIN ids : ids[i] = a
      PROVE  Reconcile(view, mem, res, ids)[a] = NoAlert
  BY <1>3 DEF Reconcile
<1>4. ASSUME mem[a] # NoAlert
      PROVE  \/ Reconcile(view, mem, res, ids)[a] = mem[a]
             \/ /\ mem[a].identity \in I
                /\ IsExisting(view, mem[a].identity, a)
                /\ Reconcile(view, mem, res, ids)[a] =
                     Refresh(mem[a], res[mem[a].identity])
  BY <1>1, <1>4 DEF Reconcile
<1> QED
  BY <1>2, <1>3, <1>4

(* Reconciling gives a table in which nothing the session had is lost.     *)
LEMMA ReconcileTable ==
  ASSUME NEW view \in Table, NEW mem \in Table, NEW I \in SUBSET Identities,
         NEW res \in [I -> Result],
         NEW ids \in NextIds(mem, Raised(view, res))
  PROVE  /\ Reconcile(view, mem, res, ids) \in Table
         /\ Follows([a \in AlertIds |->
                       IF mem[a] = NoAlert THEN NoAlert
                       ELSE Reconcile(view, mem, res, ids)[a]], mem)
<1> DEFINE t == Reconcile(view, mem, res, ids)
<1>1. ASSUME NEW a \in AlertIds
      PROVE  /\ t[a] \in Alert \cup {NoAlert}
             /\ mem[a] # NoAlert => /\ t[a] # NoAlert
                                    /\ t[a].identity = mem[a].identity
                                    /\ mem[a].resolved => t[a].resolved
  <2>1. CASE mem[a] = NoAlert
    <3>1. Raised(view, res) \subseteq I
      BY DEF Raised
    <3> QED
      BY <2>1, <3>1, ReconcileOrigin, NewAlertOpen
  <2>2. CASE mem[a] # NoAlert
    <3>1. mem[a] \in Alert
      BY <2>2 DEF Table
    <3>2. CASE t[a] = mem[a]
      BY <2>2, <3>1, <3>2
    <3>3. CASE /\ mem[a].identity \in I
               /\ t[a] = Refresh(mem[a], res[mem[a].identity])
      <4>1. res[mem[a].identity] \in Result
        BY <3>3
      <4>2. t[a] \in Alert /\ t[a].identity = mem[a].identity
            /\ (mem[a].resolved => t[a].resolved)
        BY <3>1, <3>3, <4>1, RefreshKeeps
      <4> QED
        BY <2>2, <4>2, TableAssumption
    <3> QED
      BY <2>2, <3>2, <3>3, ReconcileOrigin
  <2> QED
    BY <2>1, <2>2
<1>2. t \in Table
  <2>1. t = [a \in AlertIds |-> t[a]]
    BY DEF Reconcile
  <2> QED
    BY <1>1, <2>1 DEF Table
<1> QED
  BY <1>1, <1>2 DEF Follows, Present
-----------------------------------------------------------------------------
(* Reconciling leaves no terminal alert without resolved_at.               *)
LEMMA ReconcileStamped ==
  ASSUME NEW view \in Table, NEW mem \in Table, NEW I \in SUBSET Identities,
         NEW res \in [I -> Result],
         NEW ids \in NextIds(mem, Raised(view, res)),
         Stamped(mem)
  PROVE  Stamped(Reconcile(view, mem, res, ids))
<1> DEFINE t == Reconcile(view, mem, res, ids)
<1> SUFFICES ASSUME NEW a \in AlertIds, t[a] # NoAlert, t[a].status \in Terminal
             PROVE  t[a].resolved
  BY DEF Stamped, Present
<1>1. Raised(view, res) \subseteq I
  BY DEF Raised
<1>2. mem[a] # NoAlert
  BY <1>1, ReconcileOrigin, NewAlertOpen
<1>3. mem[a] \in Alert /\ (mem[a].status \in Terminal => mem[a].resolved)
  BY <1>2 DEF Table, Stamped, Present
<1>4. CASE t[a] = mem[a]
  BY <1>3, <1>4
<1>5. CASE /\ mem[a].identity \in I
           /\ t[a] = Refresh(mem[a], res[mem[a].identity])
  <2>1. res[mem[a].identity] \in Result
    BY <1>5
  <2> QED
    BY <1>3, <1>5, <2>1, RefreshKeeps
<1> QED
  BY <1>2, <1>4, <1>5, ReconcileOrigin

(* An alert is raised only where every earlier one has been resolved, so   *)
(* there is still at most one that has not.                                *)
LEMMA ReconcileSingleStory ==
  ASSUME NEW view \in Table, NEW mem \in Table, NEW I \in SUBSET Identities,
         NEW res \in [I -> Result],
         NEW ids \in NextIds(mem, Raised(view, res)),
         Stamped(view), Follows(mem, view), SingleStory(mem)
  PROVE  SingleStory(Reconcile(view, mem, res, ids))
<1> DEFINE t == Reconcile(view, mem, res, ids)
<1>1. Raised(view, res) \subseteq I
  BY DEF Raised
<1>2. ASSUME NEW a \in AlertIds, mem[a] # NoAlert
      PROVE  t[a].identity = mem[a].identity /\ (mem[a].resolved => t[a].resolved)
  BY <1>2, ReconcileTable DEF Follows, Present
<1>3. ASSUME NEW a \in AlertIds, mem[a] = NoAlert, t[a] # NoAlert
      PROVE  t[a].identity \in Raised(view, res) /\ ids[t[a].identity] = a
  BY <1>1, <1>3, ReconcileOrigin, NewAlertOpen
<1>4. ASSUME NEW i \in Raised(view, res), NEW b \in AlertsOf(mem, i)
      PROVE  t[b].resolved
  <2>1. b \in Present(view) /\ view[b].identity = i /\ (view[b].resolved => mem[b].resolved)
    BY <1>4 DEF Follows, AlertsOf
  <2>2. view[b].status \in Terminal
    BY <2>1 DEF Raised, Unresolved, AlertsOf
  <2>3. mem[b].resolved
    BY <2>1, <2>2 DEF Stamped
  <2> QED
    BY <1>2, <2>3 DEF AlertsOf, Present
<1> SUFFICES ASSUME NEW i \in Identities, NEW a \in AlertIds, NEW b \in AlertIds,
                    t[a] # NoAlert, t[a].identity = i, ~t[a].resolved,
                    t[b] # NoAlert, t[b].identity = i, ~t[b].resolved
             PROVE  a = b
  BY DEF SingleStory, AlertsOf, Present
<1>5. CASE mem[a] # NoAlert /\ mem[b] # NoAlert
  BY <1>2, <1>5 DEF SingleStory, AlertsOf, Present
<1>6. CASE mem[a] = NoAlert /\ mem[b] # NoAlert
  BY <1>2, <1>3, <1>4, <1>6 DEF AlertsOf, Present
<1>7. CASE mem[a] # NoAlert /\ mem[b] = NoAlert
  BY <1>2, <1>3, <1>4, <1>7 DEF AlertsOf, Present
<1>8. CASE mem[a] = NoAlert /\ mem[b] = NoAlert
  BY <1>3, <1>8
<1> QED
  BY <1>5, <1>6, <1>7, <1>8

(* Containment confirms the open alerts of the identity, leaves the others *)
(* alone, and only resolves.                                               *)
LEMMA CloseOpenAlertsTable ==
  ASSUME NEW t \in Table, NEW i \in Identities
  PROVE  LET c == CloseOpenAlerts(t, t, i) IN
         /\ c \in Table
         /\ Follows(c, t)
         /\ \A a \in AlertIds :
              \/ /\ a \in AlertsOf(t, i)
                 /\ t[a].status \in OpenStatuses
                 /\ c[a].status = "CONFIRMED_INCIDENT"
                 /\ c[a].resolved
              \/ /\ ~(a \in AlertsOf(t, i) /\ t[a].status \in OpenStatuses)
                 /\ c[a] = t[a]
<1> DEFINE c == CloseOpenAlerts(t, t, i)
<1>1. ASSUME NEW a \in AlertsOf(t, i), t[a].status \in OpenStatuses
      PROVE  /\ t[a] \in Alert
             /\ c[a] \in Alert
             /\ c[a].identity = t[a].identity
             /\ c[a].status = "CONFIRMED_INCIDENT"
             /\ c[a].resolved
  <2>1. a \in AlertIds /\ t[a] \in Alert
    BY <1>1 DEF Table, AlertsOf, Present
  <2>2. c[a] = [t[a] EXCEPT !.status = "CONFIRMED_INCIDENT", !.resolved = TRUE]
    BY <1>1, <2>1 DEF CloseOpenAlerts
  <2> QED
    BY <2>1, <2>2 DEF Alert, Status
<1>2. ASSUME NEW a \in AlertIds, ~(a \in AlertsOf(t, i) /\ t[a].status \in OpenStatuses)
      PROVE  c[a] = t[a]
  BY <1>2 DEF CloseOpenAlerts
<1>3. c \in Table
  <2>1. c = [a \in AlertIds |-> c[a]]
    BY DEF CloseOpenAlerts
  <2>2. \A a \in AlertIds : c[a] \in Alert \cup {NoAlert}
    BY <1>1, <1>2 DEF Table
  <2> QED
    BY <2>1, <2>2 DEF Table
<1> HIDE DEF c
<1>4. Follows(c, t)
  BY <1>1, <1>2, TableAssumption DEF Follows, Present, AlertsOf
<1>5. \A a \in AlertIds :
        \/ /\ a \in AlertsOf(t, i)
           /\ t[a].status \in OpenStatuses
           /\ c[a].status = "CONFIRMED_INCIDENT"
           /\ c[a].resolved
        \/ /\ ~(a \in AlertsOf(t, i) /\ t[a].status \in OpenStatuses)
           /\ c[a] = t[a]
  BY <1>1, <1>2
<1> QED
  BY <1>3, <1>4, <1>5 DEF c

(* Containment leaves a stamped table with single stories such a table.    *)
LEMMA CloseOpenAlertsKeeps ==
  ASSUME NEW t \in Table, NEW i \in Identities, Stamped(t), SingleStory(t)
  PROVE  LET c == CloseOpenAlerts(t, t, i) IN Stamped(c) /\ SingleStory(c)
<1> DEFINE c == CloseOpenAlerts(t, t, i)
<1>1. /\ c \in Table
      /\ Follows(c, t)
      /\ \A a \in AlertIds : c[a] = t[a] \/ c[a].resolved
  BY CloseOpenAlertsTable
<1> HIDE DEF c
<1>2. Stamped(c)
  BY <1>1 DEF Stamped, Follows, Present
<1>3. SingleStory(c)
  BY <1>1 DEF SingleStory, Follows, AlertsOf, Present
<1> QED
  BY <1>2, <1>3 DEF c
-----------------------------------------------------------------------------

(* What the steps preserve together: a rollback may put the saved table    *)
(* back at any time, so it must be as good as the current one.             *)
Inv == TypeOK /\ ResolvedStamp /\ OneStory /\ RollbackKeepsStory

GoodTable(t) == t \in Table /\ Stamped(t) /\ SingleStory(t)
-----------------------------------------------------------------------------
LEMMA FollowsItself ==
  ASSUME NEW t \in Table PROVE Follows(t, t)
BY DEF Follows

(* A scoring pass over any set of identities, from the table as it is or   *)
(* as containment left it.                                                 *)
LEMMA ScoreKeeps ==
  ASSUME NEW view, GoodTable(view), NEW I \in SUBSET Identities,
         NEW mem, GoodTable(mem), Follows(mem, view),
         NEW found, NEW seen, NEW held, Score(I, view, mem, found, seen, held)
  PROVE  GoodTable(alerts')
<1>1. PICK res \in [I -> Result] :
        \E ids \in NextIds(mem, Raised(view, res)) :
          alerts' = Reconcile(view, mem, res, ids)
  BY DEF Score
<1>2. PICK ids \in NextIds(mem, Raised(view, res)) :
        alerts' = Reconcile(view, mem, res, ids)
  BY <1>1
<1> QED
  BY <1>2, ReconcileTable, ReconcileStamped, ReconcileSingleStory DEF GoodTable

(* Setting the status of one alert so that a terminal one is resolved.     *)
LEMMA MoveKeeps ==
  ASSUME GoodTable(alerts), NEW t \in Table,
         \A a \in AlertIds :
           /\ t[a] = NoAlert <=> alerts[a] = NoAlert
           /\ alerts[a] # NoAlert =>
                /\ t[a].identity = alerts[a].identity
                /\ alerts[a].resolved => t[a].resolved
                /\ t[a].status \in Terminal =>
                     t[a].resolved \/ alerts[a].status \in Terminal
  PROVE  GoodTable(t)
<1>1. Stamped(t)
  BY DEF Stamped, Present, GoodTable
<1>2. SingleStory(t)
  BY DEF SingleStory, AlertsOf, Present, GoodTable
<1> QED
  BY <1>1, <1>2 DEF GoodTable

(* The whole of Execute: disabling or not, exempting or not, closing the   *)
(* open alerts or not, then scoring.                                       *)
LEMMA ExecuteKeeps ==
  ASSUME TypeOK, GoodTable(alerts), NEW i \in Identities, NEW action,
         Execute(i, action)
  PROVE  /\ GoodTable(alerts')
         /\ evidence' \in [Identities -> SUBSET Evidence]
         /\ contexts' \in [Contexts -> ContextStatus]
         /\ active' \in [Identities -> BOOLEAN]
<1> DEFINE mem == IF action \in EnforcingActions
                  THEN CloseOpenAlerts(alerts, alerts, i) ELSE alerts
<1>1. GoodTable(mem) /\ Follows(mem, alerts)
  BY CloseOpenAlertsTable, CloseOpenAlertsKeeps, FollowsItself DEF GoodTable
<1>2. Score({i}, alerts, mem, evidence, contexts, contexts)
  BY DEF Execute
<1>3. GoodTable(alerts')
  <2> HIDE DEF mem
  <2> QED
    BY <1>1, <1>2, ScoreKeeps
<1>4. contexts' \in [Contexts -> ContextStatus]
  BY DEF Execute, TypeOK, ContextStatus
<1>5. active' \in [Identities -> BOOLEAN]
  BY DEF Execute, TypeOK
<1>6. evidence' \in [Identities -> SUBSET Evidence]
  BY DEF Execute, TypeOK
<1> QED
  BY <1>3, <1>4, <1>5, <1>6
-----------------------------------------------------------------------------
LEMMA InitInv == Init => Inv
<1> SUFFICES ASSUME Init PROVE Inv
  OBVIOUS
<1>1. TypeOK
  BY DEF Init, NoAlerts, TypeOK, Table, ContextStatus
<1>2. Present(alerts) = {}
  BY DEF Init, NoAlerts, Present
<1> QED
  BY <1>1, <1>2 DEF Init, Inv, ResolvedStamp, OneStory, RollbackKeepsStory,
                    Stamped, SingleStory, AlertsOf

(* Scoring, by the scheduler, by request or after a batch of events.       *)
LEMMA ScoringInv ==
  ASSUME Inv, Scoring PROVE Inv'
<1>0. GoodTable(alerts) /\ Follows(alerts, alerts)
  BY FollowsItself DEF Inv, GoodTable, TypeOK, ResolvedStamp, OneStory
<1>1. /\ GoodTable(alerts')
      /\ evidence' \in [Identities -> SUBSET Evidence]
      /\ UNCHANGED <<contexts, active, playbook>>
  <2>1. CASE ScoreFleet
    BY <1>0, <2>1, ScoreKeeps DEF ScoreFleet, Idle, Inv, TypeOK
  <2>2. ASSUME NEW i \in Identities, Rescore(i)
        PROVE  <1>1!:
    BY <1>0, <2>2, ScoreKeeps DEF Rescore, Idle, Inv, TypeOK
  <2>3. ASSUME NEW I \in SUBSET Identities,
               NEW new \in [I -> (SUBSET Evidence) \ {{}}],
               NEW recompute \in BOOLEAN, Ingest(new, recompute)
        PROVE  <1>1!:
    <3>1. evidence' \in [Identities -> SUBSET Evidence]
      BY <2>3 DEF Ingest, Inv, TypeOK
    <3>2. GoodTable(alerts')
      <4>1. CASE recompute
        <5>1. Score(I, alerts, alerts, evidence', contexts, contexts)
          BY <2>3, <4>1 DEF Ingest
        <5> QED
          BY <1>0, <5>1, ScoreKeeps
      <4>2. CASE ~recompute
        BY <1>0, <2>3, <4>2 DEF Ingest
      <4> QED
        BY <4>1, <4>2
    <3> QED
      BY <2>3, <3>1, <3>2 DEF Ingest, Idle
  <2> QED
    BY <2>1, <2>2, <2>3 DEF Scoring
<1> QED
  BY <1>1 DEF Inv, GoodTable, TypeOK, ResolvedStamp, OneStory, RollbackKeepsStory

(* What analysts do to an alert by hand.                                   *)
LEMMA TriageInv ==
  ASSUME Inv, Triage PROVE Inv'
<1>0. GoodTable(alerts)
  BY DEF Inv, GoodTable, TypeOK, ResolvedStamp, OneStory
<1>1. GoodTable(alerts') /\ UNCHANGED <<evidence, contexts, active, playbook>>
  <2>1. ASSUME NEW a \in AlertIds, NEW status \in Status, UpdateAlert(a, status)
        PROVE  <1>1!:
    <3> DEFINE al == [alerts[a] EXCEPT !.status = status,
                        !.resolved = alerts[a].resolved \/ status \in Terminal]
    <3>1. alerts[a] \in Alert
      BY <1>0, <2>1 DEF UpdateAlert, Present, GoodTable, Table
    <3>2. alerts' = [alerts EXCEPT ![a] = al]
      BY <2>1 DEF UpdateAlert
    <3>3. al \in Alert /\ al.identity = alerts[a].identity
          /\ (alerts[a].resolved => al.resolved)
          /\ (al.status \in Terminal => al.resolved)
      BY <3>1 DEF Alert
    <3>4. alerts' \in Table
      BY <1>0, <3>2, <3>3 DEF GoodTable, Table
    <3>5. GoodTable(alerts')
      <4> HIDE DEF al
      <4>1. \A b \in AlertIds : alerts'[b] = IF b = a THEN al ELSE alerts[b]
        BY <1>0, <3>2 DEF GoodTable, Table
      <4> QED
        BY <1>0, <3>1, <3>3, <3>4, <4>1, MoveKeeps, TableAssumption
    <3> QED
      BY <2>1, <3>5 DEF UpdateAlert, Idle
  <2>2. ASSUME NEW a \in AlertIds, AssignToMe(a)
        PROVE  <1>1!:
    <3> DEFINE al == [alerts[a] EXCEPT !.status =
                        IF alerts[a].status = "OPEN" THEN "TRIAGED"
                        ELSE alerts[a].status]
    <3>1. alerts[a] \in Alert
      BY <1>0, <2>2 DEF AssignToMe, Present, GoodTable, Table
    <3>2. alerts' = [alerts EXCEPT ![a] = al]
      BY <2>2 DEF AssignToMe
    <3>3. al \in Alert /\ al.identity = alerts[a].identity
          /\ (alerts[a].resolved => al.resolved)
          /\ (al.status \in Terminal => alerts[a].status \in Terminal)
      BY <3>1 DEF Alert, Status, Terminal
    <3>4. alerts' \in Table
      BY <1>0, <3>2, <3>3 DEF GoodTable, Table
    <3>5. GoodTable(alerts')
      <4> HIDE DEF al
      <4>1. \A b \in AlertIds : alerts'[b] = IF b = a THEN al ELSE alerts[b]
        BY <1>0, <3>2 DEF GoodTable, Table
      <4> QED
        BY <1>0, <3>1, <3>3, <3>4, <4>1, MoveKeeps, TableAssumption
    <3> QED
      BY <2>2, <3>5 DEF AssignToMe, Idle
  <2>3. ASSUME NEW a \in AlertIds, MarkFalsePositive(a)
        PROVE  <1>1!:
    <3> DEFINE al == [alerts[a] EXCEPT !.status = "FALSE_POSITIVE",
                                       !.resolved = TRUE]
    <3>1. alerts[a] \in Alert
      BY <1>0, <2>3 DEF MarkFalsePositive, Present, GoodTable, Table
    <3>2. alerts' = [alerts EXCEPT ![a] = al]
      BY <2>3 DEF MarkFalsePositive
    <3>3. al \in Alert /\ al.identity = alerts[a].identity /\ al.resolved
      BY <3>1 DEF Alert, Status
    <3>4. alerts' \in Table
      BY <1>0, <3>2, <3>3 DEF GoodTable, Table
    <3>5. GoodTable(alerts')
      <4> HIDE DEF al
      <4>1. \A b \in AlertIds : alerts'[b] = IF b = a THEN al ELSE alerts[b]
        BY <1>0, <3>2 DEF GoodTable, Table
      <4> QED
        BY <1>0, <3>1, <3>3, <3>4, <4>1, MoveKeeps, TableAssumption
    <3> QED
      BY <2>3, <3>5 DEF MarkFalsePositive, Idle
  <2>4. ASSUME NEW linked \in SUBSET AlertIds, CreateCase(linked)
        PROVE  <1>1!:
    <3>1. \A b \in AlertIds :
            alerts'[b] = IF b \in linked
                         THEN [alerts[b] EXCEPT !.status = "INVESTIGATING"]
                         ELSE alerts[b]
      BY <2>4 DEF CreateCase
    <3>2. ASSUME NEW b \in linked
          PROVE  /\ alerts[b] \in Alert
                 /\ alerts'[b] \in Alert
                 /\ alerts'[b].identity = alerts[b].identity
                 /\ alerts'[b].resolved = alerts[b].resolved
                 /\ alerts'[b].status \notin Terminal
      <4>1. alerts[b] \in Alert
        BY <1>0, <2>4 DEF CreateCase, Present, GoodTable, Table
      <4>2. alerts'[b] = [alerts[b] EXCEPT !.status = "INVESTIGATING"]
        BY <3>1
      <4> QED
        BY <4>1, <4>2 DEF Alert, Status, Terminal
    <3>3. alerts' \in Table
      <4>1. alerts' = [b \in AlertIds |-> alerts'[b]]
        BY <2>4 DEF CreateCase
      <4>2. \A b \in AlertIds : alerts'[b] \in Alert \cup {NoAlert}
        BY <1>0, <3>1, <3>2 DEF GoodTable, Table
      <4> QED
        BY <4>1, <4>2 DEF Table
    <3>4. GoodTable(alerts')
      BY <1>0, <3>1, <3>2, <3>3, MoveKeeps, TableAssumption
    <3> QED
      BY <2>4, <3>4 DEF CreateCase, Idle
  <2> QED
    BY <2>1, <2>2, <2>3, <2>4 DEF Triage
<1> QED
  BY <1>1 DEF Inv, GoodTable, TypeOK, ResolvedStamp, OneStory, RollbackKeepsStory

(* An empty table has nothing wrong with it.                               *)
LEMMA EmptyGood == GoodTable(NoAlerts)
<1>1. NoAlerts \in Table /\ Present(NoAlerts) = {}
  BY DEF NoAlerts, Table, Present
<1> QED
  BY <1>1 DEF GoodTable, Stamped, SingleStory, AlertsOf

(* The approvals, each change followed by its re-score, and the reset.     *)
LEMMA ApprovalsInv ==
  ASSUME Inv, Approvals PROVE Inv'
<1>0. GoodTable(alerts) /\ Follows(alerts, alerts)
  BY FollowsItself DEF Inv, GoodTable, TypeOK, ResolvedStamp, OneStory
<1>1. /\ GoodTable(alerts')
      /\ contexts' \in [Contexts -> ContextStatus]
      /\ evidence' \in [Identities -> SUBSET Evidence]
      /\ active' \in [Identities -> BOOLEAN]
      /\ UNCHANGED playbook
  <2>1. ASSUME NEW c \in Contexts, CreateContext(c)
        PROVE  <1>1!:
    BY <1>0, <2>1, ScoreKeeps, LifecycleAssumption
       DEF CreateContext, Idle, Inv, TypeOK, ContextStatus
  <2>2. ASSUME NEW c \in Contexts, NEW status \in {"active", "inactive"},
               UpdateContext(c, status)
        PROVE  <1>1!:
    BY <1>0, <2>2, ScoreKeeps, LifecycleAssumption
       DEF UpdateContext, Idle, Inv, TypeOK, ContextStatus
  <2>3. ASSUME NEW c \in Contexts, RevokeContext(c)
        PROVE  <1>1!:
    BY <1>0, <2>3, ScoreKeeps, LifecycleAssumption
       DEF RevokeContext, Idle, Inv, TypeOK, ContextStatus
  <2>4. ASSUME NEW lapsed \in SUBSET Contexts, ExpireContexts(lapsed)
        PROVE  <1>1!:
    BY <1>0, <2>4 DEF ExpireContexts, Idle, Inv, TypeOK, ContextStatus
  <2>5. ASSUME NEW approvals \in SUBSET Contexts,
               NEW history \in [Identities -> {{}, {"ordinary"}}],
               ResetEstate(approvals, history)
        PROVE  <1>1!:
    <3>1. GoodTable(NoAlerts) /\ Follows(NoAlerts, NoAlerts)
      BY EmptyGood, FollowsItself DEF GoodTable
    <3>2. GoodTable(alerts')
      BY <2>5, <3>1, ScoreKeeps DEF ResetEstate
    <3>3. /\ contexts' \in [Contexts -> ContextStatus]
          /\ evidence' \in [Identities -> SUBSET Evidence]
          /\ active' \in [Identities -> BOOLEAN]
      BY <2>5 DEF ResetEstate, ContextStatus, Evidence
    <3> QED
      BY <2>5, <3>2, <3>3 DEF ResetEstate, Idle
  <2> QED
    BY <2>1, <2>2, <2>3, <2>4, <2>5 DEF Approvals
<1> QED
  BY <1>1 DEF Inv, GoodTable, TypeOK, ResolvedStamp, OneStory, RollbackKeepsStory

(* Response actions, alone or as the steps of a playbook, and its rollback.*)
LEMMA ResponseInv ==
  ASSUME Inv, Response PROVE Inv'
<1>0. GoodTable(alerts)
  BY DEF Inv, GoodTable, TypeOK, ResolvedStamp, OneStory
<1>1. ASSUME NEW i \in Identities, NEW action \in ResponseAction,
             ExecuteAction(i, action)
      PROVE  Inv'
  BY <1>0, <1>1, ExecuteKeeps
     DEF ExecuteAction, Idle, Inv, GoodTable, TypeOK, ResolvedStamp, OneStory,
         RollbackKeepsStory
<1>2. ASSUME NEW i \in Identities, NEW steps \in 1..MaxSteps,
             StartPlaybook(i, steps)
      PROVE  Inv'
  <2>1. steps \in 0..MaxSteps
    BY LifecycleAssumption
  <2>2. playbook' \in Run /\ playbook'.saved.alerts = alerts
    BY <1>2, <2>1 DEF StartPlaybook, Run, Committed, Inv, TypeOK
  <2> QED
    BY <1>0, <1>2, <2>2 DEF StartPlaybook, Inv, GoodTable, TypeOK, ResolvedStamp,
                            OneStory, RollbackKeepsStory
<1>3. ASSUME NEW i \in Identities, NEW on \in BOOLEAN, SetActive(i, on)
      PROVE  Inv'
  BY <1>3 DEF SetActive, Idle, Inv, TypeOK, ResolvedStamp, OneStory,
              RollbackKeepsStory
<1>4. ASSUME NextStep
      PROVE  /\ playbook.identity \in Identities
             /\ playbook' \in Run
             /\ playbook'.saved = playbook.saved
  <2>1. playbook \in Run /\ playbook' = [playbook EXCEPT !.left = playbook.left - 1]
    BY <1>4 DEF NextStep, Inv, TypeOK
  <2>2. playbook.left - 1 \in 0..MaxSteps
    BY <1>4, <2>1, LifecycleAssumption DEF NextStep, Run
  <2> QED
    BY <2>1, <2>2 DEF Run
<1>5. ASSUME NEW action \in ResponseAction, PlaybookStep(action)
      PROVE  Inv'
  <2>1. playbook # NoPlaybook
    BY <1>5 DEF PlaybookStep, NextStep
  <2> QED
    BY <1>0, <1>4, <1>5, <2>1, ExecuteKeeps
       DEF PlaybookStep, Inv, GoodTable, TypeOK, ResolvedStamp, OneStory,
           RollbackKeepsStory
<1>6. CASE SkipUnknownStep
  <2>1. playbook # NoPlaybook
    BY <1>6 DEF SkipUnknownStep, NextStep
  <2> QED
    BY <1>4, <1>6, <2>1 DEF SkipUnknownStep, Inv, TypeOK, ResolvedStamp,
                            OneStory, RollbackKeepsStory
<1>7. CASE FinishPlaybook
  BY <1>7 DEF FinishPlaybook, Inv, TypeOK, ResolvedStamp, OneStory,
              RollbackKeepsStory
<1>8. CASE AbortPlaybook
  <2>1. playbook \in Run
    BY <1>8 DEF AbortPlaybook, Inv, TypeOK
  <2> QED
    BY <1>8, <2>1 DEF AbortPlaybook, Inv, TypeOK, ResolvedStamp, OneStory,
                      RollbackKeepsStory, Run, Committed
<1> QED
  BY <1>1, <1>2, <1>3, <1>5, <1>6, <1>7, <1>8 DEF Response

LEMMA NextInv == Inv /\ [Next]_vars => Inv'
<1> SUFFICES ASSUME Inv, [Next]_vars PROVE Inv'
  OBVIOUS
<1>1. ASSUME NEW i \in Identities, NEW kept \in SUBSET Evidence,
             LeaveWindow(i, kept)
      PROVE  Inv'
  BY <1>1 DEF LeaveWindow, Idle, Inv, TypeOK, ResolvedStamp, OneStory,
              RollbackKeepsStory
<1>2. CASE UNCHANGED vars
  BY <1>2 DEF vars, Inv, TypeOK, ResolvedStamp, OneStory, RollbackKeepsStory
<1> QED
  BY <1>1, <1>2, ScoringInv, TriageInv, ApprovalsInv, ResponseInv DEF Next

(* Every variable keeps its type.                                          *)
THEOREM TypeCorrect == Spec => []TypeOK
<1>1. Inv => TypeOK
  BY DEF Inv
<1> QED
  BY <1>1, InitInv, NextInv, PTL DEF Spec

(* However many identities, alerts, approvals and playbook steps there     *)
(* are, a terminal alert carries resolved_at: the patch, the false         *)
(* positive, the containment, the auto-close and the rollback agree.       *)
THEOREM TerminalStamped == Spec => []ResolvedStamp
<1>1. Inv => ResolvedStamp
  BY DEF Inv
<1> QED
  BY <1>1, InitInv, NextInv, PTL DEF Spec

(* However the serial operations follow one another, an identity never has *)
(* two alerts that nobody ever resolved.                                   *)
THEOREM OneStoryEver == Spec => []OneStory
<1>1. Inv => OneStory
  BY DEF Inv
<1> QED
  BY <1>1, InitInv, NextInv, PTL DEF Spec
-----------------------------------------------------------------------------
(* What one scoring pass may do to the status of an alert it found: the    *)
(* lemma behind VerdictsStand.                                             *)
LEMMA ScoreMoves ==
  ASSUME alerts \in Table, NEW I \in SUBSET Identities,
         NEW found, NEW seen, NEW held, Score(I, alerts, alerts, found, seen, held),
         NEW a \in Present(alerts)
  PROVE  LET from == alerts[a].status
             to == alerts'[a].status
         IN  \/ to = from
             \/ to = "SUPPRESSED" /\ from \notin Terminal
             \/ /\ to = "CLOSED"
                /\ from \in {"OPEN", "TRIAGED"}
                /\ "tamper" \notin found[alerts[a].identity]
<1>1. PICK res \in [I -> Result] :
        /\ \A i \in I : res[i] \in Correlate(found[i], Approved(seen, held, i))
        /\ \E ids \in NextIds(alerts, Raised(alerts, res)) :
             alerts' = Reconcile(alerts, alerts, res, ids)
  BY DEF Score
<1>2. PICK ids \in NextIds(alerts, Raised(alerts, res)) :
        alerts' = Reconcile(alerts, alerts, res, ids)
  BY <1>1
<1>3. alerts[a] \in Alert /\ a \in AlertIds /\ alerts[a] # NoAlert
  BY DEF Table, Present
<1>4. CASE /\ alerts[a].identity \in I
           /\ IsExisting(alerts, alerts[a].identity, a)
           /\ alerts'[a] = Refresh(alerts[a], res[alerts[a].identity])
  <2> DEFINE r == res[alerts[a].identity]
  <2>1. r \in Result /\ (r.tamper <=> "tamper" \in found[alerts[a].identity])
    BY <1>1, <1>4 DEF Correlate
  <2>2. alerts[a].status \notin Terminal
    BY <1>4 DEF IsExisting, Unresolved
  <2> HIDE DEF r
  <2>3. CASE ShouldAlert(r)
    BY <1>3, <1>4, <2>2, <2>3 DEF r, Refresh, Alert
  <2>4. CASE ~ShouldAlert(r)
    <3>1. "tamper" \notin found[alerts[a].identity]
      BY <2>1, <2>4 DEF ShouldAlert
    <3> QED
      BY <1>3, <1>4, <2>4, <3>1 DEF r, Refresh, Alert
  <2> QED
    BY <2>3, <2>4
<1> QED
  BY <1>2, <1>3, <1>4, ReconcileOrigin

(* Scoring and ingestion never overturn a verdict, for any number of       *)
(* identities scored in one transaction.                                   *)
THEOREM VerdictsKept == Spec => VerdictsStand
<1> DEFINE Stands == \A a \in Kept : MachineStepsOnly(a) \/ ~Scoring
<1>1. ASSUME TypeOK, [Next]_vars PROVE Stands
  <2> SUFFICES ASSUME NEW a \in Kept, Scoring PROVE MachineStepsOnly(a)
    OBVIOUS
  <2>1. a \in Present(alerts) /\ alerts \in Table
    BY <1>1 DEF Kept, TypeOK
  <2>2. CASE ScoreFleet
    BY <2>1, <2>2, ScoreMoves DEF ScoreFleet, MachineStepsOnly
  <2>3. ASSUME NEW i \in Identities, Rescore(i) PROVE MachineStepsOnly(a)
    BY <2>1, <2>3, ScoreMoves DEF Rescore, MachineStepsOnly
  <2>4. ASSUME NEW I \in SUBSET Identities,
               NEW new \in [I -> (SUBSET Evidence) \ {{}}],
               NEW recompute \in BOOLEAN, Ingest(new, recompute)
        PROVE  MachineStepsOnly(a)
    <3>1. CASE recompute
      <4>1. Score(I, alerts, alerts, evidence', contexts, contexts)
        BY <2>4, <3>1 DEF Ingest
      <4> QED
        BY <2>1, <4>1, ScoreMoves DEF MachineStepsOnly
    <3>2. CASE ~recompute
      BY <2>4, <3>2 DEF Ingest, MachineStepsOnly
    <3> QED
      BY <3>1, <3>2
  <2> QED
    BY <2>2, <2>3, <2>4 DEF Scoring
<1>2. Spec => []TypeOK
  BY TypeCorrect
<1> QED
  BY <1>1, <1>2, PTL DEF Spec, VerdictsStand

(* Containment leaves no alert of the identity in the triage queue, in a   *)
(* request of its own or as any step of a playbook, although the re-score  *)
(* inside it still finds the alerts by the status they had before.         *)
THEOREM ContainmentEmpties == Spec => ContainmentEmptiesQueue
<1> DEFINE Empties ==
      \A a \in Kept :
        /\ alerts[a].status \in OpenStatuses
        /\ alerts'[a].status \notin {"CONFIRMED_INCIDENT", "SUPPRESSED"}
        => ~Enforcing(alerts[a].identity)
<1>1. ASSUME TypeOK, [Next]_vars PROVE Empties
  <2> SUFFICES ASSUME NEW a \in Kept, alerts[a].status \in OpenStatuses,
                      Enforcing(alerts[a].identity)
               PROVE  alerts'[a].status \in {"CONFIRMED_INCIDENT", "SUPPRESSED"}
    OBVIOUS
  <2> DEFINE i == alerts[a].identity
             mem == CloseOpenAlerts(alerts, alerts, i)
  <2>1. a \in AlertIds /\ alerts[a] \in Alert /\ alerts \in Table /\ i \in Identities
    BY <1>1 DEF Kept, Present, TypeOK, Table, Alert
  <2>2. PICK action \in EnforcingActions : Execute(i, action)
    BY DEF Enforcing, ExecuteAction, PlaybookStep
  <2>3. Score({i}, alerts, mem, evidence, contexts, contexts)
    BY <2>2 DEF Execute
  <2>4. mem \in Table /\ Follows(mem, alerts) /\ mem[a].status = "CONFIRMED_INCIDENT"
    BY <2>1, CloseOpenAlertsTable DEF AlertsOf, Kept
  <2>5. mem[a] # NoAlert /\ mem[a] \in Alert /\ mem[a].identity = i
    BY <2>1, <2>4 DEF Follows, Present, Kept, Table
  <2> HIDE DEF mem, i
  <2>6. PICK res \in [{i} -> Result] :
          \E ids \in NextIds(mem, Raised(alerts, res)) :
            alerts' = Reconcile(alerts, mem, res, ids)
    BY <2>3 DEF Score
  <2>7. PICK ids \in NextIds(mem, Raised(alerts, res)) :
          alerts' = Reconcile(alerts, mem, res, ids)
    BY <2>6
  <2>8. alerts'[a] = mem[a] \/ alerts'[a] = Refresh(mem[a], res[i])
    BY <2>1, <2>4, <2>5, <2>7, ReconcileOrigin
  <2> QED
    BY <2>4, <2>5, <2>8, RefreshKeeps
<1>2. Spec => []TypeOK
  BY TypeCorrect
<1> QED
  BY <1>1, <1>2, PTL DEF Spec, ContainmentEmptiesQueue
-----------------------------------------------------------------------------
(* A scoring pass suppresses an alert only under an approval it saw, and   *)
(* never takes an alert out of suppression.                                *)
LEMMA ScoreSuppresses ==
  ASSUME NEW view \in Table, NEW mem \in Table, NEW I \in SUBSET Identities,
         NEW found, NEW seen, NEW held, Score(I, view, mem, found, seen, held),
         NEW a \in AlertIds
  PROVE  /\ /\ mem[a] # NoAlert
            /\ mem[a].status = "SUPPRESSED"
            => alerts'[a] # NoAlert /\ alerts'[a].status = "SUPPRESSED"
         /\ /\ alerts'[a] # NoAlert
            /\ alerts'[a].status = "SUPPRESSED"
            => \/ mem[a] # NoAlert /\ mem[a].status = "SUPPRESSED"
               \/ Approved(seen, held, alerts'[a].identity)
<1>1. PICK res \in [I -> Result] :
        /\ \A i \in I : res[i] \in Correlate(found[i], Approved(seen, held, i))
        /\ \E ids \in NextIds(mem, Raised(view, res)) :
             alerts' = Reconcile(view, mem, res, ids)
  BY DEF Score
<1>2. PICK ids \in NextIds(mem, Raised(view, res)) :
        alerts' = Reconcile(view, mem, res, ids)
  BY <1>1
<1>3. ASSUME NEW i \in I, Suppresses(res[i])
      PROVE  Approved(seen, held, i)
  BY <1>1, <1>3 DEF Suppresses, Correlate
<1>4. CASE mem[a] = NoAlert
  <2>1. ASSUME NEW i \in Raised(view, res), alerts'[a] = NewAlert(i, res[i]),
               alerts'[a].status = "SUPPRESSED"
        PROVE  Approved(seen, held, alerts'[a].identity)
    <3>1. i \in I /\ alerts'[a].identity = i
      BY <2>1 DEF Raised, NewAlert
    <3>2. Suppresses(res[i])
      BY <2>1 DEF NewAlert
    <3> QED
      BY <1>3, <3>1, <3>2
  <2> QED
    BY <1>2, <1>4, <2>1, ReconcileOrigin
<1>5. CASE mem[a] # NoAlert
  <2> DEFINE i == mem[a].identity
  <2>1. mem[a] \in Alert
    BY <1>5 DEF Table
  <2>2. CASE alerts'[a] = mem[a]
    BY <1>5, <2>2
  <2>3. CASE i \in I /\ alerts'[a] = Refresh(mem[a], res[i])
    <3>1. res[i] \in Result
      BY <2>3
    <3>2. alerts'[a] \in Alert /\ alerts'[a].identity = i /\ alerts'[a] # NoAlert
      BY <2>1, <2>3, <3>1, RefreshKeeps, TableAssumption
    <3>3. mem[a].status = "SUPPRESSED" => alerts'[a].status = "SUPPRESSED"
      BY <2>1, <2>3 DEF Refresh, Alert
    <3>4. alerts'[a].status = "SUPPRESSED" =>
            mem[a].status = "SUPPRESSED" \/ Suppresses(res[i])
      BY <2>1, <2>3 DEF Refresh, Alert
    <3> QED
      BY <1>3, <1>5, <2>3, <3>2, <3>3, <3>4
  <2> QED
    BY <1>2, <1>5, <2>2, <2>3, ReconcileOrigin
<1> QED
  BY <1>4, <1>5

(* An alert that was suppressed when a playbook began still is: none of    *)
(* its steps confirms or closes it, so its rollback suppresses nothing     *)
(* anew.                                                                   *)
SuppressedStays ==
  playbook # NoPlaybook =>
    \A a \in Present(playbook.saved.alerts) :
      playbook.saved.alerts[a].status = "SUPPRESSED" =>
        alerts[a] # NoAlert /\ alerts[a].status = "SUPPRESSED"

(* What Execute does to suppression: containment confirms only alerts of   *)
(* the triage queue, so what is suppressed after it was before, or was     *)
(* damped by an approval.                                                  *)
LEMMA ExecuteSuppresses ==
  ASSUME TypeOK, NEW i \in Identities, NEW action, Execute(i, action),
         NEW a \in AlertIds
  PROVE  /\ /\ alerts[a] # NoAlert
            /\ alerts[a].status = "SUPPRESSED"
            => alerts'[a] # NoAlert /\ alerts'[a].status = "SUPPRESSED"
         /\ /\ alerts'[a] # NoAlert
            /\ alerts'[a].status = "SUPPRESSED"
            => \/ alerts[a] # NoAlert /\ alerts[a].status = "SUPPRESSED"
               \/ Approved(contexts', contexts', alerts'[a].identity)
<1> DEFINE mem == IF action \in EnforcingActions
                  THEN CloseOpenAlerts(alerts, alerts, i) ELSE alerts
<1>1. alerts \in Table
  BY DEF TypeOK
<1>2. /\ mem \in Table
      /\ mem[a] # NoAlert <=> alerts[a] # NoAlert
      /\ alerts[a] # NoAlert =>
           (mem[a].status = "SUPPRESSED" <=> alerts[a].status = "SUPPRESSED")
  <2>1. CASE action \in EnforcingActions
    <3>1. mem = CloseOpenAlerts(alerts, alerts, i)
      BY <2>1
    <3> HIDE DEF mem
    <3> QED
      BY <1>1, <3>1, CloseOpenAlertsTable DEF Follows, Present, OpenStatuses
  <2>2. CASE action \notin EnforcingActions
    BY <1>1, <2>2
  <2> QED
    BY <2>1, <2>2
<1>3. Score({i}, alerts, mem, evidence, contexts, contexts)
  BY DEF Execute
<1>4. ASSUME NEW j, Approved(contexts, contexts, j)
      PROVE  Approved(contexts', contexts', j)
  <2>1. PICK c \in Contexts : ContextOf[c] = j /\ contexts[c] = "active"
    BY <1>4 DEF Approved
  <2>2. contexts'[c] = "active"
    BY <2>1 DEF Execute, TypeOK
  <2> QED
    BY <2>1, <2>2 DEF Approved
<1> HIDE DEF mem
<1> QED
  BY <1>1, <1>2, <1>3, <1>4, ScoreSuppresses

(* What SuppressionNeedsApproval says of one alert.                        *)
Damped(a) ==
  /\ alerts'[a] # NoAlert
  /\ alerts'[a].status = "SUPPRESSED"
  /\ alerts[a] = NoAlert \/ alerts[a].status # "SUPPRESSED"
  => \/ UpdateAlert(a, "SUPPRESSED")
     \/ Approved(contexts', contexts', alerts'[a].identity)

(* An approval whose row was active and whose object still is, is in force *)
(* once the object is written.                                             *)
LEMMA HeldApproval ==
  ASSUME NEW seen, NEW held, NEW i, Approved(seen, held, i)
  PROVE  Approved(held, held, i)
BY DEF Approved

(* Every pass that scores under the approvals it leaves behind.            *)
LEMMA ScoreDamps ==
  ASSUME TypeOK, NEW I \in SUBSET Identities, NEW mem \in {alerts, NoAlerts},
         NEW view \in {alerts, NoAlerts},
         NEW found, NEW seen, Score(I, view, mem, found, seen, contexts'),
         NEW a \in AlertIds
  PROVE  Damped(a)
<1>1. mem \in Table /\ view \in Table
  BY EmptyGood DEF TypeOK, GoodTable
<1>2. mem[a] # NoAlert => mem[a] = alerts[a]
  BY DEF NoAlerts
<1> QED
  BY <1>1, <1>2, ScoreSuppresses, HeldApproval DEF Damped

LEMMA ScoringDamps ==
  ASSUME TypeOK, Scoring, NEW a \in AlertIds PROVE Damped(a)
<1>1. CASE ScoreFleet
  BY <1>1, ScoreDamps DEF ScoreFleet
<1>2. ASSUME NEW i \in Identities, Rescore(i) PROVE Damped(a)
  BY <1>2, ScoreDamps DEF Rescore
<1>3. ASSUME NEW I \in SUBSET Identities,
             NEW new \in [I -> (SUBSET Evidence) \ {{}}],
             NEW recompute \in BOOLEAN, Ingest(new, recompute)
      PROVE  Damped(a)
  <2>1. CASE recompute
    <3>1. Score(I, alerts, alerts, evidence', contexts, contexts')
      BY <1>3, <2>1 DEF Ingest
    <3> QED
      BY <3>1, ScoreDamps
  <2>2. CASE ~recompute
    BY <1>3, <2>2 DEF Ingest, Damped
  <2> QED
    BY <2>1, <2>2
<1> QED
  BY <1>1, <1>2, <1>3 DEF Scoring

LEMMA TriageDamps ==
  ASSUME TypeOK, Triage, NEW a \in AlertIds PROVE Damped(a)
<1>0. /\ alerts \in Table
      /\ \A b \in Present(alerts) : alerts[b] \in Alert
  BY DEF TypeOK, Table, Present
<1>1. ASSUME NEW b \in AlertIds, NEW status \in Status, UpdateAlert(b, status)
      PROVE  Damped(a)
  <2>1. CASE b = a
    <3>1. alerts'[a].status = status
      BY <1>0, <1>1, <2>1 DEF UpdateAlert, Alert, Table
    <3> QED
      BY <1>1, <2>1, <3>1 DEF Damped
  <2>2. CASE b # a
    <3>1. alerts'[a] = alerts[a]
      BY <1>0, <1>1, <2>2 DEF UpdateAlert, Table
    <3> QED
      BY <3>1 DEF Damped
  <2> QED
    BY <2>1, <2>2
<1>2. ASSUME NEW b \in AlertIds, AssignToMe(b) \/ MarkFalsePositive(b)
      PROVE  Damped(a)
  <2>1. CASE b = a
    <3>1. alerts'[a].status # "SUPPRESSED" \/ alerts[a].status = "SUPPRESSED"
      BY <1>0, <1>2, <2>1 DEF AssignToMe, MarkFalsePositive, Alert, Table
    <3>2. alerts[a] # NoAlert
      BY <1>2, <2>1 DEF AssignToMe, MarkFalsePositive, Present
    <3> QED
      BY <3>1, <3>2 DEF Damped
  <2>2. CASE b # a
    <3>1. alerts'[a] = alerts[a]
      BY <1>0, <1>2, <2>2 DEF AssignToMe, MarkFalsePositive, Table
    <3> QED
      BY <3>1 DEF Damped
  <2> QED
    BY <2>1, <2>2
<1>3. ASSUME NEW linked \in SUBSET AlertIds, CreateCase(linked)
      PROVE  Damped(a)
  <2>1. CASE a \in linked
    <3>1. alerts'[a] = [alerts[a] EXCEPT !.status = "INVESTIGATING"]
      BY <1>3, <2>1 DEF CreateCase
    <3>2. alerts'[a].status = "INVESTIGATING"
      BY <1>0, <1>3, <2>1, <3>1 DEF CreateCase, Alert
    <3> QED
      BY <3>2 DEF Damped
  <2>2. CASE a \notin linked
    BY <1>3, <2>2 DEF CreateCase, Damped
  <2> QED
    BY <2>1, <2>2
<1> QED
  BY <1>1, <1>2, <1>3 DEF Triage

LEMMA ApprovalsDamp ==
  ASSUME TypeOK, Approvals, NEW a \in AlertIds PROVE Damped(a)
<1>1. ASSUME NEW c \in Contexts, CreateContext(c) PROVE Damped(a)
  BY <1>1, ScoreDamps, LifecycleAssumption DEF CreateContext
<1>2. ASSUME NEW c \in Contexts, NEW status \in {"active", "inactive"},
             UpdateContext(c, status)
      PROVE  Damped(a)
  BY <1>2, ScoreDamps, LifecycleAssumption DEF UpdateContext
<1>3. ASSUME NEW c \in Contexts, RevokeContext(c) PROVE Damped(a)
  BY <1>3, ScoreDamps, LifecycleAssumption DEF RevokeContext
<1>4. ASSUME NEW lapsed \in SUBSET Contexts, ExpireContexts(lapsed)
      PROVE  Damped(a)
  BY <1>4 DEF ExpireContexts, Damped
<1>5. ASSUME NEW approvals \in SUBSET Contexts,
             NEW history \in [Identities -> {{}, {"ordinary"}}],
             ResetEstate(approvals, history)
      PROVE  Damped(a)
  BY <1>5, ScoreDamps DEF ResetEstate
<1> QED
  BY <1>1, <1>2, <1>3, <1>4, <1>5 DEF Approvals

LEMMA ResponseDamps ==
  ASSUME TypeOK, SuppressedStays, Response, NEW a \in AlertIds PROVE Damped(a)
<1>1. ASSUME NEW i \in Identities, NEW action, Execute(i, action)
      PROVE  Damped(a)
  BY <1>1, ExecuteSuppresses DEF Damped
<1>2. ASSUME NEW action \in ResponseAction, PlaybookStep(action)
      PROVE  Damped(a)
  <2>1. playbook.identity \in Identities
    BY <1>2 DEF PlaybookStep, NextStep, TypeOK, Run
  <2> QED
    BY <1>1, <1>2, <2>1 DEF PlaybookStep
<1>3. CASE AbortPlaybook
  BY <1>3 DEF AbortPlaybook, SuppressedStays, Present, Damped
<1>4. CASE UNCHANGED alerts
  BY <1>4 DEF Damped
<1> QED
  BY <1>1, <1>2, <1>3, <1>4
     DEF Response, ExecuteAction, StartPlaybook, SetActive, SkipUnknownStep,
         FinishPlaybook

(* The running playbook changes nothing of what it saved, and nothing else *)
(* happens while it runs.                                                  *)
LEMMA SuppressedStaysInv ==
  ASSUME TypeOK, SuppressedStays, [Next]_vars PROVE SuppressedStays'
<1>1. CASE UNCHANGED playbook /\ playbook = NoPlaybook
  BY <1>1 DEF SuppressedStays
<1>2. CASE UNCHANGED vars
  BY <1>2 DEF vars, SuppressedStays, Present
<1>3. ASSUME NEW i \in Identities, NEW steps \in 1..MaxSteps,
             StartPlaybook(i, steps)
      PROVE  SuppressedStays'
  BY <1>3 DEF StartPlaybook, SuppressedStays, Present
<1>4. ASSUME NextStep
      PROVE  /\ playbook # NoPlaybook
             /\ playbook.identity \in Identities
             /\ playbook'.saved = playbook.saved
             /\ playbook.saved.alerts \in Table
  BY <1>4 DEF NextStep, TypeOK, Run, Committed
<1>5. ASSUME NEW action \in ResponseAction, PlaybookStep(action)
      PROVE  SuppressedStays'
  <2>1. Execute(playbook.identity, action)
    BY <1>5 DEF PlaybookStep
  <2>2. ASSUME NEW a \in Present(playbook.saved.alerts),
               playbook.saved.alerts[a].status = "SUPPRESSED"
        PROVE  alerts'[a] # NoAlert /\ alerts'[a].status = "SUPPRESSED"
    <3>1. a \in AlertIds /\ alerts[a] # NoAlert /\ alerts[a].status = "SUPPRESSED"
      BY <1>4, <1>5, <2>2 DEF PlaybookStep, SuppressedStays, Present
    <3> QED
      BY <1>4, <1>5, <2>1, <3>1, ExecuteSuppresses DEF PlaybookStep
  <2> QED
    BY <1>4, <1>5, <2>2 DEF PlaybookStep, SuppressedStays, Present
<1>6. CASE SkipUnknownStep
  BY <1>4, <1>6 DEF SkipUnknownStep, SuppressedStays, Present
<1>7. CASE playbook' = NoPlaybook
  BY <1>7 DEF SuppressedStays
<1>8. Idle => SuppressedStays'
  BY <1>1 DEF Idle
<1>9. CASE Scoring \/ Triage \/ Approvals
  BY <1>8, <1>9
     DEF Scoring, ScoreFleet, Rescore, Ingest, Triage, UpdateAlert, AssignToMe,
         MarkFalsePositive, CreateCase, Approvals, CreateContext, UpdateContext,
         RevokeContext, ExpireContexts, ResetEstate
<1>10. CASE Response
  BY <1>3, <1>5, <1>6, <1>7, <1>8, <1>10
     DEF Response, ExecuteAction, SetActive, FinishPlaybook, AbortPlaybook
<1> QED
  BY <1>2, <1>8, <1>9, <1>10 DEF Next, LeaveWindow

(* Nothing but a patch by hand suppresses an alert of an identity without  *)
(* an approval in force after the step, whatever the order of approvals,   *)
(* revocations and scoring passes, and whenever a playbook rolls back.     *)
THEOREM SuppressionApproved == Spec => SuppressionNeedsApproval
<1> DEFINE AllDamped == \A a \in AlertIds : Damped(a)
<1>1. Init => SuppressedStays
  BY DEF Init, SuppressedStays
<1>2. TypeOK /\ SuppressedStays /\ [Next]_vars => SuppressedStays'
  BY SuppressedStaysInv
<1>3. ASSUME TypeOK, SuppressedStays, [Next]_vars PROVE AllDamped
  <2> SUFFICES ASSUME NEW a \in AlertIds PROVE Damped(a)
    OBVIOUS
  <2>1. CASE UNCHANGED alerts
    BY <2>1 DEF Damped
  <2> QED
    BY <1>3, <2>1, ScoringDamps, TriageDamps, ApprovalsDamp, ResponseDamps
       DEF Next, LeaveWindow, vars
<1>4. Spec => []TypeOK
  BY TypeCorrect
<1>5. AllDamped <=> \A a \in AlertIds :
        /\ alerts'[a] # NoAlert
        /\ alerts'[a].status = "SUPPRESSED"
        /\ alerts[a] = NoAlert \/ alerts[a].status # "SUPPRESSED"
        => \/ UpdateAlert(a, "SUPPRESSED")
           \/ Approved(contexts', contexts', alerts'[a].identity)
  BY DEF Damped
<1> HIDE DEF AllDamped
<1> QED
  BY <1>1, <1>2, <1>3, <1>4, <1>5, PTL DEF Spec, SuppressionNeedsApproval
-----------------------------------------------------------------------------
(* A pass over an identity with tampering in its window leaves it an       *)
(* unresolved alert: the one it had is refreshed and not closed, and where *)
(* there was none one is raised.                                           *)
LEMMA ScoreSurfaces ==
  ASSUME alerts \in Table, NEW I \in SUBSET Identities, NEW i \in I,
         NEW found, "tamper" \in found[i], NEW seen, NEW held,
         Score(I, alerts, alerts, found, seen, held)
  PROVE  Unresolved(alerts', i) # {}
<1>1. PICK res \in [I -> Result] :
        /\ \A j \in I : res[j] \in Correlate(found[j], Approved(seen, held, j))
        /\ \E ids \in NextIds(alerts, Raised(alerts, res)) :
             alerts' = Reconcile(alerts, alerts, res, ids)
  BY DEF Score
<1>2. PICK ids \in NextIds(alerts, Raised(alerts, res)) :
        alerts' = Reconcile(alerts, alerts, res, ids)
  BY <1>1
<1>3. res[i] \in Result /\ ShouldAlert(res[i])
  BY <1>1 DEF Correlate, ShouldAlert
<1>4. CASE Unresolved(alerts, i) = {}
  <2> DEFINE a == ids[i]
  <2>1. i \in Raised(alerts, res)
    BY <1>3, <1>4 DEF Raised
  <2>2. a \in AlertIds /\ i \in DOMAIN ids
        /\ \A j \in DOMAIN ids : ids[j] = a => j = i
    BY <2>1 DEF NextIds
  <2>3. \A b \in Present(alerts) : b < a
    BY <2>1 DEF NextIds
  <2> HIDE DEF a
  <2>4. alerts[a] = NoAlert
    <3>1. ~(a < a)
      BY <2>2, TableAssumption
    <3> QED
      BY <2>2, <2>3, <3>1 DEF Present
  <2>5. alerts'[a] = NewAlert(i, res[i])
    <3>1. \E j \in DOMAIN ids : ids[j] = a
      BY <2>2 DEF a
    <3>2. alerts'[a] = NewAlert(CHOOSE j \in DOMAIN ids : ids[j] = a,
                                res[CHOOSE j \in DOMAIN ids : ids[j] = a])
      BY <1>2, <2>2, <2>4, <3>1 DEF Reconcile
    <3>3. (CHOOSE j \in DOMAIN ids : ids[j] = a) = i
      BY <2>2, <3>1
    <3> QED
      BY <3>2, <3>3
  <2>6. /\ alerts'[a] \in Alert
        /\ alerts'[a].identity = i
        /\ alerts'[a].status \notin Terminal
    BY <1>3, <2>5, NewAlertOpen
  <2> QED
    BY <2>2, <2>6, TableAssumption DEF Unresolved, AlertsOf, Present
<1>5. CASE Unresolved(alerts, i) # {}
  <2>1. PICK a \in Unresolved(alerts, i) : TRUE
    BY <1>5
  <2>2. /\ a \in AlertIds /\ alerts[a] # NoAlert /\ alerts[a] \in Alert
        /\ alerts[a].identity = i /\ alerts[a].status \notin Terminal
    BY <2>1 DEF Unresolved, AlertsOf, Present, Table
  <2>3. alerts'[a] = alerts[a] \/ alerts'[a] = Refresh(alerts[a], res[i])
    BY <1>2, <2>2, ReconcileOrigin
  <2>4. /\ Refresh(alerts[a], res[i]) \in Alert
        /\ Refresh(alerts[a], res[i]).identity = i
        /\ Refresh(alerts[a], res[i]).status \notin Terminal
    <3>1. Refresh(alerts[a], res[i]).status \in {"SUPPRESSED", alerts[a].status}
      BY <1>3, <2>2 DEF Refresh, Alert
    <3> QED
      BY <1>3, <2>2, <3>1, RefreshKeeps DEF Terminal
  <2> QED
    BY <2>2, <2>3, <2>4, TableAssumption DEF Unresolved, AlertsOf, Present
<1> QED
  BY <1>4, <1>5

(* Evidence of tampering in the window brings an active identity back to   *)
(* the attention of analysts at every pass over the fleet, whatever        *)
(* verdict, suppression or containment came before.                        *)
THEOREM TamperingAlwaysResurfaces == Spec => TamperingResurfaces
<1> DEFINE Resurfaces ==
      \A i \in Identities :
        /\ active[i]
        /\ "tamper" \in evidence[i]
        /\ Unresolved(alerts', i) = {}
        => ~ScoreFleet
<1>1. ASSUME TypeOK PROVE Resurfaces
  <2> SUFFICES ASSUME NEW i \in Identities, active[i], "tamper" \in evidence[i],
                      ScoreFleet
               PROVE  Unresolved(alerts', i) # {}
    OBVIOUS
  <2> DEFINE I == {j \in Identities : active[j]}
  <2>1. i \in I /\ I \in SUBSET Identities /\ alerts \in Table
    BY <1>1 DEF TypeOK
  <2>2. Score(I, alerts, alerts, evidence, contexts, contexts)
    BY DEF ScoreFleet
  <2> HIDE DEF I
  <2> QED
    BY <2>1, <2>2, ScoreSurfaces
<1>2. Spec => []TypeOK
  BY TypeCorrect
<1> QED
  BY <1>1, <1>2, PTL DEF TamperingResurfaces
-----------------------------------------------------------------------------
(* AlertLifecycle implements TriageQueue.  The two share their tables.     *)
LEMMA SameTables ==
  /\ Queue!Alert = Alert /\ Queue!Status = Status
  /\ Queue!Terminal = Terminal /\ Queue!OpenStatuses = OpenStatuses
  /\ \A t : Queue!Present(t) = Present(t)
  /\ \A t, i : Queue!AlertsOf(t, i) = AlertsOf(t, i) /\ Queue!Unresolved(t, i) = Unresolved(t, i)
  /\ \A t, i, a : Queue!IsExisting(t, i, a) <=> IsExisting(t, i, a)
<1>1. /\ Queue!Status = Status /\ Queue!Terminal = Terminal
      /\ Queue!OpenStatuses = OpenStatuses
  BY DEF Queue!Status, Status, Queue!Terminal, Terminal, Queue!OpenStatuses, OpenStatuses
<1>2. Queue!Alert = Alert
  BY <1>1 DEF Queue!Alert, Alert
<1>3. \A t : Queue!Present(t) = Present(t)
  BY DEF Queue!Present, Present
<1>4. \A t, i : Queue!AlertsOf(t, i) = AlertsOf(t, i)
  BY <1>3 DEF Queue!AlertsOf, AlertsOf
<1>5. \A t, i : Queue!Unresolved(t, i) = Unresolved(t, i)
  BY <1>1, <1>4 DEF Queue!Unresolved, Unresolved
<1>6. \A t, i, a : Queue!IsExisting(t, i, a) <=> IsExisting(t, i, a)
  BY <1>5 DEF Queue!IsExisting, IsExisting
<1> QED
  BY <1>1, <1>2, <1>3, <1>4, <1>5, <1>6

(* A story that scoring refreshes goes on.                                 *)
LEMMA RefreshGoesOn ==
  ASSUME NEW al \in Alert, al.status \notin Terminal, NEW r \in Result
  PROVE  Queue!GoesOn(al, Refresh(al, r))
<1>1. Refresh(al, r) \in Alert /\ Refresh(al, r).identity = al.identity
  BY RefreshKeeps
<1>2. \/ Refresh(al, r).status \in {al.status, "SUPPRESSED"} /\ Refresh(al, r).resolved = al.resolved
      \/ al.status \in {"OPEN", "TRIAGED"} /\ Refresh(al, r).status = "CLOSED" /\ Refresh(al, r).resolved
  BY DEF Refresh, Alert
<1> QED
  BY <1>1, <1>2, SameTables DEF Queue!GoesOn

(* A scoring pass is a scoring of the queue.                               *)
LEMMA ScoreIsScored ==
  ASSUME NEW t \in Table, NEW I \in SUBSET Identities, NEW found, NEW seen, NEW held,
         Score(I, t, t, found, seen, held)
  PROVE  Queue!Scored(t, alerts')
<1>1. PICK res \in [I -> Result] :
        \E ids \in NextIds(t, Raised(t, res)) : alerts' = Reconcile(t, t, res, ids)
  BY DEF Score
<1>2. PICK ids \in NextIds(t, Raised(t, res)) : alerts' = Reconcile(t, t, res, ids)
  BY <1>1
<1>3. ASSUME NEW a \in Present(t)
      PROVE  \/ alerts'[a] = t[a]
             \/ IsExisting(t, t[a].identity, a) /\ Queue!GoesOn(t[a], alerts'[a])
  <2>1. a \in AlertIds /\ t[a] # NoAlert /\ t[a] \in Alert
    BY <1>3 DEF Present, Table
  <2>2. CASE /\ t[a].identity \in I
             /\ IsExisting(t, t[a].identity, a)
             /\ alerts'[a] = Refresh(t[a], res[t[a].identity])
    <3>1. t[a].status \notin Terminal /\ res[t[a].identity] \in Result
      BY <2>2 DEF IsExisting, Unresolved
    <3> QED
      BY <2>1, <2>2, <3>1, RefreshGoesOn
  <2> QED
    BY <1>2, <2>1, <2>2, ReconcileOrigin
<1>4. ASSUME NEW a \in Present(alerts') \ Present(t)
      PROVE  \E i \in Raised(t, res) :
               /\ ids[i] = a /\ alerts'[a] = NewAlert(i, res[i])
               /\ i \in Identities /\ res[i] \in Result
  <2>1. a \in AlertIds /\ t[a] = NoAlert /\ alerts'[a] # NoAlert
    BY <1>4 DEF Present
  <2>2. Raised(t, res) \subseteq I
    BY DEF Raised
  <2> QED
    BY <1>2, <2>1, <2>2, ReconcileOrigin
<1>5. ASSUME NEW a \in Present(alerts') \ Present(t)
      PROVE  /\ alerts'[a] \in Alert /\ alerts'[a].status \in {"OPEN", "SUPPRESSED"}
             /\ ~alerts'[a].resolved
             /\ Unresolved(t, alerts'[a].identity) = {}
             /\ \A b \in Present(t) : b < a
             /\ \A b \in Present(alerts') \ Present(t) :
                  alerts'[b].identity = alerts'[a].identity => b = a
  <2>1. PICK i \in Raised(t, res) : /\ ids[i] = a /\ alerts'[a] = NewAlert(i, res[i])
                                    /\ i \in Identities /\ res[i] \in Result
    BY <1>4, <1>5
  <2>2. alerts'[a] \in Alert /\ alerts'[a].identity = i
    BY <2>1, NewAlertOpen
  <2>3. alerts'[a].status \in {"OPEN", "SUPPRESSED"} /\ ~alerts'[a].resolved
    BY <2>1 DEF NewAlert
  <2>4. Unresolved(t, i) = {}
    BY <2>1 DEF Raised
  <2>5. \A b \in Present(t) : b < a
    BY <2>1 DEF NextIds
  <2>6. ASSUME NEW b \in Present(alerts') \ Present(t), alerts'[b].identity = i
        PROVE  b = a
    <3>1. PICK j \in Raised(t, res) : /\ ids[j] = b /\ alerts'[b] = NewAlert(j, res[j])
                                      /\ j \in Identities /\ res[j] \in Result
      BY <1>4, <2>6
    <3>2. alerts'[b].identity = j
      BY <3>1, NewAlertOpen
    <3> QED
      BY <2>1, <2>6, <3>1, <3>2
  <2> QED
    BY <2>2, <2>3, <2>4, <2>5, <2>6
<1> QED
  BY <1>3, <1>5, SameTables DEF Queue!Scored, Queue!Added

(* A response whose re-score finds the alerts as they were before it       *)
(* confirmed them still decides them only.                                 *)
LEMMA ExecuteIsResponse ==
  ASSUME alerts \in Table, NEW i \in Identities, NEW action, Execute(i, action)
  PROVE  Queue!Responded(alerts, alerts', i)
<1> DEFINE mem == IF action \in EnforcingActions
                  THEN CloseOpenAlerts(alerts, alerts, i) ELSE alerts
<1>1. Score({i}, alerts, mem, evidence, contexts, contexts)
  BY DEF Execute
<1>2. /\ mem \in Table /\ Follows(mem, alerts)
      /\ \A a \in AlertIds :
           \/ /\ a \in AlertsOf(alerts, i)
              /\ alerts[a].status \in OpenStatuses
              /\ mem[a].status = "CONFIRMED_INCIDENT"
              /\ mem[a].resolved
           \/ mem[a] = alerts[a]
  BY CloseOpenAlertsTable, FollowsItself
<1> HIDE DEF mem
<1>3. PICK res \in [{i} -> Result] :
        \E ids \in NextIds(mem, Raised(alerts, res)) :
          alerts' = Reconcile(alerts, mem, res, ids)
  BY <1>1 DEF Score
<1>4. PICK ids \in NextIds(mem, Raised(alerts, res)) :
        alerts' = Reconcile(alerts, mem, res, ids)
  BY <1>3
<1>5. Present(mem) = Present(alerts) /\ res[i] \in Result
  BY <1>2 DEF Follows
<1>6. ASSUME NEW a \in Present(alerts)
      PROVE  \/ alerts'[a] = alerts[a]
             \/ a \in Unresolved(alerts, i) /\ Queue!IsDecided(alerts[a], alerts'[a])
  <2>1. /\ a \in AlertIds /\ alerts[a] \in Alert
        /\ mem[a] # NoAlert /\ mem[a] \in Alert /\ mem[a].identity = alerts[a].identity
        /\ alerts[a].resolved => mem[a].resolved
    BY <1>2, <1>5, <1>6 DEF Present, Table, Follows
  <2>2. \/ alerts'[a] = mem[a]
        \/ /\ alerts[a].identity = i
           /\ IsExisting(alerts, i, a)
           /\ alerts'[a] = Refresh(mem[a], res[i])
    BY <1>2, <1>4, <2>1, ReconcileOrigin
  <2>3. CASE alerts'[a] = mem[a] /\ mem[a] # alerts[a]
    <3>1. a \in AlertsOf(alerts, i) /\ alerts[a].status \in OpenStatuses
          /\ mem[a].status = "CONFIRMED_INCIDENT" /\ mem[a].resolved
      BY <1>2, <2>1, <2>3
    <3>2. a \in Unresolved(alerts, i)
      BY <3>1 DEF Unresolved, OpenStatuses, Terminal
    <3> QED
      BY <2>1, <2>3, <3>1, <3>2, SameTables DEF Queue!IsDecided
  <2>4. CASE /\ alerts[a].identity = i
             /\ IsExisting(alerts, i, a)
             /\ alerts'[a] = Refresh(mem[a], res[i])
    <3>1. a \in Unresolved(alerts, i) /\ alerts[a].status \notin Terminal
      BY <2>4 DEF IsExisting, Unresolved
    <3>2. /\ alerts'[a] \in Alert /\ alerts'[a].identity = alerts[a].identity
          /\ alerts[a].resolved => alerts'[a].resolved
      BY <1>5, <2>1, <2>4, RefreshKeeps
    <3>3. CASE mem[a] = alerts[a]
      <4>1. Queue!GoesOn(alerts[a], alerts'[a])
        BY <1>5, <2>1, <2>4, <3>1, <3>3, RefreshGoesOn
      <4> QED
        BY <3>1, <3>2, <4>1, SameTables DEF Queue!GoesOn, Queue!IsDecided
    <3>4. CASE mem[a] # alerts[a]
      <4>1. /\ alerts[a].status \in OpenStatuses
            /\ mem[a].status = "CONFIRMED_INCIDENT" /\ mem[a].resolved
        BY <1>2, <2>1, <3>4
      <4>2. alerts'[a].status \in {"CONFIRMED_INCIDENT", "SUPPRESSED"} /\ alerts'[a].resolved
        BY <1>5, <2>1, <2>4, <4>1, RefreshKeeps
      <4> QED
        BY <3>1, <3>2, <4>1, <4>2, SameTables DEF Queue!IsDecided
    <3> QED
      BY <3>3, <3>4
  <2> QED
    BY <2>2, <2>3, <2>4
<1>7. ASSUME NEW a \in Present(alerts') \ Present(alerts)
      PROVE  /\ alerts'[a] \in Alert /\ alerts'[a].identity = i
             /\ ids[i] = a /\ i \in Raised(alerts, res)
  <2>1. a \in AlertIds /\ mem[a] = NoAlert /\ alerts'[a] # NoAlert
    BY <1>5, <1>7 DEF Present
  <2>2. PICK j \in Raised(alerts, res) : ids[j] = a /\ alerts'[a] = NewAlert(j, res[j])
    BY <1>2, <1>4, <2>1, ReconcileOrigin
  <2>3. j = i
    BY <2>2 DEF Raised
  <2> QED
    BY <1>5, <2>2, <2>3, NewAlertOpen
<1>8. ASSUME NEW a \in Present(alerts') \ Present(alerts)
      PROVE  /\ \A b \in Present(alerts) : b < a
             /\ \A b \in AlertsOf(alerts', i) : b < a => alerts'[b].status \in Terminal
  <2>1. ids[i] = a /\ i \in Raised(alerts, res) /\ a \in Nat
    BY <1>7, TableAssumption DEF Present
  <2>2. \A b \in Present(alerts) : b < a
    BY <1>5, <2>1 DEF NextIds
  <2>3. ASSUME NEW b \in AlertsOf(alerts', i), b < a
        PROVE  alerts'[b].status \in Terminal
    <3>1. b \in Present(alerts)
      <4>1. CASE b \in Present(alerts') \ Present(alerts)
        <5>1. b = a
          BY <1>7, <2>1, <4>1
        <5> QED
          BY <2>1, <2>3, <5>1
      <4> QED
        BY <2>3, <4>1 DEF AlertsOf
    <3>2. Unresolved(alerts, i) = {}
      BY <2>1 DEF Raised
    <3>3. alerts'[b] = alerts[b]
      BY <1>6, <3>1, <3>2
    <3> QED
      BY <2>3, <3>1, <3>2, <3>3 DEF Unresolved, AlertsOf
  <2> QED
    BY <2>2, <2>3
<1> QED
  BY <1>6, <1>7, <1>8, SameTables DEF Queue!Responded, Queue!Added

(* Responses to one identity, one after the other, are one response.       *)
LEMMA ResponsesChain ==
  ASSUME NEW t \in Table, NEW u \in Table, NEW v \in Table, NEW i \in Identities,
         Queue!Responded(t, u, i), Queue!Responded(u, v, i)
  PROVE  Queue!Responded(t, v, i)
<1>1. ASSUME NEW a \in Present(t)
      PROVE  \/ u[a] = t[a]
             \/ a \in Unresolved(t, i) /\ Queue!IsDecided(t[a], u[a])
  BY <1>1, SameTables DEF Queue!Responded
<1>2. ASSUME NEW a \in Present(u)
      PROVE  \/ v[a] = u[a]
             \/ a \in Unresolved(u, i) /\ Queue!IsDecided(u[a], v[a])
  BY <1>2, SameTables DEF Queue!Responded
<1>3. ASSUME NEW a \in Present(u) \ Present(t)
      PROVE  /\ u[a] \in Alert /\ u[a].identity = i
             /\ \A b \in Present(t) : b < a
             /\ \A b \in AlertsOf(u, i) : b < a => u[b].status \in Terminal
  BY <1>3, SameTables DEF Queue!Responded, Queue!Added
<1>4. ASSUME NEW a \in Present(v) \ Present(u)
      PROVE  /\ v[a] \in Alert /\ v[a].identity = i
             /\ \A b \in Present(u) : b < a
             /\ \A b \in AlertsOf(v, i) : b < a => v[b].status \in Terminal
  BY <1>4, SameTables DEF Queue!Responded, Queue!Added
<1>5. Present(t) \subseteq Present(u) /\ Present(u) \subseteq Present(v)
  BY <1>1, <1>2, SameTables, TableAssumption DEF Present, Queue!IsDecided
<1>6. ASSUME NEW a \in Present(t)
      PROVE  \/ v[a] = t[a]
             \/ a \in Unresolved(t, i) /\ Queue!IsDecided(t[a], v[a])
  <2>1. CASE u[a] = t[a]
    BY <1>2, <1>5, <1>6, <2>1 DEF Unresolved, AlertsOf
  <2>2. CASE v[a] = u[a]
    BY <1>1, <1>6, <2>2
  <2>3. CASE u[a] # t[a] /\ v[a] # u[a]
    <3>1. a \in Unresolved(t, i) /\ Queue!IsDecided(t[a], u[a])
      BY <1>1, <1>6, <2>3
    <3>2. u[a].status \notin Terminal /\ Queue!IsDecided(u[a], v[a])
      BY <1>2, <1>5, <1>6, <2>3 DEF Unresolved
    <3>3. u[a].status \in {t[a].status, "SUPPRESSED"}
      BY <3>1, <3>2 DEF Queue!IsDecided, Terminal
    <3>4. Queue!IsDecided(t[a], v[a])
      BY <3>1, <3>2, <3>3, SameTables DEF Queue!IsDecided, OpenStatuses
    <3> QED
      BY <3>1, <3>4
  <2> QED
    BY <2>1, <2>2, <2>3
<1>7. ASSUME NEW a \in Present(u)
      PROVE  /\ v[a] \in Alert /\ v[a].identity = u[a].identity
             /\ u[a].status \in Terminal => v[a] = u[a]
  <2>1. u[a] \in Alert
    BY <1>7 DEF Present, Table
  <2> QED
    BY <1>2, <1>7, <2>1, SameTables DEF Queue!IsDecided, Unresolved
<1>8. ASSUME NEW a \in Present(v) \ Present(t)
      PROVE  /\ v[a] \in Alert /\ v[a].identity = i
             /\ \A b \in Present(t) : b < a
             /\ \A b \in AlertsOf(v, i) : b < a => v[b].status \in Terminal
  <2>1. CASE a \in Present(u)
    <3>1. ASSUME NEW b \in AlertsOf(v, i), b < a
          PROVE  v[b].status \in Terminal
      <4>1. b \in Present(u)
        <5>1. SUFFICES ASSUME b \in Present(v) \ Present(u) PROVE FALSE
          BY <3>1 DEF AlertsOf
        <5>2. a < b /\ a \in Nat /\ b \in Nat
          BY <1>4, <2>1, <5>1, TableAssumption DEF Present
        <5> QED
          BY <3>1, <5>2
      <4>2. u[b].identity = i
        BY <1>7, <3>1, <4>1 DEF AlertsOf
      <4>3. u[b].status \in Terminal
        BY <1>3, <1>8, <2>1, <3>1, <4>1, <4>2 DEF AlertsOf
      <4> QED
        BY <1>7, <4>1, <4>3
    <3> QED
      BY <1>3, <1>7, <1>8, <2>1, <3>1
  <2>2. CASE a \notin Present(u)
    BY <1>4, <1>5, <1>8, <2>2
  <2> QED
    BY <2>1, <2>2
<1> QED
  BY <1>6, <1>8, SameTables DEF Queue!Responded, Queue!Added

(* What a playbook has done so far is a response to its identity.          *)
PlaybookResponds ==
  playbook # NoPlaybook =>
    Queue!Responded(playbook.saved.alerts, alerts, playbook.identity)

LEMMA NothingIsResponse ==
  ASSUME NEW t \in Table, NEW i \in Identities
  PROVE  Queue!Responded(t, t, i)
BY DEF Queue!Responded, Queue!Added

LEMMA PlaybookRespondsInv ==
  ASSUME TypeOK, TypeOK', PlaybookResponds, [Next]_vars PROVE PlaybookResponds'
<1>1. CASE UNCHANGED vars
  BY <1>1 DEF vars, PlaybookResponds
<1>2. CASE playbook' = NoPlaybook
  BY <1>2 DEF PlaybookResponds
<1>3. ASSUME NEW i \in Identities, NEW steps \in 1..MaxSteps, StartPlaybook(i, steps)
      PROVE  PlaybookResponds'
  <2>1. playbook'.identity = i /\ playbook'.saved.alerts = alerts /\ alerts' = alerts
    BY <1>3 DEF StartPlaybook
  <2>2. Queue!Responded(alerts, alerts, i)
    BY NothingIsResponse DEF TypeOK
  <2> QED
    BY <2>1, <2>2 DEF PlaybookResponds
<1>4. ASSUME NextStep
      PROVE  /\ playbook # NoPlaybook /\ playbook.identity \in Identities
             /\ playbook.saved.alerts \in Table
             /\ playbook'.saved = playbook.saved /\ playbook'.identity = playbook.identity
  BY <1>4 DEF NextStep, TypeOK, Run, Committed
<1>5. ASSUME NEW action \in ResponseAction, PlaybookStep(action)
      PROVE  PlaybookResponds'
  <2> DEFINE i == playbook.identity
             t == playbook.saved.alerts
  <2>1. Queue!Responded(alerts, alerts', i)
    BY <1>4, <1>5, ExecuteIsResponse DEF PlaybookStep, TypeOK
  <2>2. Queue!Responded(t, alerts, i)
    BY <1>4, <1>5 DEF PlaybookStep, PlaybookResponds
  <2>3. Queue!Responded(t, alerts', i)
    BY <1>4, <1>5, <2>1, <2>2, ResponsesChain DEF PlaybookStep, TypeOK
  <2> QED
    BY <1>4, <1>5, <2>3 DEF PlaybookStep, PlaybookResponds
<1>6. CASE SkipUnknownStep
  BY <1>4, <1>6 DEF SkipUnknownStep, PlaybookResponds
<1>7. ASSUME Idle PROVE PlaybookResponds'
  BY <1>7 DEF Idle, PlaybookResponds
<1>8. CASE Scoring \/ Triage \/ Approvals
  BY <1>7, <1>8
     DEF Scoring, ScoreFleet, Rescore, Ingest, Triage, UpdateAlert, AssignToMe,
         MarkFalsePositive, CreateCase, Approvals, CreateContext, UpdateContext,
         RevokeContext, ExpireContexts, ResetEstate
<1>9. CASE Response
  BY <1>2, <1>3, <1>5, <1>6, <1>7, <1>9
     DEF Response, ExecuteAction, SetActive, FinishPlaybook, AbortPlaybook
<1> QED
  BY <1>1, <1>7, <1>8, <1>9 DEF Next, LeaveWindow

(* Outside a playbook every step is a transaction of the queue.            *)
LEMMA WhileIdle ==
  ASSUME Idle PROVE CommittedAlerts = alerts /\ CommittedAlerts' = alerts'
BY DEF Idle, CommittedAlerts

LEMMA ScoringRefines ==
  ASSUME TypeOK, Scoring PROVE [Queue!Next]_CommittedAlerts
<1>1. ASSUME Idle, NEW I \in SUBSET Identities, NEW found, NEW seen, NEW held,
             Score(I, alerts, alerts, found, seen, held)
      PROVE  Queue!Next
  BY <1>1, WhileIdle, ScoreIsScored DEF Queue!Next, Queue!Score, TypeOK
<1>2. ASSUME Idle, UNCHANGED alerts PROVE CommittedAlerts' = CommittedAlerts
  BY <1>2, WhileIdle
<1>3. CASE ScoreFleet
  BY <1>1, <1>3 DEF ScoreFleet
<1>4. ASSUME NEW i \in Identities, Rescore(i) PROVE Queue!Next
  BY <1>1, <1>4 DEF Rescore
<1>5. ASSUME NEW I \in SUBSET Identities, NEW new \in [I -> (SUBSET Evidence) \ {{}}],
             NEW recompute \in BOOLEAN, Ingest(new, recompute)
      PROVE  [Queue!Next]_CommittedAlerts
  <2>1. CASE recompute
    <3>1. Idle /\ Score(I, alerts, alerts, evidence', contexts, contexts)
      BY <1>5, <2>1 DEF Ingest
    <3> QED
      BY <1>1, <3>1
  <2>2. CASE ~recompute
    BY <1>2, <1>5, <2>2 DEF Ingest
  <2> QED
    BY <2>1, <2>2
<1> QED
  BY <1>3, <1>4, <1>5 DEF Scoring

(* What analysts do to one alert is a decision, also the assignment: one   *)
(* that changes nothing leaves a decided alert dated.                      *)
LEMMA TriageRefines ==
  ASSUME TypeOK, ResolvedStamp, Triage PROVE [Queue!Next]_CommittedAlerts
<1>0. alerts \in Table
  BY DEF TypeOK
<1>1. ASSUME Idle, NEW a \in Present(alerts), NEW status \in Status,
             alerts' = [alerts EXCEPT ![a] = [alerts[a] EXCEPT !.status = status,
                          !.resolved = alerts[a].resolved \/ status \in Terminal]]
      PROVE  Queue!Next
  <2>1. a \in AlertIds /\ Queue!Decide(a, status)
    BY <1>1, WhileIdle, SameTables DEF Queue!Decide, Present
  <2> QED
    BY <2>1, SameTables, <1>1 DEF Queue!Next
<1>2. ASSUME NEW a \in AlertIds, NEW status \in Status, UpdateAlert(a, status)
      PROVE  Queue!Next
  BY <1>1, <1>2 DEF UpdateAlert
<1>3. ASSUME NEW a \in AlertIds, MarkFalsePositive(a)
      PROVE  Queue!Next
  <2>1. "FALSE_POSITIVE" \in Status /\ "FALSE_POSITIVE" \in Terminal
    BY DEF Status, Terminal
  <2>2. (alerts[a].resolved \/ "FALSE_POSITIVE" \in Terminal) = TRUE
    BY <2>1
  <2>3. alerts' = [alerts EXCEPT ![a] = [alerts[a] EXCEPT !.status = "FALSE_POSITIVE",
                     !.resolved = alerts[a].resolved \/ "FALSE_POSITIVE" \in Terminal]]
    BY <1>3, <2>2 DEF MarkFalsePositive
  <2> QED
    BY <1>1, <1>3, <2>1, <2>3 DEF MarkFalsePositive
<1>4. ASSUME NEW a \in AlertIds, AssignToMe(a)
      PROVE  Queue!Next
  <2> DEFINE status == IF alerts[a].status = "OPEN" THEN "TRIAGED" ELSE alerts[a].status
             old == alerts[a]
  <2>1. a \in Present(alerts) /\ old \in Alert
    BY <1>0, <1>4 DEF AssignToMe, Present, Table
  <2>2. status \in Status
    BY <2>1 DEF Alert, Status
  <2>3. old.resolved \in BOOLEAN /\ (status \in Terminal => old.resolved)
    BY <2>1 DEF Alert, ResolvedStamp, Stamped, Terminal
  <2>4. alerts' = [alerts EXCEPT ![a] = [old EXCEPT !.status = status]]
    BY <1>4 DEF AssignToMe
  <2> HIDE DEF status
  <2>5. (old.resolved \/ status \in Terminal) = old.resolved
    BY <2>3
  <2>6. [old EXCEPT !.status = status] =
          [old EXCEPT !.status = status, !.resolved = old.resolved \/ status \in Terminal]
    BY <2>1, <2>5 DEF Alert
  <2>7. alerts' = [alerts EXCEPT ![a] = [alerts[a] EXCEPT !.status = status,
                     !.resolved = alerts[a].resolved \/ status \in Terminal]]
    BY <2>4, <2>6, Zenon
  <2>8. Idle
    BY <1>4 DEF AssignToMe
  <2> QED
    BY <1>1, <2>1, <2>2, <2>7, <2>8
<1>5. ASSUME NEW linked \in SUBSET AlertIds, CreateCase(linked)
      PROVE  Queue!Next
  <2>1. Queue!Investigate(linked)
    BY <1>5, WhileIdle, SameTables DEF CreateCase, Queue!Investigate
  <2> QED
    BY <2>1 DEF Queue!Next
<1> QED
  BY <1>2, <1>3, <1>4, <1>5 DEF Triage

LEMMA ApprovalsRefine ==
  ASSUME TypeOK, Approvals PROVE [Queue!Next]_CommittedAlerts
<1>1. ASSUME Idle, NEW i \in Identities, NEW found, NEW seen, NEW held,
             Score({i}, alerts, alerts, found, seen, held)
      PROVE  Queue!Next
  BY <1>1, WhileIdle, ScoreIsScored DEF Queue!Next, Queue!Score, TypeOK
<1>2. ASSUME NEW c \in Contexts, CreateContext(c) PROVE Queue!Next
  BY <1>1, <1>2, LifecycleAssumption DEF CreateContext
<1>3. ASSUME NEW c \in Contexts, NEW status \in {"active", "inactive"},
             UpdateContext(c, status)
      PROVE  Queue!Next
  BY <1>1, <1>3, LifecycleAssumption DEF UpdateContext
<1>4. ASSUME NEW c \in Contexts, RevokeContext(c) PROVE Queue!Next
  BY <1>1, <1>4, LifecycleAssumption DEF RevokeContext
<1>5. ASSUME NEW lapsed \in SUBSET Contexts, ExpireContexts(lapsed)
      PROVE  CommittedAlerts' = CommittedAlerts
  BY <1>5, WhileIdle DEF ExpireContexts
<1>6. ASSUME NEW approvals \in SUBSET Contexts,
             NEW history \in [Identities -> {{}, {"ordinary"}}],
             ResetEstate(approvals, history)
      PROVE  Queue!Next
  <2>1. NoAlerts \in Table /\ Queue!Empty = NoAlerts
    BY DEF NoAlerts, Table, Queue!Empty
  <2>2. Queue!Scored(NoAlerts, alerts')
    BY <1>6, <2>1, ScoreIsScored DEF ResetEstate
  <2>3. Queue!Scored(Queue!Empty, CommittedAlerts')
    BY <1>6, <2>1, <2>2, WhileIdle DEF ResetEstate
  <2> QED
    BY <2>3 DEF Queue!Next, Queue!Reset
<1> QED
  BY <1>2, <1>3, <1>4, <1>5, <1>6 DEF Approvals

(* A playbook reaches the queue when it ends: whole, as one response, or   *)
(* not at all.                                                             *)
LEMMA ResponseRefines ==
  ASSUME TypeOK, PlaybookResponds, Response PROVE [Queue!Next]_CommittedAlerts
<1>1. ASSUME NEW i \in Identities, NEW action \in ResponseAction, ExecuteAction(i, action)
      PROVE  Queue!Next
  BY <1>1, WhileIdle, ExecuteIsResponse DEF ExecuteAction, TypeOK, Queue!Next, Queue!Respond
<1>2. ASSUME NEW i \in Identities, NEW steps \in 1..MaxSteps, StartPlaybook(i, steps)
      PROVE  CommittedAlerts' = CommittedAlerts
  BY <1>2 DEF StartPlaybook, CommittedAlerts
<1>3. ASSUME NEW i \in Identities, NEW on \in BOOLEAN, SetActive(i, on)
      PROVE  CommittedAlerts' = CommittedAlerts
  BY <1>3, WhileIdle DEF SetActive
<1>4. ASSUME NextStep PROVE CommittedAlerts' = CommittedAlerts
  <2>1. playbook # NoPlaybook /\ playbook \in Run /\ playbook' # NoPlaybook
        /\ playbook'.saved = playbook.saved
    <3>1. playbook \in Run /\ playbook' = [playbook EXCEPT !.left = playbook.left - 1]
      BY <1>4 DEF NextStep, TypeOK
    <3>2. playbook.left - 1 \in 0..MaxSteps
      BY <1>4, <3>1, LifecycleAssumption DEF NextStep, Run
    <3>3. playbook' \in Run
      BY <3>1, <3>2 DEF Run
    <3> QED
      BY <1>4, <3>1, <3>3, LifecycleAssumption DEF NextStep, Run
  <2> QED
    BY <2>1 DEF CommittedAlerts
<1>5. CASE FinishPlaybook
  <2>1. playbook # NoPlaybook /\ playbook' = NoPlaybook /\ alerts' = alerts
    BY <1>5 DEF FinishPlaybook
  <2>2. Queue!Responded(CommittedAlerts, CommittedAlerts', playbook.identity)
    BY <2>1 DEF PlaybookResponds, CommittedAlerts
  <2>3. playbook.identity \in Identities
    BY <2>1 DEF TypeOK, Run
  <2> QED
    BY <2>2, <2>3 DEF Queue!Next, Queue!Respond
<1>6. CASE AbortPlaybook
  BY <1>6 DEF AbortPlaybook, CommittedAlerts
<1> QED
  BY <1>1, <1>2, <1>3, <1>4, <1>5, <1>6 DEF Response, PlaybookStep, SkipUnknownStep

(* For every number of identities, alerts and playbook steps the alerts    *)
(* are a triage queue: what the machine, analysts, responses and whole     *)
(* playbooks do to what is committed is what the queue allows them, and    *)
(* nothing of a playbook is seen before it ends.                           *)
THEOREM AlertsAreTriageQueue == Spec => IsTriageQueue
<1>1. Init => Queue!Init
  BY DEF Init, Queue!Init, Queue!Empty, CommittedAlerts, NoAlerts
<1>2. Init => PlaybookResponds
  BY DEF Init, PlaybookResponds
<1>3. Inv /\ PlaybookResponds /\ [Next]_vars => Inv' /\ PlaybookResponds'
  BY NextInv, PlaybookRespondsInv DEF Inv
<1>4. ASSUME Inv, PlaybookResponds, [Next]_vars PROVE [Queue!Next]_CommittedAlerts
  <2>1. CASE UNCHANGED vars
    BY <2>1 DEF vars, CommittedAlerts
  <2>2. ASSUME NEW i \in Identities, NEW kept \in SUBSET Evidence, LeaveWindow(i, kept)
        PROVE  CommittedAlerts' = CommittedAlerts
    BY <2>2, WhileIdle DEF LeaveWindow
  <2> QED
    BY <1>4, <2>1, <2>2, ScoringRefines, TriageRefines, ApprovalsRefine, ResponseRefines
       DEF Next, Inv
<1> QED
  BY <1>1, <1>2, <1>3, <1>4, InitInv, PTL DEF Spec, IsTriageQueue, Queue!Spec
=============================================================================
