---------------------------- MODULE AlertTable ----------------------------
(***************************************************************************)
(* The alerts table and what DetectionService.reconcile_alert and          *)
(* ResponseService._close_open_alerts do to it, as operators on tables.    *)
(* A table maps every alert id to an alert or to NoAlert; ids grow with    *)
(* created_at, so the newest alert is the one with the largest id.         *)
(*                                                                         *)
(* The session of the code runs with autoflush off: a query filters on     *)
(* what has been flushed (the argument "view") and returns objects that    *)
(* keep the values assigned since (the argument "mem").                    *)
(***************************************************************************)
EXTENDS Integers

CONSTANTS
  Identities,     (* monitored accounts                                     *)
  AlertIds,       (* ids the table may use: the bound on alerts             *)
  NoAlert,        (* marks an id that is not in the table                   *)
  Risks,          (* cumulative risk scores the engine may return           *)
  RiskFloor,      (* the score of an identity without events                *)
  EarlyDrift,     (* config.threshold_early_drift                           *)
  SuppressBelow   (* the constant 30 of reconcile_alert                     *)

Status == {"OPEN", "TRIAGED", "INVESTIGATING", "SUPPRESSED",
           "FALSE_POSITIVE", "CONFIRMED_INCIDENT", "CLOSED"}

(* The statuses the reconcile query excludes.                              *)
Terminal == {"CLOSED", "FALSE_POSITIVE", "CONFIRMED_INCIDENT"}

(* OPEN_STATUSES of the triage queue.                                      *)
OpenStatuses == {"OPEN", "TRIAGED", "INVESTIGATING"}

(* resolved stands for "resolved_at is set"; tamper for                    *)
(* anti_tamper_override.                                                   *)
Alert == [identity : Identities, status : Status,
          tamper : BOOLEAN, resolved : BOOLEAN]

Table == [AlertIds -> Alert \cup {NoAlert}]

ASSUME TableAssumption ==
  /\ AlertIds \subseteq Nat
  /\ NoAlert \notin Alert
  /\ Risks \subseteq Nat
  /\ RiskFloor \in Risks
  /\ EarlyDrift \in Nat
  /\ SuppressBelow \in Nat
  /\ RiskFloor < EarlyDrift
-----------------------------------------------------------------------------
(* A CorrelationResult, as far as alerts depend on it.                     *)
Result == [risk : Risks, tamper : BOOLEAN, damped : BOOLEAN]

(* What correlate may return for this evidence (the kinds of events inside *)
(* the correlation window): without events the floor; tamper exactly when  *)
(* an event destroys evidence; damping only of other events, and only when *)
(* the scoring pass saw an approval.                                       *)
Correlate(evidence, approved) ==
  {r \in Result : /\ r.tamper <=> "tamper" \in evidence
                  /\ r.damped => approved /\ "ordinary" \in evidence
                  /\ evidence = {} => r.risk = RiskFloor}

(* Mutation: the anti-tamper override is forgotten.                        *)
ShouldAlert_RiskOnly(r) == r.risk >= EarlyDrift

ShouldAlert(r) == r.risk >= EarlyDrift \/ r.tamper

Suppresses(r) == r.damped /\ r.risk < SuppressBelow
-----------------------------------------------------------------------------
Present(t) == {a \in AlertIds : t[a] # NoAlert}

AlertsOf(t, i) == {a \in Present(t) : t[a].identity = i}

(* Mutations: the query keeps only what nobody works on, or everything.    *)
Unresolved_Untouched(t, i) == {a \in AlertsOf(t, i) : t[a].status \in {"OPEN", "TRIAGED"}}

Unresolved_All(t, i) == AlertsOf(t, i)

Unresolved(t, i) == {a \in AlertsOf(t, i) : t[a].status \notin Terminal}

(* The row of "order_by(created_at.desc()).limit(1)".                      *)
IsExisting(t, i, a) ==
  a \in Unresolved(t, i) /\ \A b \in Unresolved(t, i) : b <= a

NewAlert(i, r) ==
  [identity |-> i, status |-> IF Suppresses(r) THEN "SUPPRESSED" ELSE "OPEN",
   tamper |-> r.tamper, resolved |-> FALSE]

(* Mutation: a decayed alert is closed under investigation too.            *)
Refresh_ClosesAll(al, r) ==
  IF ShouldAlert(r)
  THEN [al EXCEPT !.tamper = r.tamper,
                  !.status = IF Suppresses(r) THEN "SUPPRESSED" ELSE @]
  ELSE [al EXCEPT !.status = "CLOSED", !.resolved = TRUE]

(* Mutation: an alert that still drifts is put back in the queue.          *)
Refresh_Reopens(al, r) ==
  IF ShouldAlert(r)
  THEN [al EXCEPT !.tamper = r.tamper,
                  !.status = IF Suppresses(r) THEN "SUPPRESSED" ELSE "OPEN"]
  ELSE IF al.status \in {"OPEN", "TRIAGED"}
  THEN [al EXCEPT !.status = "CLOSED", !.resolved = TRUE]
  ELSE al

(* The existing alert after a scoring pass with result r.                  *)
Refresh(al, r) ==
  IF ShouldAlert(r)
  THEN [al EXCEPT !.tamper = r.tamper,
                  !.status = IF Suppresses(r) THEN "SUPPRESSED" ELSE @]
  ELSE IF al.status \in {"OPEN", "TRIAGED"}
  THEN [al EXCEPT !.status = "CLOSED", !.resolved = TRUE]
  ELSE al

(* The identities a pass raises an alert for: res maps every identity      *)
(* scored to its result.                                                   *)
Raised(view, res) ==
  {i \in DOMAIN res : Unresolved(view, i) = {} /\ ShouldAlert(res[i])}

(* The ways of giving the new alerts the next ids.                         *)
NextIds(t, raised) ==
  {f \in [raised -> AlertIds] :
     /\ \A i, j \in raised : f[i] = f[j] => i = j
     /\ \A i \in raised : \A a \in Present(t) : a < f[i]
     /\ \A i \in raised : \A a \in AlertIds :
          a < f[i] => a \in Present(t) \/ \E j \in raised : f[j] = a}

(* reconcile_alert for every identity scored by one pass.                  *)
Reconcile(view, mem, res, ids) ==
  [a \in AlertIds |->
     IF mem[a] = NoAlert
     THEN IF \E i \in DOMAIN ids : ids[i] = a
          THEN LET i == CHOOSE i \in DOMAIN ids : ids[i] = a
               IN  NewAlert(i, res[i])
          ELSE NoAlert
     ELSE LET i == mem[a].identity
          IN  IF i \in DOMAIN res /\ IsExisting(view, i, a)
              THEN Refresh(mem[a], res[i])
              ELSE mem[a]]

(* Mutation: the filter on open alerts is forgotten.                       *)
CloseOpenAlerts_All(view, mem, i) ==
  [a \in AlertIds |->
     IF a \in AlertsOf(view, i)
     THEN [mem[a] EXCEPT !.status = "CONFIRMED_INCIDENT", !.resolved = TRUE]
     ELSE mem[a]]

(* _close_open_alerts: the alerts open in view become confirmed in mem.    *)
CloseOpenAlerts(view, mem, i) ==
  [a \in AlertIds |->
     IF a \in AlertsOf(view, i) /\ view[a].status \in OpenStatuses
     THEN [mem[a] EXCEPT !.status = "CONFIRMED_INCIDENT", !.resolved = TRUE]
     ELSE mem[a]]
-----------------------------------------------------------------------------
(* What makes a table right.                                               *)

Stamped(t) ==
  \A a \in Present(t) : t[a].status \in Terminal => t[a].resolved

SingleStory(t) ==
  \A i \in Identities : \A a, b \in AlertsOf(t, i) :
    ~t[a].resolved /\ ~t[b].resolved => a = b
=============================================================================
