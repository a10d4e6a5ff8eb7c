-------------------------- MODULE AlertLifecycle --------------------------
(***************************************************************************)
(* The life of alerts when transactions do not overlap: every request and  *)
(* every scoring pass is one step that commits, except a playbook, whose   *)
(* transaction is followed step by step because it flushes between its     *)
(* actions and may be rolled back after some of them.  AlertSessions       *)
(* studies what overlapping transactions add.                              *)
(***************************************************************************)
EXTENDS AlertTable

CONSTANTS
  Contexts,      (* ids of context records (approvals)                      *)
  ContextOf,     (* the identity each context record is about               *)
  MaxSteps,      (* bound on the number of steps of a playbook              *)
  NoPlaybook     (* no playbook is running                                  *)

Evidence == {"ordinary", "tamper"}

ContextStatus == {"absent", "active", "inactive"}

(* REVOKE_TOKENS stands for the three enforcing actions that leave         *)
(* is_active alone (is_quarantined is written and never read), ADVISORY    *)
(* for the actions that only record what was asked for.                    *)
EnforcingActions == {"DISABLE_ACCOUNT", "REVOKE_TOKENS"}

ResponseAction == EnforcingActions \cup {"ADD_CONTEXT_EXEMPTION", "ADVISORY"}

VARIABLES
  alerts,        (* the alerts table                                        *)
  evidence,      (* kinds of events in each identity's correlation window   *)
  contexts,      (* status of every context record                          *)
  active,        (* identity.is_active                                      *)
  playbook       (* the running playbook and what its rollback restores     *)

vars == <<alerts, evidence, contexts, active, playbook>>

Committed == [alerts : Table, contexts : [Contexts -> ContextStatus],
              active : [Identities -> BOOLEAN]]

Run == [identity : Identities, left : 0..MaxSteps, saved : Committed]

ASSUME LifecycleAssumption ==
  /\ ContextOf \in [Contexts -> Identities]
  /\ MaxSteps \in Nat \ {0}
  /\ NoPlaybook \notin Run

NoAlerts == [a \in AlertIds |-> NoAlert]

Init ==
  /\ alerts = NoAlerts
  /\ evidence = [i \in Identities |-> {}]
  /\ contexts = [c \in Contexts |-> "absent"]
  /\ active = [i \in Identities |-> TRUE]
  /\ playbook = NoPlaybook

Idle == playbook = NoPlaybook /\ UNCHANGED playbook
-----------------------------------------------------------------------------
(* Mutation: only the rows are looked at, not the objects.                 *)
Approved_RowsOnly(seen, held, i) ==
  \E c \in Contexts : ContextOf[c] = i /\ seen[c] = "active"

(* An approval damps when its row is active in the database (_load_contexts) *)
(* and the object the session holds for it still is (covers).              *)
Approved(seen, held, i) ==
  \E c \in Contexts : ContextOf[c] = i /\ seen[c] = "active" /\ held[c] = "active"

(* score_identity for every identity of I, in one transaction: view is the *)
(* flushed alerts table, mem the table with the assignments not flushed    *)
(* yet, found the events, seen the flushed context records and held the    *)
(* objects for them.                                                       *)
Score(I, view, mem, found, seen, held) ==
  \E res \in [I -> Result] :
    /\ \A i \in I : res[i] \in Correlate(found[i], Approved(seen, held, i))
    /\ \E ids \in NextIds(mem, Raised(view, res)) :
         alerts' = Reconcile(view, mem, res, ids)

(* The scheduler's pass and POST /rescore-all.                             *)
ScoreFleet ==
  /\ Idle
  /\ Score({i \in Identities : active[i]}, alerts, alerts, evidence, contexts, contexts)
  /\ UNCHANGED <<evidence, contexts, active>>

(* POST /identities/{id}/rescore and /baseline/rebuild.                    *)
Rescore(i) ==
  /\ Idle
  /\ Score({i}, alerts, alerts, evidence, contexts, contexts)
  /\ UNCHANGED <<evidence, contexts, active>>

(* A batch: new maps every identity it concerns to the kinds of events.    *)
Ingest(new, recompute) ==
  /\ Idle
  /\ evidence' = [i \in Identities |->
                    evidence[i] \cup (IF i \in DOMAIN new THEN new[i] ELSE {})]
  /\ IF recompute THEN Score(DOMAIN new, alerts, alerts, evidence', contexts, contexts)
                  ELSE UNCHANGED alerts
  /\ UNCHANGED <<contexts, active>>

(* Time passes: events leave the correlation window.                       *)
LeaveWindow(i, kept) ==
  /\ Idle
  /\ kept # evidence[i]
  /\ evidence' = [evidence EXCEPT ![i] = kept]
  /\ UNCHANGED <<alerts, contexts, active>>
-----------------------------------------------------------------------------
(* PATCH /alerts/{id} with a status: no transition is refused.             *)
UpdateAlert(a, status) ==
  /\ Idle
  /\ a \in Present(alerts)
  /\ alerts' = [alerts EXCEPT ![a].status = status,
                              ![a].resolved = @ \/ status \in Terminal]
  /\ UNCHANGED <<evidence, contexts, active>>

AssignToMe(a) ==
  /\ Idle
  /\ a \in Present(alerts)
  /\ alerts' = [alerts EXCEPT ![a].status = IF @ = "OPEN" THEN "TRIAGED" ELSE @]
  /\ UNCHANGED <<evidence, contexts, active>>

MarkFalsePositive(a) ==
  /\ Idle
  /\ a \in Present(alerts)
  /\ alerts' = [alerts EXCEPT ![a].status = "FALSE_POSITIVE", ![a].resolved = TRUE]
  /\ UNCHANGED <<evidence, contexts, active>>

(* create_case links alerts whatever their status; the impact snapshot     *)
(* scores without persisting.                                              *)
CreateCase(linked) ==
  /\ Idle
  /\ linked \subseteq Present(alerts)
  /\ alerts' = [a \in AlertIds |->
                  IF a \in linked
                  THEN [alerts[a] EXCEPT !.status = "INVESTIGATING"]
                  ELSE alerts[a]]
  /\ UNCHANGED <<evidence, contexts, active>>
-----------------------------------------------------------------------------
(* POST /contexts flushes the record, so the re-score sees it.             *)
CreateContext(c) ==
  /\ Idle
  /\ contexts[c] = "absent"
  /\ contexts' = [contexts EXCEPT ![c] = "active"]
  /\ Score({ContextOf[c]}, alerts, alerts, evidence, contexts', contexts')
  /\ UNCHANGED <<evidence, active>>

(* PATCH /contexts/{id} is not flushed before the re-score: a deactivation *)
(* is seen through the object, a reactivation not at all.                  *)
UpdateContext(c, status) ==
  /\ Idle
  /\ contexts[c] # "absent"
  /\ contexts' = [contexts EXCEPT ![c] = status]
  /\ Score({ContextOf[c]}, alerts, alerts, evidence, contexts, contexts')
  /\ UNCHANGED <<evidence, active>>

RevokeContext(c) ==
  /\ Idle
  /\ contexts[c] # "absent"
  /\ contexts' = [contexts EXCEPT ![c] = "inactive"]
  /\ Score({ContextOf[c]}, alerts, alerts, evidence, contexts, contexts')
  /\ UNCHANGED <<evidence, active>>

(* The hourly maintenance deactivates the contexts whose window has ended. *)
ExpireContexts(lapsed) ==
  /\ Idle
  /\ \A c \in lapsed : contexts[c] = "active"
  /\ contexts' = [c \in Contexts |-> IF c \in lapsed THEN "inactive" ELSE contexts[c]]
  /\ UNCHANGED <<alerts, evidence, active>>

(* DELETE /identities/{id}, and PATCH with is_active.                      *)
SetActive(i, on) ==
  /\ Idle
  /\ active' = [active EXCEPT ![i] = on]
  /\ UNCHANGED <<alerts, evidence, contexts>>

(* seed_all on an empty database, or POST /simulator/reset, which empties  *)
(* it first: seeded approvals, an ordinary history, one pass over it.      *)
ResetEstate(approvals, history) ==
  /\ Idle
  /\ contexts' = [c \in Contexts |-> IF c \in approvals THEN "active" ELSE "absent"]
  /\ evidence' = [i \in Identities |-> history[i]]
  /\ active' = [i \in Identities |-> TRUE]
  /\ Score(Identities, NoAlerts, NoAlerts, evidence', contexts', contexts')
-----------------------------------------------------------------------------
(* ResponseService.execute: the account, then its open alerts, then *)
(* the re-score, whose reconcile still finds them by their old status.     *)
Execute(i, action) ==
  /\ active' = IF action = "DISABLE_ACCOUNT"
               THEN [active EXCEPT ![i] = FALSE] ELSE active
  /\ IF action = "ADD_CONTEXT_EXEMPTION"
     THEN \E c \in Contexts : /\ ContextOf[c] = i
                              /\ contexts[c] = "absent"
                              /\ contexts' = [contexts EXCEPT ![c] = "active"]
     ELSE UNCHANGED contexts
  /\ Score({i}, alerts, IF action \in EnforcingActions
                        THEN CloseOpenAlerts(alerts, alerts, i) ELSE alerts,
           evidence, contexts, contexts)
  /\ UNCHANGED evidence

ExecuteAction(i, action) == Idle /\ Execute(i, action)

(* run_playbook: one transaction over several actions.                     *)
StartPlaybook(i, steps) ==
  /\ playbook = NoPlaybook
  /\ playbook' = [identity |-> i, left |-> steps,
                  saved |-> [alerts |-> alerts, contexts |-> contexts,
                             active |-> active]]
  /\ UNCHANGED <<alerts, evidence, contexts, active>>

NextStep ==
  /\ playbook # NoPlaybook
  /\ playbook.left > 0
  /\ playbook' = [playbook EXCEPT !.left = @ - 1]

PlaybookStep(action) == NextStep /\ Execute(playbook.identity, action)

SkipUnknownStep ==
  /\ NextStep
  /\ UNCHANGED <<alerts, evidence, contexts, active>>

FinishPlaybook ==
  /\ playbook # NoPlaybook
  /\ playbook.left = 0
  /\ playbook' = NoPlaybook
  /\ UNCHANGED <<alerts, evidence, contexts, active>>

(* An exception in a step: get_db rolls the whole transaction back.        *)
AbortPlaybook ==
  /\ playbook # NoPlaybook
  /\ playbook' = NoPlaybook
  /\ alerts' = playbook.saved.alerts
  /\ contexts' = playbook.saved.contexts
  /\ active' = playbook.saved.active
  /\ UNCHANGED evidence
-----------------------------------------------------------------------------
Scoring ==
  \/ ScoreFleet
  \/ \E i \in Identities : Rescore(i)
  \/ \E I \in (SUBSET Identities) \ {{}} :
       \E new \in [I -> (SUBSET Evidence) \ {{}}], recompute \in BOOLEAN :
         Ingest(new, recompute)

Triage ==
  \/ \E a \in AlertIds :
       \/ \E status \in Status : UpdateAlert(a, status)
       \/ AssignToMe(a)
       \/ MarkFalsePositive(a)
  \/ \E linked \in (SUBSET AlertIds) \ {{}} : CreateCase(linked)

Approvals ==
  \/ \E c \in Contexts :
       \/ CreateContext(c)
       \/ \E status \in {"active", "inactive"} : UpdateContext(c, status)
       \/ RevokeContext(c)
  \/ \E lapsed \in (SUBSET Contexts) \ {{}} : ExpireContexts(lapsed)
  \/ \E approvals \in SUBSET Contexts, history \in [Identities -> {{}, {"ordinary"}}] :
       ResetEstate(approvals, history)

Response ==
  \/ \E i \in Identities :
       \/ \E action \in ResponseAction : ExecuteAction(i, action)
       \/ \E steps \in 1..MaxSteps : StartPlaybook(i, steps)
       \/ \E on \in BOOLEAN : SetActive(i, on)
  \/ \E action \in ResponseAction : PlaybookStep(action)
  \/ SkipUnknownStep
  \/ FinishPlaybook
  \/ AbortPlaybook

Next ==
  \/ Scoring
  \/ \E i \in Identities, kept \in SUBSET Evidence :
       kept \subseteq evidence[i] /\ LeaveWindow(i, kept)
  \/ Triage
  \/ Approvals
  \/ Response

Spec == Init /\ [][Next]_vars
-----------------------------------------------------------------------------
(* Every variable has its type.                                            *)
TypeOK ==
  /\ alerts \in Table
  /\ evidence \in [Identities -> SUBSET Evidence]
  /\ contexts \in [Contexts -> ContextStatus]
  /\ active \in [Identities -> BOOLEAN]
  /\ playbook \in Run \cup {NoPlaybook}

(* An alert with a terminal status carries resolved_at, whichever of the   *)
(* five paths (patch, false positive, containment, auto-close, rollback of *)
(* a playbook) gave it that status: "reviewed" is counted by that stamp.   *)
ResolvedStamp == Stamped(alerts)

(* At most one alert of an identity has never been resolved: scoring       *)
(* extends the story it finds and never opens a second one.  (An alert     *)
(* somebody reopens by hand may stand beside it.)                          *)
OneStory == SingleStory(alerts)

(* What a rollback would restore satisfies both as well.                   *)
RollbackKeepsStory ==
  playbook # NoPlaybook =>
    /\ Stamped(playbook.saved.alerts)
    /\ SingleStory(playbook.saved.alerts)

(* The alerts of this step that are still there after it.                  *)
Kept == {a \in Present(alerts) : alerts'[a] # NoAlert}

(* Scoring and ingestion never overturn a verdict and never take an alert  *)
(* somebody is investigating out of investigation, except by suppressing   *)
(* it; they close only an untouched alert without tampering evidence.      *)
MachineStepsOnly(a) ==
  LET from == alerts[a].status
      to == alerts'[a].status
  IN  \/ to = from
      \/ to = "SUPPRESSED" /\ from \notin Terminal
      \/ /\ to = "CLOSED"
         /\ from \in {"OPEN", "TRIAGED"}
         /\ "tamper" \notin evidence'[alerts[a].identity]

VerdictsStand ==
  [][\A a \in Kept : MachineStepsOnly(a) \/ ~Scoring]_vars

(* After an enforcing action no alert that was open is open: each one is   *)
(* confirmed or, when damping took the re-score below 30, suppressed.      *)
Enforcing(i) ==
  \/ \E action \in EnforcingActions : ExecuteAction(i, action)
  \/ \E action \in EnforcingActions :
       playbook # NoPlaybook /\ playbook.identity = i /\ PlaybookStep(action)

ContainmentEmptiesQueue ==
  [][\A a \in Kept :
       /\ alerts[a].status \in OpenStatuses
       /\ alerts'[a].status \notin {"CONFIRMED_INCIDENT", "SUPPRESSED"}
       => ~Enforcing(alerts[a].identity)]_vars

(* Nothing but a patch by hand suppresses an alert of an identity that has *)
(* no approval in force after the step: revoking, deactivating or expiring *)
(* the last approval ends its damping at once.                             *)
SuppressionNeedsApproval ==
  [][\A a \in AlertIds :
       /\ alerts'[a] # NoAlert
       /\ alerts'[a].status = "SUPPRESSED"
       /\ alerts[a] = NoAlert \/ alerts[a].status # "SUPPRESSED"
       => \/ UpdateAlert(a, "SUPPRESSED")
          \/ Approved(contexts', contexts', alerts'[a].identity)]_vars

(* While evidence of tampering is in the window, every pass over the fleet *)
(* leaves an active identity with an unresolved alert, even right after a  *)
(* verdict on the previous one.                                            *)
TamperingResurfaces ==
  [][\A i \in Identities :
       /\ active[i]
       /\ "tamper" \in evidence[i]
       /\ Unresolved(alerts', i) = {}
       => ~ScoreFleet]_vars

(* To those who work on it the table is a triage queue that changes by     *)
(* whole transactions: what a playbook did becomes visible when it ends,   *)
(* together or not at all.                                                 *)
CommittedAlerts == IF playbook = NoPlaybook THEN alerts ELSE playbook.saved.alerts

Queue == INSTANCE TriageQueue WITH table <- CommittedAlerts

IsTriageQueue == Queue!Spec
-----------------------------------------------------------------------------
(* What documents and comments say and the code does not do.               *)

(* endpoints/response.py:25: enforcing actions "also close the identity's  *)
(* open alerts as confirmed incidents".                                    *)
ContainmentConfirms ==
  [][\A a \in Kept :
       /\ alerts[a].status \in OpenStatuses
       /\ alerts'[a].status # "CONFIRMED_INCIDENT"
       => ~Enforcing(alerts[a].identity)]_vars

(* main.py:51: "Evidence-destroying actions can never be suppressed, by    *)
(* any approval."                                                          *)
TamperingNeverSuppressed ==
  [][\A a \in AlertIds :
       /\ alerts'[a] # NoAlert
       /\ alerts'[a].tamper
       /\ alerts'[a].status = "SUPPRESSED"
       => \/ alerts[a] # NoAlert /\ alerts[a].status = "SUPPRESSED"
          \/ UpdateAlert(a, "SUPPRESSED")]_vars
=============================================================================
