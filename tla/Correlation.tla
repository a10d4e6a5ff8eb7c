---------------------------- MODULE Correlation ----------------------------
(***************************************************************************)
(* SequenceEngine.correlate as a state machine: the accumulator after each *)
(* event of the window, in the order of the events.  seen and offered      *)
(* record what the result is to be judged by: the kinds of the events so   *)
(* far, and whether any of them matched an approval.                       *)
(***************************************************************************)
EXTENDS RiskAccumulator

VARIABLES acc, seen, offered

vars == <<acc, seen, offered>>

Init ==
  /\ acc = Nothing
  /\ seen = {}
  /\ offered = FALSE

(* One turn of the loop.                                                   *)
Process(e) ==
  /\ acc' = Turn(acc, e)
  /\ seen' = seen \cup {IF e.tamper THEN "tamper" ELSE "ordinary"}
  /\ offered' = (offered \/ e.approval # NoApproval)

Next == \E e \in Event : Process(e)

Spec == Init /\ [][Next]_vars
-----------------------------------------------------------------------------
(* Risk stays between the floor and 100, whatever the events add.          *)
TypeOK ==
  /\ acc \in Accumulator
  /\ Len(acc.streak) <= StreakCap
  /\ seen \subseteq {"ordinary", "tamper"}
  /\ offered \in BOOLEAN

(* An approval only ever lowers risk: after any events the damped risk is  *)
(* at most the raw risk, although damping has a floor of its own, both     *)
(* share one amplifier and benign events bleed each by its own share.      *)
DampedBelowRaw == acc.risk <= acc.rawRisk

(* Damped and raw risk differ only when damping was applied and reported:  *)
(* an approval can do nothing about tampering without leaving a trace.     *)
UndampedAgree == ~acc.damped => acc.risk = acc.rawRisk

(* What the alert modules assume of correlate (AlertTable!Correlate) is    *)
(* what the engine returns after any events.                               *)
Alerts == INSTANCE AlertTable WITH
  Identities <- {}, AlertIds <- {}, NoAlert <- NoApproval, Risks <- Risk,
  EarlyDrift <- 28, SuppressBelow <- 30

PromiseKept ==
  [risk |-> acc.risk, tamper |-> acc.tamper, damped |-> acc.damped]
    \in Alerts!Correlate(seen, offered)

(* docs/DETECTION.md:164: "Benign events actively reduce risk."  The event *)
(* that ends a streak, or comes without one, never raises the risk.        *)
BenignNeverRaises ==
  [][acc'.streak = <<>> => acc'.risk <= acc.risk /\ acc'.rawRisk <= acc.rawRisk]_vars
=============================================================================
