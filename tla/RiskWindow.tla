---------------------------- MODULE RiskWindow ----------------------------
(***************************************************************************)
(* The risk stored for one identity while time passes: score_identity      *)
(* folds RiskAccumulator!Turn over the events of the last Window days,     *)
(* damped by what approval is still active, on ingestion, on changes of    *)
(* the approval and on every pass of the scheduler.  Events carry their    *)
(* age instead of a date, so that no clock is needed.                      *)
(***************************************************************************)
EXTENDS RiskAccumulator

CONSTANTS
  Kinds,      (* scores, tiers and tamper flags of the events that happen   *)
  Window,     (* CORRELATION_WINDOW_DAYS, in ticks of Tick                  *)
  HalfLife,   (* decay_halflife, in ticks                                   *)
  Factor,     (* what the approval leaves of a score, in percent            *)
  MaxEvents   (* bound on the events that happen                            *)

ASSUME WindowAssumption ==
  /\ Kinds \subseteq [score : Scores, tier : Tiers, tamper : BOOLEAN]
  /\ Window \in Nat /\ 0..Window \subseteq Gaps
  /\ HalfLife \in Nat \ {0}
  /\ Factor \in Factors
  /\ MaxEvents \in Nat

VARIABLES
  log,        (* the events in the window, oldest first: age, kind, covered *)
  approval,   (* the approval: its window, and is_active                    *)
  stored,     (* what the last scoring wrote to the identity                *)
  fresh,      (* has the identity been scored since anything changed?       *)
  events      (* how many events have happened                              *)

windowVars == <<log, approval, stored, fresh, events>>

Entry == [age : 0..Window, kind : Kinds, covered : BOOLEAN]

(* "lapsed" is past valid_until but still active.                          *)
Approval == {"none", "valid", "lapsed", "expired", "revoked"}

WindowInit ==
  /\ log = <<>>
  /\ approval = "none"
  /\ stored = Nothing
  /\ fresh = TRUE
  /\ events = 0
-----------------------------------------------------------------------------
(* Mutation: approvals are loaded whether or not they are active.          *)
Damping_Any(entry, held) == IF entry.covered THEN Factor ELSE NoApproval

(* _load_contexts and ContextView.covers: an active approval damps the     *)
(* events inside its window, also after the window has ended.              *)
Damping(entry, held) ==
  IF held \in {"valid", "lapsed"} /\ entry.covered THEN Factor ELSE NoApproval

(* The events of the loop: the first has nothing to decay from.            *)
Read(entries, held) ==
  [k \in 1..Len(entries) |->
     [gap |-> IF k = 1 THEN 0 ELSE entries[k - 1].age - entries[k].age,
      score |-> entries[k].kind.score, tier |-> entries[k].kind.tier,
      tamper |-> entries[k].kind.tamper, approval |-> Damping(entries[k], held)]]

(* Turn, naming a first so that TLC evaluates it once.                     *)
TurnOnce(a, e) == CHOOSE b \in {Turn(x, e) : x \in {a}} : TRUE

(* The accumulator after each of n events.                                 *)
Course(read, n) ==
  LET after[k \in 0..n] == IF k = 0 THEN Nothing ELSE TurnOnce(after[k - 1], read[k])
  IN  after

(* score_identity on these events and this approval.                       *)
Scored(entries, held) == Course(Read(entries, held), Len(entries))[Len(entries)]

Score(entries, held) ==
  /\ stored' = Scored(entries, held)
  /\ fresh' = TRUE

(* ingest, with or without recompute.                                      *)
Ingest(kind, recompute) ==
  LET entries == Append(log, [age |-> 0, kind |-> kind, covered |-> approval = "valid"])
  IN  /\ events < MaxEvents /\ events' = events + 1
      /\ log' = entries
      /\ UNCHANGED approval
      /\ IF recompute THEN Score(entries, approval)
                      ELSE fresh' = FALSE /\ UNCHANGED stored

(* A pass of the scheduler.                                                *)
Pass ==
  /\ UNCHANGED <<log, approval, events>>
  /\ Score(log, approval)

Aged(entry) == [entry EXCEPT !.age = @ + 1]

(* Mutation: the window of the query is forgotten.                         *)
Tick_KeepsAll ==
  /\ log' = [k \in 1..Len(log) |->
               IF log[k].age < Window THEN Aged(log[k]) ELSE log[k]]
  /\ fresh' = FALSE
  /\ UNCHANGED <<approval, stored, events>>

(* How many events leave the window: the oldest, which come first.         *)
Leaving == CHOOSE n \in 0..Len(log) :
             \A k \in 1..Len(log) : k <= n <=> log[k].age = Window

(* Time passes; the query of _load_events forgets the oldest events.       *)
Tick ==
  /\ log' = [k \in 1..Len(log) - Leaving |-> Aged(log[Leaving + k])]
  /\ fresh' = FALSE
  /\ UNCHANGED <<approval, stored, events>>

(* create_context: valid_from may lie before events that have happened.    *)
Approve(reach) ==
  LET entries == [k \in 1..Len(log) |->
                    [log[k] EXCEPT !.covered = log[k].age < reach]]
  IN  /\ approval = "none" /\ approval' = "valid"
      /\ log' = entries
      /\ UNCHANGED events
      /\ Score(entries, "valid")

(* valid_until passes.                                                     *)
Lapse ==
  /\ approval = "valid" /\ approval' = "lapsed"
  /\ fresh' = FALSE
  /\ UNCHANGED <<log, stored, events>>

(* _maintenance clears is_active and scores nobody.                        *)
Expire ==
  /\ approval = "lapsed" /\ approval' = "expired"
  /\ fresh' = FALSE
  /\ UNCHANGED <<log, stored, events>>

Revoke ==
  /\ approval \in {"valid", "lapsed"} /\ approval' = "revoked"
  /\ UNCHANGED <<log, events>>
  /\ Score(log, "revoked")

WindowNext ==
  \/ \E kind \in Kinds, recompute \in BOOLEAN : Ingest(kind, recompute)
  \/ \E reach \in 0..Window + 1 : Approve(reach)
  \/ Pass \/ Tick \/ Lapse \/ Expire \/ Revoke

(* Time passes, and the scheduler keeps scoring active identities.         *)
WindowSpec == WindowInit /\ [][WindowNext]_windowVars /\ WF_windowVars(Tick) /\ WF_windowVars(Pass)
-----------------------------------------------------------------------------
(* Every variable has its type, and the log holds the events by their age. *)
WindowTypeOK ==
  /\ log \in Seq(Entry) /\ Len(log) <= events
  /\ \A k \in 1..Len(log) - 1 : log[k].age >= log[k + 1].age
  /\ approval \in Approval
  /\ stored \in Accumulator
  /\ fresh \in BOOLEAN
  /\ events \in 0..MaxEvents

(* An approval that is no longer active protects nothing once the identity *)
(* has been scored: not even the events it covered when they happened.     *)
InactiveProtectsNothing ==
  fresh /\ approval \in {"expired", "revoked"} => stored.risk = stored.rawRisk

(* What is stored is a result that the alert modules allow for the events  *)
(* still in the window: damped only by an approval that is active, and     *)
(* when it covers an event that does not destroy evidence.                 *)
Desk == INSTANCE AlertTable WITH
  Identities <- {}, AlertIds <- {}, NoAlert <- NoApproval, Risks <- Risk,
  EarlyDrift <- 28, SuppressBelow <- 30

KindsInWindow ==
  {IF log[k].kind.tamper THEN "tamper" ELSE "ordinary" : k \in 1..Len(log)}

StoredAsPromised ==
  fresh => [risk |-> stored.risk, tamper |-> stored.tamper, damped |-> stored.damped]
             \in Desk!Correlate(KindsInWindow, approval \in {"valid", "lapsed"})

(* docs/DETECTION.md:158-159: an account that had a strange week is not    *)
(* permanently suspicious.  When events stop, risk returns to the floor.   *)
NotSuspiciousForever == <>[](stored.risk = RiskFloor)
-----------------------------------------------------------------------------
(* docs/DETECTION.md:158: "Risk halves every 48 hours of quiet."  What was *)
(* reached at the last event has halved one half-life later.               *)
RiskHalvesInQuiet ==
  fresh /\ log # <<>> /\ log[Len(log)].age >= HalfLife =>
    stored.risk <= Larger(RiskFloor, Scored(log, approval).risk \div 2)
=============================================================================
