-------------------------- MODULE RiskAccumulator --------------------------
(***************************************************************************)
(* One turn of the loop of SequenceEngine.correlate, as an operator on     *)
(* accumulators.  Risk and scores are whole points; the exponentials of    *)
(* the code (decay over a gap, gain of an anomaly) are constant functions, *)
(* the rest of the arithmetic is the code's, rounded down.                 *)
(***************************************************************************)
EXTENDS Integers, Sequences

CONSTANTS
  Scores,           (* scores an event may have before damping              *)
  Tiers,            (* sensitivity levels                                   *)
  Gaps,             (* distances in time between two events                 *)
  Factors,          (* damping factors, in percent                          *)
  NoApproval,       (* the event matches no approval                        *)
  NormalThreshold,  (* config.normal_threshold                              *)
  Decay,            (* Decay[g][x]: what is left of risk x after g          *)
  Gain              (* Gain[s]: points an anomaly of score s adds           *)

RiskFloor == 5

Risk == RiskFloor..100

(* An event as the loop sees it: gap since the previous event, score after *)
(* fusion and rule boosts, the factor of the approval it matches.          *)
Event == [gap : Gaps, score : Scores, tier : Tiers,
          approval : Factors \cup {NoApproval}, tamper : BOOLEAN]

(* The API accepts thresholds from 5 to 80; clamping leaves factors from   *)
(* 10 to 95; decay and gain are monotone.                                  *)
ASSUME AccumulatorAssumption ==
  /\ Scores \subseteq 0..100
  /\ Tiers \subseteq Nat
  /\ Factors \subseteq 10..95
  /\ NoApproval \notin Factors
  /\ NormalThreshold \in 5..80
  /\ Decay \in [Gaps -> [Risk -> Risk]]
  /\ \A g \in Gaps : \A x, y \in Risk :
       Decay[g][x] <= x /\ (x <= y => Decay[g][x] <= Decay[g][y])
  /\ Gain \in [0..100 -> Nat]
  /\ \A s, t \in 0..100 : s <= t => Gain[s] <= Gain[t]
-----------------------------------------------------------------------------
Larger(a, b) == IF a >= b THEN a ELSE b
Smaller(a, b) == IF a <= b THEN a ELSE b

DampingFloor == 4

(* Mutation: every event that matches an approval counts as damped.        *)
Damps_Matched(e) == e.approval # NoApproval

Damps(e) == ~e.tamper /\ e.approval # NoApproval

(* Mutation: the approval is looked up before the action.                  *)
DampedScore_Always(e) ==
  IF e.approval # NoApproval
  THEN Larger(DampingFloor, (e.score * e.approval) \div 100) ELSE e.score

(* ContextEngine.evaluate: tampering is never damped, nothing is silenced. *)
DampedScore(e) ==
  IF Damps(e) THEN Larger(DampingFloor, (e.score * e.approval) \div 100) ELSE e.score

Anomalous(e) == e.score > NormalThreshold

(* The tiers of the current streak; beyond six anomalies neither its       *)
(* length nor older tiers matter.                                          *)
StreakCap == 6
LastOf(s, n) == SubSeq(s, Larger(1, Len(s) - n + 1), Len(s))

Streak(streak, e) ==
  IF Anomalous(e) THEN LastOf(Append(streak, e.tier), StreakCap) ELSE <<>>

Escalates(tail) ==
  /\ Len(tail) >= 3
  /\ \A k \in 1..Len(tail) - 1 : tail[k] <= tail[k + 1]
  /\ tail[1] < tail[Len(tail)]

(* _streak_amplifier, in percent.                                          *)
Amplifier(streak) ==
  IF Len(streak) <= 1 THEN 100
  ELSE 100 + Smaller(110, 22 * (Len(streak) - 1))
           + (IF Escalates(LastOf(streak, 4)) THEN 35 ELSE 0)

(* Mutation: a benign event adds instead of bleeding.                      *)
Bleed_Wrong(risk) == Larger(RiskFloor, Smaller(100, (risk * 103) \div 100))

Bleed(risk) == Larger(RiskFloor, (risk * 97) \div 100)

(* Mutation: the ceiling of 100 is forgotten.                              *)
Accumulate_Unbounded(risk, score, amplifier) ==
  IF score <= NormalThreshold THEN Bleed(risk)
  ELSE risk + (Gain[score] * amplifier) \div 100

Accumulate(risk, score, amplifier) ==
  IF score <= NormalThreshold THEN Bleed(risk)
  ELSE Smaller(100, risk + (Gain[score] * amplifier) \div 100)

SeverityFloor(score) ==
  CASE score >= 92 -> 76
    [] score >= 80 -> 56
    [] score >= 68 -> 34
    [] OTHER -> 0

After(risk, gap, score, amplifier) ==
  Larger(Accumulate(Decay[gap][risk], score, amplifier), SeverityFloor(score))
-----------------------------------------------------------------------------
Accumulator == [risk : Risk, rawRisk : Risk, streak : Seq(Tiers),
                damped : BOOLEAN, tamper : BOOLEAN]

Nothing == [risk |-> RiskFloor, rawRisk |-> RiskFloor, streak |-> <<>>,
            damped |-> FALSE, tamper |-> FALSE]

(* Mutation: the amplifier's default of 1.0 is left for the raw risk.      *)
Turn_RawDefault(acc, e) ==
  LET streak == Streak(acc.streak, e)
  IN  [risk |-> After(acc.risk, e.gap, DampedScore(e), Amplifier(streak)),
       rawRisk |-> After(acc.rawRisk, e.gap, e.score, 100),
       streak |-> streak,
       damped |-> acc.damped \/ Damps(e),
       tamper |-> acc.tamper \/ e.tamper]

(* The body of the loop for event e.                                       *)
Turn(acc, e) ==
  LET streak == Streak(acc.streak, e)
      amplifier == Amplifier(streak)
  IN  [risk |-> After(acc.risk, e.gap, DampedScore(e), amplifier),
       rawRisk |-> After(acc.rawRisk, e.gap, e.score, amplifier),
       streak |-> streak,
       damped |-> acc.damped \/ Damps(e),
       tamper |-> acc.tamper \/ e.tamper]
=============================================================================
