---------------------------- MODULE Risk_proofs -----------------------------
(***************************************************************************)
(* Theorems about the correlation of events, about the risk stored from    *)
(* it, and about the investigation of one identity, for every set of       *)
(* scores, tiers and damping factors, every threshold the API accepts,     *)
(* every monotone decay and gain, every window, baseline, rule and         *)
(* approval.                                                               *)
(***************************************************************************)
EXTENDS Correlation, RiskWindow, Workbench, SequenceTheorems, FiniteSetTheorems, TLAPS

(* What is known of the threshold, of the gain and of the decay.           *)
LEMMA ThresholdType == NormalThreshold \in 5..80
BY AccumulatorAssumption, Zenon

LEMMA GainProperties ==
  ASSUME NEW s \in 0..100, NEW t \in 0..100
  PROVE  Gain[s] \in Nat /\ (s <= t => Gain[s] <= Gain[t])
<1>1. Gain \in [0..100 -> Nat]
  BY AccumulatorAssumption, Zenon
<1>2. s <= t => Gain[s] <= Gain[t]
  BY AccumulatorAssumption, Zenon
<1> QED
  BY <1>1, <1>2

LEMMA DecayProperties ==
  ASSUME NEW g \in Gaps, NEW x \in Risk, NEW y \in Risk
  PROVE  /\ Decay[g][x] \in Risk
         /\ Decay[g][x] <= x
         /\ x <= y => Decay[g][x] <= Decay[g][y]
<1>1. Decay \in [Gaps -> [Risk -> Risk]]
  BY AccumulatorAssumption, Zenon
<1>2. Decay[g] \in [Risk -> Risk]
  BY <1>1, Zenon
<1>3. Decay[g][x] <= x /\ (x <= y => Decay[g][x] <= Decay[g][y])
  BY AccumulatorAssumption, Zenon
<1> QED
  BY <1>2, <1>3, Zenon

(* What a share of at most 100 percent leaves.                             *)
LEMMA ShareBelow ==
  ASSUME NEW s \in 0..100, NEW f \in 10..95
  PROVE  (s * f) \div 100 \in 0..s
<1>1. s * f \in Nat /\ s * (100 - f) \in Nat
  OBVIOUS
<1>2. s * f + s * (100 - f) = s * 100
  OBVIOUS
<1>3. s * f <= s * 100
  BY <1>1, <1>2
<1> QED
  BY <1>1, <1>3

(* The damped score of an event, compared with its raw score.              *)
LEMMA DampedScoreBounds ==
  ASSUME NEW e \in Event
  PROVE  /\ DampedScore(e) \in 0..100
         /\ DampedScore(e) <= Larger(DampingFloor, e.score)
         /\ ~Damps(e) => DampedScore(e) = e.score
<1>1. e.score \in 0..100
  BY AccumulatorAssumption DEF Event
<1>2. CASE Damps(e)
  <2>1. e.approval \in 10..95
    BY <1>2, AccumulatorAssumption DEF Damps, Event
  <2>2. (e.score * e.approval) \div 100 \in 0..e.score
    BY <1>1, <2>1, ShareBelow
  <2> QED
    BY <1>1, <1>2, <2>2 DEF DampedScore, Larger, DampingFloor
<1>3. CASE ~Damps(e)
  BY <1>1, <1>3 DEF DampedScore, Larger, DampingFloor
<1> QED
  BY <1>2, <1>3

(* The end of a sequence of tiers is a sequence of tiers.                  *)
LEMMA LastOfType ==
  ASSUME NEW s \in Seq(Tiers), NEW n \in Nat \ {0}
  PROVE  LastOf(s, n) \in Seq(Tiers) /\ Len(LastOf(s, n)) <= n
<1> DEFINE first == Larger(1, Len(s) - n + 1)
<1>1. Len(s) \in Nat
  OBVIOUS
<1>2. first \in 1..Len(s) + 1 /\ Len(s) - first + 1 <= n
  BY <1>1 DEF Larger
<1>3. SubSeq(s, first, Len(s)) \in Seq(Tiers)
  BY <1>1, <1>2, SubSeqProperties
<1>4. Len(SubSeq(s, first, Len(s))) = IF first <= Len(s) THEN Len(s) - first + 1 ELSE 0
  BY <1>1, <1>2, SubSeqProperties
<1> QED
  BY <1>1, <1>2, <1>3, <1>4 DEF LastOf

LEMMA StreakType ==
  ASSUME NEW streak \in Seq(Tiers), NEW e \in Event
  PROVE  Streak(streak, e) \in Seq(Tiers) /\ Len(Streak(streak, e)) <= StreakCap
<1>1. Append(streak, e.tier) \in Seq(Tiers)
  BY DEF Event
<1>. StreakCap \in Nat \ {0}
  BY DEF StreakCap
<1>2. LastOf(Append(streak, e.tier), StreakCap) \in Seq(Tiers)
      /\ Len(LastOf(Append(streak, e.tier), StreakCap)) <= StreakCap
  BY <1>1, LastOfType
<1>3. <<>> \in Seq(Tiers) /\ Len(<<>>) <= StreakCap
  BY DEF StreakCap
<1> QED
  BY <1>2, <1>3 DEF Streak

LEMMA LinkBounds ==
  ASSUME NEW n \in Nat, NEW bonus \in {0, 35}
  PROVE  (IF n <= 1 THEN 100 ELSE 100 + Smaller(110, 22 * (n - 1)) + bonus) \in 100..245
BY DEF Smaller

LEMMA AmplifierBounds ==
  ASSUME NEW streak \in Seq(Tiers)
  PROVE  Amplifier(streak) \in 100..245
<1> DEFINE bonus == IF Escalates(LastOf(streak, 4)) THEN 35 ELSE 0
<1>1. Len(streak) \in Nat
  OBVIOUS
<1>2. bonus \in {0, 35}
  BY Zenon
<1>3. Amplifier(streak)
        = IF Len(streak) <= 1 THEN 100
          ELSE 100 + Smaller(110, 22 * (Len(streak) - 1)) + bonus
  BY DEF Amplifier
<1> HIDE DEF bonus
<1>4. (IF Len(streak) <= 1 THEN 100
       ELSE 100 + Smaller(110, 22 * (Len(streak) - 1)) + bonus) \in 100..245
  BY <1>1, <1>2, LinkBounds
<1> QED
  BY <1>3, <1>4, Zenon

(* Accumulating keeps risk in its range and respects its order and the     *)
(* order of scores.                                                        *)
LEMMA AmplifiedMonotone ==
  ASSUME NEW a \in Nat, NEW b \in Nat, a <= b, NEW k \in Nat
  PROVE  /\ (a * k) \div 100 \in Nat
         /\ (a * k) \div 100 <= (b * k) \div 100
<1>1. (b - a) \in Nat
  OBVIOUS
<1>2. a * k \in Nat /\ (b - a) * k \in Nat
  BY <1>1
<1>3. b * k = a * k + (b - a) * k
  OBVIOUS
<1> QED
  BY <1>2, <1>3

LEMMA AccumulateType ==
  ASSUME NEW x \in Risk, NEW s \in 0..100, NEW k \in 100..245
  PROVE  Accumulate(x, s, k) \in Risk
<1>0. k \in Nat
  OBVIOUS
<1>1. Gain[s] \in Nat
  <2>1. Gain \in [0..100 -> Nat]
    BY AccumulatorAssumption, Zenon
  <2> QED
    BY <2>1
<1>2. (Gain[s] * k) \div 100 \in Nat
  BY <1>0, <1>1, AmplifiedMonotone
<1> QED
  BY <1>2 DEF Accumulate, Bleed, Larger, Smaller, Risk, RiskFloor

LEMMA AccumulateMonotone ==
  ASSUME NEW x \in Risk, NEW y \in Risk, x <= y,
         NEW s \in 0..100, NEW t \in 0..100, s <= Larger(DampingFloor, t),
         NEW k \in 100..245
  PROVE  Accumulate(x, s, k) <= Accumulate(y, t, k)
<1>1. CASE t <= NormalThreshold
  <2>1. s <= NormalThreshold
    BY <1>1, ThresholdType DEF Larger, DampingFloor
  <2> QED
    BY <1>1, <2>1 DEF Accumulate, Bleed, Larger, Risk, RiskFloor
<1>2. CASE ~(t <= NormalThreshold)
  <2>1. s <= t
    BY <1>2, ThresholdType DEF Larger, DampingFloor
  <2>2. /\ Gain[s] \in Nat /\ Gain[t] \in Nat
        /\ Gain[s] <= Gain[t]
    <3>1. Gain[s] \in Nat
      BY GainProperties, Zenon
    <3>2. Gain[t] \in Nat
      BY GainProperties, Zenon
    <3>3. Gain[s] <= Gain[t]
      BY <2>1, GainProperties, Zenon
    <3> QED
      BY <3>1, <3>2, <3>3
  <2>3. /\ (Gain[s] * k) \div 100 \in Nat
        /\ (Gain[t] * k) \div 100 \in Nat
        /\ (Gain[s] * k) \div 100 <= (Gain[t] * k) \div 100
    <3>1. k \in Nat
      OBVIOUS
    <3> QED
      BY <2>2, <3>1, AmplifiedMonotone
  <2>4. Bleed(x) <= x
    BY DEF Bleed, Larger, Risk, RiskFloor
  <2> QED
    BY <1>2, <2>3, <2>4 DEF Accumulate, Smaller, Risk, RiskFloor, Bleed, Larger
<1> QED
  BY <1>1, <1>2

LEMMA FloorMonotone ==
  ASSUME NEW s \in 0..100, NEW t \in 0..100, s <= Larger(DampingFloor, t)
  PROVE  /\ SeverityFloor(s) \in 0..76
         /\ SeverityFloor(s) <= SeverityFloor(t)
BY DEF SeverityFloor, Larger, DampingFloor

LEMMA AfterProperties ==
  ASSUME NEW x \in Risk, NEW y \in Risk, x <= y, NEW g \in Gaps,
         NEW s \in 0..100, NEW t \in 0..100, s <= Larger(DampingFloor, t),
         NEW k \in 100..245
  PROVE  /\ After(x, g, s, k) \in Risk
         /\ After(x, g, s, k) <= After(y, g, t, k)
<1>1. /\ Decay[g][x] \in Risk /\ Decay[g][y] \in Risk
      /\ Decay[g][x] <= Decay[g][y]
  BY DecayProperties
<1>2. /\ Accumulate(Decay[g][x], s, k) \in Risk
      /\ Accumulate(Decay[g][y], t, k) \in Risk
      /\ Accumulate(Decay[g][x], s, k) <= Accumulate(Decay[g][y], t, k)
  BY <1>1, AccumulateType, AccumulateMonotone
<1>3. /\ SeverityFloor(s) \in 0..76 /\ SeverityFloor(t) \in 0..76
      /\ SeverityFloor(s) <= SeverityFloor(t)
  BY FloorMonotone DEF SeverityFloor
<1> QED
  BY <1>2, <1>3 DEF After, Larger, Risk, RiskFloor

LEMMA AfterType ==
  ASSUME NEW x \in Risk, NEW g \in Gaps, NEW s \in 0..100, NEW k \in 100..245
  PROVE  After(x, g, s, k) \in Risk
<1>1. x <= x
  BY DEF Risk, RiskFloor
<1>2. s <= Larger(DampingFloor, s)
  BY DEF Larger, DampingFloor
<1> QED
  BY <1>1, <1>2, AfterProperties, Zenon
-----------------------------------------------------------------------------
(* One turn of the loop: types, and the order of damped and raw risk.      *)
LEMMA TurnType ==
  ASSUME NEW a \in Accumulator, NEW e \in Event
  PROVE  /\ Turn(a, e) \in Accumulator
         /\ Len(Turn(a, e).streak) <= StreakCap
<1> DEFINE streak == Streak(a.streak, e)
           k == Amplifier(streak)
<1>1. /\ a.risk \in Risk /\ a.rawRisk \in Risk /\ a.streak \in Seq(Tiers)
      /\ a.damped \in BOOLEAN /\ a.tamper \in BOOLEAN
  BY DEF Accumulator
<1>2. e.gap \in Gaps /\ e.tamper \in BOOLEAN
  BY DEF Event
<1>3. e.score \in 0..100 /\ DampedScore(e) \in 0..100
  BY DampedScoreBounds, AccumulatorAssumption, Zenon DEF Event
<1>4. streak \in Seq(Tiers) /\ Len(streak) <= StreakCap
  BY <1>1, StreakType, Zenon
<1>5. k \in 100..245
  BY <1>4, AmplifierBounds, Zenon
<1>6. /\ After(a.risk, e.gap, DampedScore(e), k) \in Risk
      /\ After(a.rawRisk, e.gap, e.score, k) \in Risk
  <2> HIDE DEF k
  <2>1. After(a.risk, e.gap, DampedScore(e), k) \in Risk
    BY <1>1, <1>2, <1>3, <1>5, AfterType, Zenon
  <2>2. After(a.rawRisk, e.gap, e.score, k) \in Risk
    BY <1>1, <1>2, <1>3, <1>5, AfterType, Zenon
  <2> QED
    BY <2>1, <2>2
<1>7. (a.damped \/ Damps(e)) \in BOOLEAN /\ (a.tamper \/ e.tamper) \in BOOLEAN
  BY <1>1, <1>2, Zenon DEF Damps
<1>8. Turn(a, e) = [risk |-> After(a.risk, e.gap, DampedScore(e), k),
                    rawRisk |-> After(a.rawRisk, e.gap, e.score, k),
                    streak |-> streak,
                    damped |-> a.damped \/ Damps(e),
                    tamper |-> a.tamper \/ e.tamper]
  BY DEF Turn
<1> HIDE DEF k, streak
<1> QED
  BY <1>4, <1>6, <1>7, <1>8 DEF Accumulator

LEMMA TurnOrder ==
  ASSUME NEW a \in Accumulator, NEW e \in Event, a.risk <= a.rawRisk
  PROVE  Turn(a, e).risk <= Turn(a, e).rawRisk
<1> DEFINE k == Amplifier(Streak(a.streak, e))
<1>1. a.risk \in Risk /\ a.rawRisk \in Risk /\ a.streak \in Seq(Tiers)
  BY DEF Accumulator
<1>2. e.gap \in Gaps /\ e.score \in 0..100
  BY AccumulatorAssumption, Zenon DEF Event
<1>3. DampedScore(e) \in 0..100 /\ DampedScore(e) <= Larger(DampingFloor, e.score)
  BY DampedScoreBounds, Zenon
<1>4. k \in 100..245
  BY <1>1, StreakType, AmplifierBounds, Zenon
<1>5. After(a.risk, e.gap, DampedScore(e), k) <= After(a.rawRisk, e.gap, e.score, k)
  BY <1>1, <1>2, <1>3, <1>4, AfterProperties, Zenon
<1> QED
  BY <1>5 DEF Turn

LEMMA TurnAgrees ==
  ASSUME NEW a \in Accumulator, NEW e \in Event,
         a.risk = a.rawRisk, ~Turn(a, e).damped
  PROVE  Turn(a, e).risk = Turn(a, e).rawRisk
<1>1. ~Damps(e)
  BY DEF Turn
<1>2. DampedScore(e) = e.score
  BY <1>1, DampedScoreBounds, Zenon
<1> QED
  BY <1>2 DEF Turn

(* An event that leaves no streak was at or below the threshold.           *)
LEMMA NoStreakIsBenign ==
  ASSUME NEW a \in Accumulator, NEW e \in Event, Turn(a, e).streak = <<>>
  PROVE  ~Anomalous(e)
<1> SUFFICES ASSUME Anomalous(e) PROVE FALSE
  OBVIOUS
<1> DEFINE s == Append(a.streak, e.tier)
           first == Larger(1, Len(s) - StreakCap + 1)
<1>1. a.streak \in Seq(Tiers) /\ e.tier \in Tiers
  BY DEF Accumulator, Event
<1>2. s \in Seq(Tiers) /\ Len(s) = Len(a.streak) + 1 /\ Len(a.streak) \in Nat
  BY <1>1
<1>3. Turn(a, e).streak = SubSeq(s, first, Len(s))
  BY DEF Turn, Streak, LastOf
<1> HIDE DEF s
<1>4. first \in 1..Len(s)
  BY <1>2 DEF Larger, StreakCap
<1>5. Len(SubSeq(s, first, Len(s))) = Len(s) - first + 1
  BY <1>2, <1>4, SubSeqProperties
<1>6. Len(<<>>) = 0
  OBVIOUS
<1> QED
  BY <1>2, <1>3, <1>4, <1>5, <1>6

(* Below the severity floors, such an event only lets risk fall.           *)
LEMMA BenignFalls ==
  ASSUME NEW x \in Risk, NEW g \in Gaps, NEW s \in 0..100, NEW k \in 100..245,
         s <= NormalThreshold, NormalThreshold < 68
  PROVE  After(x, g, s, k) <= x
<1>1. Decay[g][x] \in Risk /\ Decay[g][x] <= x
  BY DecayProperties, Zenon
<1>2. SeverityFloor(s) = 0
  BY ThresholdType DEF SeverityFloor
<1> DEFINE d == Decay[g][x]
<1>3. Accumulate(d, s, k) = Bleed(d)
  BY DEF Accumulate
<1>4. Bleed(d) \in Risk /\ Bleed(d) <= d
  <2> HIDE DEF d
  <2>1. d \in Risk
    BY <1>1 DEF d
  <2> QED
    BY <2>1 DEF Bleed, Larger, Risk, RiskFloor
<1>5. After(x, g, s, k) = Bleed(d)
  <2> HIDE DEF d
  <2>1. After(x, g, s, k) = Larger(Accumulate(d, s, k), SeverityFloor(s))
    BY DEF After, d
  <2> QED
    BY <2>1, <1>2, <1>3, <1>4 DEF Larger, Risk, RiskFloor
<1>6. d \in Risk /\ d <= x
  BY <1>1
<1>7. After(x, g, s, k) \in Risk /\ After(x, g, s, k) <= d
  BY <1>4, <1>5
<1> HIDE DEF d
<1> QED
  BY <1>6, <1>7 DEF Risk, RiskFloor
-----------------------------------------------------------------------------
LEMMA StepType == TypeOK /\ [Next]_vars => TypeOK'
<1> SUFFICES ASSUME TypeOK, [Next]_vars PROVE TypeOK'
  OBVIOUS
<1>1. ASSUME NEW e \in Event, Process(e) PROVE TypeOK'
  <2>1. acc \in Accumulator /\ acc' = Turn(acc, e)
    BY <1>1 DEF TypeOK, Process
  <2>2. acc' \in Accumulator /\ Len(acc'.streak) <= StreakCap
    BY <2>1, TurnType, Zenon
  <2> QED
    BY <1>1, <2>2 DEF TypeOK, Process, Event
<1>2. CASE UNCHANGED vars
  BY <1>2 DEF TypeOK, vars
<1> QED
  BY <1>1, <1>2 DEF Next

LEMMA InitType == Init => TypeOK
<1>1. <<>> \in Seq(Tiers) /\ Len(<<>>) = 0
  OBVIOUS
<1>2. Nothing \in Accumulator /\ Len(Nothing.streak) <= StreakCap
  BY <1>1 DEF Nothing, Accumulator, Risk, RiskFloor, StreakCap
<1> QED
  BY <1>2 DEF Init, TypeOK

(* Risk and raw risk stay between the floor and 100 for every stream of    *)
(* events, and the streak remembers at most six of them.                   *)
THEOREM RiskBounded == Spec => []TypeOK
BY InitType, StepType, PTL DEF Spec

(* Whatever approvals match, the damped risk never exceeds the raw risk    *)
(* (correlate keeps both; the console shows their difference).             *)
THEOREM DampingOnlyLowers == Spec => []DampedBelowRaw
<1> DEFINE Inv == TypeOK /\ DampedBelowRaw
<1>1. Init => Inv
  BY InitType DEF Init, DampedBelowRaw, Nothing, RiskFloor
<1>2. Inv /\ [Next]_vars => Inv'
  <2> SUFFICES ASSUME Inv, [Next]_vars PROVE DampedBelowRaw'
    BY StepType
  <2>1. ASSUME NEW e \in Event, Process(e) PROVE DampedBelowRaw'
    <3>1. acc \in Accumulator /\ acc.risk <= acc.rawRisk /\ acc' = Turn(acc, e)
      BY <2>1 DEF TypeOK, DampedBelowRaw, Process
    <3> QED
      BY <3>1, TurnOrder, Zenon DEF DampedBelowRaw
  <2>2. CASE UNCHANGED vars
    BY <2>2 DEF DampedBelowRaw, vars
  <2> QED
    BY <2>1, <2>2 DEF Next
<1> QED
  BY <1>1, <1>2, PTL DEF Spec

(* Without damping the two risks are equal: nothing else, and no approval  *)
(* of a tampering event, tells them apart.                                 *)
THEOREM DampingIsReported == Spec => []UndampedAgree
<1> DEFINE Inv == TypeOK /\ UndampedAgree
<1>1. Init => Inv
  BY InitType DEF Init, UndampedAgree, Nothing
<1>2. Inv /\ [Next]_vars => Inv'
  <2> SUFFICES ASSUME Inv, [Next]_vars PROVE UndampedAgree'
    BY StepType
  <2>1. ASSUME NEW e \in Event, Process(e) PROVE UndampedAgree'
    <3>1. acc \in Accumulator /\ acc' = Turn(acc, e)
      BY <2>1 DEF TypeOK, Process
    <3>2. SUFFICES ASSUME ~Turn(acc, e).damped
                   PROVE  Turn(acc, e).risk = Turn(acc, e).rawRisk
      BY <3>1 DEF UndampedAgree
    <3>3. ~acc.damped
      BY <3>2 DEF Turn
    <3>4. acc.risk = acc.rawRisk
      BY <3>3 DEF UndampedAgree
    <3> QED
      BY <3>1, <3>2, <3>4, TurnAgrees, Zenon
  <2>2. CASE UNCHANGED vars
    BY <2>2 DEF UndampedAgree, vars
  <2> QED
    BY <2>1, <2>2 DEF Next
<1> QED
  BY <1>1, <1>2, PTL DEF Spec

(* The engine keeps the promise the alert modules are built on: the        *)
(* results of correlate are results of AlertTable!Correlate.               *)
THEOREM EngineKeepsPromise == Spec => []PromiseKept
<1> DEFINE Judged == /\ acc.tamper <=> "tamper" \in seen
                     /\ acc.damped => offered /\ "ordinary" \in seen
                     /\ seen = {} => acc.risk = RiskFloor
           Inv == TypeOK /\ Judged
<1>1. Init => Inv
  <2> SUFFICES ASSUME Init PROVE Judged
    BY InitType
  <2>1. ~acc.tamper /\ acc.tamper \in BOOLEAN /\ ~acc.damped /\ acc.risk = RiskFloor
    BY DEF Init, Nothing
  <2>2. ~("tamper" \in seen)
    BY DEF Init
  <2> QED
    BY <2>1, <2>2, Zenon
<1>2. Inv /\ [Next]_vars => Inv'
  <2> SUFFICES ASSUME Inv, [Next]_vars PROVE Judged'
    BY StepType
  <2>1. ASSUME NEW e \in Event, Process(e) PROVE Judged'
    <3>1. /\ acc' = Turn(acc, e)
          /\ seen' = seen \cup {IF e.tamper THEN "tamper" ELSE "ordinary"}
          /\ offered' = (offered \/ e.approval # NoApproval)
      BY <2>1 DEF Process
    <3>2. acc'.tamper = (acc.tamper \/ e.tamper) /\ acc'.damped = (acc.damped \/ Damps(e))
      BY <3>1 DEF Turn
    <3>3. e.tamper \in BOOLEAN /\ acc.tamper \in BOOLEAN /\ acc.damped \in BOOLEAN
      BY DEF Event, TypeOK, Accumulator
    <3>4. (acc'.tamper <=> "tamper" \in seen')
      <4>1. CASE e.tamper
        BY <3>1, <3>2, <4>1
      <4>2. CASE ~e.tamper
        <5>1. ("tamper" \in seen') <=> ("tamper" \in seen)
          BY <3>1, <4>2
        <5>2. acc'.tamper = acc.tamper
          BY <3>2, <3>3, <4>2, Zenon
        <5>3. (acc.tamper <=> "tamper" \in seen)
          OBVIOUS
        <5> QED
          BY <5>1, <5>2, <5>3, Zenon
      <4> QED
        BY <4>1, <4>2
    <3>5. acc'.damped => offered' /\ "ordinary" \in seen'
      BY <3>1, <3>2, <3>3 DEF Damps
    <3>6. seen' # {}
      BY <3>1
    <3> QED
      BY <3>4, <3>5, <3>6
  <2>2. CASE UNCHANGED vars
    BY <2>2 DEF vars
  <2> QED
    BY <2>1, <2>2 DEF Next
<1>3. Inv => PromiseKept
  <2> SUFFICES ASSUME Inv PROVE PromiseKept
    OBVIOUS
  <2>1. acc.risk \in Risk /\ acc.tamper \in BOOLEAN /\ acc.damped \in BOOLEAN
    BY DEF TypeOK, Accumulator
  <2> QED
    BY <2>1 DEF PromiseKept, Alerts!Correlate, Alerts!Result, RiskFloor
<1> QED
  BY <1>1, <1>2, <1>3, PTL DEF Spec

(* docs/DETECTION.md:164 holds for every normal threshold below the first  *)
(* severity floor, the default of 28 among them.                           *)
THEOREM BenignEventsReduceRisk ==
  ASSUME NormalThreshold < 68
  PROVE  Spec => BenignNeverRaises
<1>1. ASSUME TypeOK, [Next]_vars, acc'.streak = <<>>
      PROVE  acc'.risk <= acc.risk /\ acc'.rawRisk <= acc.rawRisk
  <2>1. ASSUME NEW e \in Event, Process(e)
        PROVE  acc'.risk <= acc.risk /\ acc'.rawRisk <= acc.rawRisk
    <3> DEFINE k == Amplifier(Streak(acc.streak, e))
    <3>1. acc \in Accumulator /\ acc' = Turn(acc, e)
      BY <1>1, <2>1 DEF TypeOK, Process
    <3>2. /\ acc.risk \in Risk /\ acc.rawRisk \in Risk
          /\ acc.streak \in Seq(Tiers) /\ e.gap \in Gaps
      BY <3>1 DEF Accumulator, Event
    <3>3. e.score \in 0..100 /\ DampedScore(e) \in 0..100
          /\ DampedScore(e) <= Larger(DampingFloor, e.score)
      BY DampedScoreBounds, AccumulatorAssumption, Zenon DEF Event
    <3>4. ~Anomalous(e)
      BY <1>1, <3>1, NoStreakIsBenign, Zenon
    <3>5. e.score <= NormalThreshold /\ DampedScore(e) <= NormalThreshold
      BY <3>3, <3>4, ThresholdType DEF Anomalous, Larger, DampingFloor
    <3>6. k \in 100..245
      BY <3>2, StreakType, AmplifierBounds, Zenon
    <3>7. /\ acc'.risk = After(acc.risk, e.gap, DampedScore(e), k)
          /\ acc'.rawRisk = After(acc.rawRisk, e.gap, e.score, k)
      BY <3>1 DEF Turn
    <3> HIDE DEF k
    <3>8. After(acc.risk, e.gap, DampedScore(e), k) <= acc.risk
      BY <3>2, <3>3, <3>5, <3>6, BenignFalls, Zenon
    <3>9. After(acc.rawRisk, e.gap, e.score, k) <= acc.rawRisk
      BY <3>2, <3>3, <3>5, <3>6, BenignFalls, Zenon
    <3> QED
      BY <3>7, <3>8, <3>9, Zenon
  <2>2. CASE UNCHANGED vars
    <3>1. acc.risk \in Risk /\ acc.rawRisk \in Risk
      BY <1>1 DEF TypeOK, Accumulator
    <3> QED
      BY <2>2, <3>1 DEF vars, Risk, RiskFloor
  <2> QED
    BY <1>1, <2>1, <2>2 DEF Next
<1>2. TypeOK /\ [Next]_vars =>
        [acc'.streak = <<>> => acc'.risk <= acc.risk /\ acc'.rawRisk <= acc.rawRisk]_vars
  BY <1>1
<1> QED
  BY <1>2, RiskBounded, PTL DEF Spec, BenignNeverRaises
-----------------------------------------------------------------------------
(* The risk that is stored.  What the loop computes for every window is    *)
(* shown from this: numbers of which one has a property have a least one.  *)
LEMMA LeastOfFinite ==
  ASSUME NEW S \in SUBSET Nat, IsFiniteSet(S), S # {}
  PROVE  \E m \in S : \A x \in S : m <= x
<1> DEFINE HasMin(U) == \E m \in U : \A x \in U : m <= x
           Bad == {U \in FiniteSubsetsOf(S) : U # {} /\ ~HasMin(U)}
<1>1. SUFFICES ASSUME Bad # {} PROVE FALSE
  <2>1. S \in FiniteSubsetsOf(S)
    BY DEF FiniteSubsetsOf
  <2> QED
    BY <2>1
<1>2. PICK U \in Bad : \A V \in Bad : ~(<<V, U>> \in StrictSubsetOrdering(S))
  <2> HIDE DEF Bad
  <2>1. Bad \subseteq FiniteSubsetsOf(S)
    BY DEF Bad
  <2> QED
    BY <1>1, <2>1, WFMin, FS_StrictSubsetOrderingWellFounded
<1>3. U \subseteq S /\ IsFiniteSet(U) /\ U # {} /\ ~HasMin(U)
  BY <1>2 DEF FiniteSubsetsOf
<1>4. PICK x \in U : TRUE
  BY <1>3
<1> DEFINE V == U \ {x}
<1>5. V \in FiniteSubsetsOf(S) /\ <<V, U>> \in StrictSubsetOrdering(S)
  <2>1. IsFiniteSet(V)
    BY <1>3, FS_RemoveElement
  <2> QED
    BY <1>3, <1>4, <2>1 DEF FiniteSubsetsOf, StrictSubsetOrdering
<1>6. CASE V = {}
  BY <1>3, <1>4, <1>6
<1>7. CASE V # {}
  <2>1. PICK m \in V : \A y \in V : m <= y
    BY <1>2, <1>5, <1>7
  <2>2. x \in Nat /\ m \in Nat /\ \A y \in U : y = x \/ m <= y
    BY <1>3, <1>4, <2>1
  <2>3. CASE m <= x
    BY <1>3, <2>1, <2>2, <2>3
  <2>4. CASE ~(m <= x)
    <3>1. \A y \in U : x <= y
      <4> SUFFICES ASSUME NEW y \in U PROVE x <= y
        OBVIOUS
      <4>1. y \in Nat
        BY <1>3
      <4> QED
        BY <2>2, <2>4, <4>1
    <3> QED
      BY <1>3, <1>4, <3>1
  <2> QED
    BY <2>3, <2>4
<1> QED
  BY <1>6, <1>7

(* Induction: what holds at 0 and is handed on holds up to n.              *)
LEMMA HandedOn ==
  ASSUME NEW n \in Nat, NEW Good,
         0 \in Good, \A k \in 1..n : k - 1 \in Good => k \in Good
  PROVE  0..n \subseteq Good
<1> DEFINE Bad == (0..n) \ Good
<1>1. SUFFICES ASSUME Bad # {} PROVE FALSE
  OBVIOUS
<1>2. Bad \in SUBSET Nat /\ IsFiniteSet(Bad)
  <2>1. IsFiniteSet(0..n)
    BY FS_Interval
  <2> QED
    BY <2>1, FS_Subset
<1>3. PICK m \in Bad : \A x \in Bad : m <= x
  <2> HIDE DEF Bad
  <2> QED
    BY <1>1, <1>2, LeastOfFinite
<1>4. m \in 1..n
  BY <1>3
<1>5. m - 1 \in 0..n /\ m - 1 \notin Bad
  BY <1>3, <1>4
<1> QED
  BY <1>3, <1>4, <1>5

LEMMA TurnIsTaken ==
  ASSUME NEW a, NEW e
  PROVE  TurnOnce(a, e) = Turn(a, e)
BY DEF TurnOnce

(* The loop computes what it says: there is such a function.               *)
IsCourse(f, read, n) ==
  f = [k \in 0..n |-> IF k = 0 THEN Nothing ELSE TurnOnce(f[k - 1], read[k])]

LEMMA CourseExists ==
  ASSUME NEW read, NEW n \in Nat
  PROVE  \E f : IsCourse(f, read, n)
<1> DEFINE Good == {m \in 0..n : \E f : IsCourse(f, read, m)}
<1>1. 0 \in Good
  <2> DEFINE f == [k \in 0..0 |-> Nothing]
  <2>1. f = [k \in 0..0 |-> IF k = 0 THEN Nothing ELSE TurnOnce(f[k - 1], read[k])]
    OBVIOUS
  <2>2. IsCourse(f, read, 0)
    BY <2>1 DEF IsCourse
  <2> HIDE DEF f
  <2> QED
    BY <2>2
<1>2. ASSUME NEW m \in 1..n, m - 1 \in Good PROVE m \in Good
  <2>1. PICK f : IsCourse(f, read, m - 1)
    BY <1>2
  <2> DEFINE g == [k \in 0..m |-> IF k = m THEN TurnOnce(f[m - 1], read[m]) ELSE f[k]]
  <2>2. \A k \in 0..m - 1 : f[k] = IF k = 0 THEN Nothing ELSE TurnOnce(f[k - 1], read[k])
    BY <2>1 DEF IsCourse
  <2>3. \A k \in 0..m : g[k] = IF k = 0 THEN Nothing ELSE TurnOnce(g[k - 1], read[k])
    <3> SUFFICES ASSUME NEW k \in 0..m
                 PROVE  g[k] = IF k = 0 THEN Nothing ELSE TurnOnce(g[k - 1], read[k])
      OBVIOUS
    <3>1. CASE k = m
      BY <1>2, <3>1
    <3>2. CASE k # m
      <4>1. k \in 0..m - 1 /\ (k # 0 => k - 1 \in 0..m /\ k - 1 # m)
        BY <3>2
      <4> QED
        BY <2>2, <3>2, <4>1
    <3> QED
      BY <3>1, <3>2
  <2>4. IsCourse(g, read, m)
    <3>1. g = [k \in 0..m |-> g[k]]
      OBVIOUS
    <3> HIDE DEF g
    <3> QED
      BY <2>3, <3>1 DEF IsCourse
  <2> QED
    BY <1>2, <2>4
<1>3. 0..n \subseteq Good
  <2> HIDE DEF Good
  <2> QED
    BY <1>1, <1>2, HandedOn
<1> QED
  BY <1>3

LEMMA CourseRuns ==
  ASSUME NEW read, NEW n \in Nat
  PROVE  /\ Course(read, n)[0] = Nothing
         /\ \A k \in 1..n : Course(read, n)[k] = Turn(Course(read, n)[k - 1], read[k])
<1> DEFINE c == Course(read, n)
<1>1. c = CHOOSE f : IsCourse(f, read, n)
  BY DEF Course, IsCourse
<1>2. IsCourse(c, read, n)
  BY <1>1, CourseExists
<1> HIDE DEF c
<1>3. \A k \in 0..n : c[k] = IF k = 0 THEN Nothing ELSE TurnOnce(c[k - 1], read[k])
  BY <1>2 DEF IsCourse
<1>4. c[0] = Nothing
  BY <1>3
<1>5. \A k \in 1..n : c[k] = TurnOnce(c[k - 1], read[k])
  BY <1>3
<1>6. \A k \in 1..n : c[k] = Turn(c[k - 1], read[k])
  BY <1>5, TurnIsTaken
<1> QED
  BY <1>4, <1>6 DEF c

(* Where no approval is active every event reads as it is.                 *)
LEMMA InactiveDampsNothing ==
  ASSUME NEW entries, Len(entries) \in Nat, NEW held, held \notin {"valid", "lapsed"}
  PROVE  Scored(entries, held).risk = Scored(entries, held).rawRisk
<1> DEFINE n == Len(entries)
           read == Read(entries, held)
           c == Course(read, n)
           Good == {k \in 0..n : c[k].risk = c[k].rawRisk}
<1>1. \A k \in 1..n : ~Damps(read[k])
  BY DEF Read, Damping, Damps
<1>2. c[0] = Nothing /\ \A k \in 1..n : c[k] = Turn(c[k - 1], read[k])
  BY CourseRuns
<1>3. 0 \in Good
  BY <1>2 DEF Nothing
<1>4. ASSUME NEW k \in 1..n, k - 1 \in Good PROVE k \in Good
  <2>1. DampedScore(read[k]) = read[k].score
    BY <1>1 DEF DampedScore
  <2>2. c[k - 1].risk = c[k - 1].rawRisk
    BY <1>4
  <2> HIDE DEF c, read
  <2>3. Turn(c[k - 1], read[k]).risk = Turn(c[k - 1], read[k]).rawRisk
    BY <2>1, <2>2 DEF Turn
  <2> QED
    BY <1>2, <2>3
<1>5. n \in Good
  <2>1. 0..n \subseteq Good
    <3> HIDE DEF Good
    <3> QED
      BY <1>3, <1>4, HandedOn
  <2> QED
    BY <2>1
<1> QED
  BY <1>5 DEF Scored
-----------------------------------------------------------------------------
(* A log of events in the order of their time.                             *)
Log(entries) ==
  /\ entries \in Seq(Entry)
  /\ \A k \in 1..Len(entries) - 1 : entries[k].age >= entries[k + 1].age

LEMMA EntryHas ==
  ASSUME NEW e \in Entry
  PROVE  /\ e.age \in 0..Window /\ e.covered \in BOOLEAN
         /\ e.kind.score \in Scores /\ e.kind.tier \in Tiers
         /\ e.kind.tamper \in BOOLEAN
<1>1. e.kind \in Kinds /\ e.age \in 0..Window /\ e.covered \in BOOLEAN
  BY DEF Entry
<1>2. e.kind \in [score : Scores, tier : Tiers, tamper : BOOLEAN]
  BY <1>1, WindowAssumption
<1> QED
  BY <1>1, <1>2

(* The loop reads such a log as events of the accumulator.                 *)
LEMMA ReadsEvents ==
  ASSUME NEW entries, Log(entries), NEW held, NEW k \in 1..Len(entries)
  PROVE  /\ Read(entries, held)[k] \in Event
         /\ Read(entries, held)[k].tamper = entries[k].kind.tamper
         /\ Damps(Read(entries, held)[k]) =>
              held \in {"valid", "lapsed"} /\ ~entries[k].kind.tamper
<1> DEFINE e == Read(entries, held)[k]
           gap == IF k = 1 THEN 0 ELSE entries[k - 1].age - entries[k].age
<1>1. e = [gap |-> gap, score |-> entries[k].kind.score, tier |-> entries[k].kind.tier,
           tamper |-> entries[k].kind.tamper, approval |-> Damping(entries[k], held)]
  BY DEF Read
<1>2. \A j \in 1..Len(entries) : entries[j] \in Entry
  BY DEF Log
<1>3. gap \in Gaps
  <2>1. CASE k = 1
    <3>1. 0 \in Gaps
      BY WindowAssumption
    <3> QED
      BY <2>1, <3>1
  <2>2. CASE k # 1
    <3>1. k - 1 \in 1..Len(entries) - 1
      BY <2>2 DEF Log
    <3>2. entries[k - 1].age >= entries[k].age
      <4>1. (k - 1) + 1 = k
        OBVIOUS
      <4>2. entries[k - 1].age >= entries[(k - 1) + 1].age
        BY <3>1 DEF Log
      <4> QED
        BY <4>1, <4>2
    <3>3. entries[k - 1].age \in 0..Window /\ entries[k].age \in 0..Window
      BY <1>2, <3>1, EntryHas
    <3> QED
      BY <2>2, <3>2, <3>3, WindowAssumption
  <2> QED
    BY <2>1, <2>2
<1>4. Damping(entries[k], held) \in Factors \cup {NoApproval}
  BY WindowAssumption DEF Damping
<1>5. entries[k].kind.score \in Scores /\ entries[k].kind.tier \in Tiers
      /\ entries[k].kind.tamper \in BOOLEAN
  BY <1>2, EntryHas
<1> HIDE DEF e, gap
<1>6. e \in Event
  BY <1>1, <1>3, <1>4, <1>5 DEF Event
<1>7. Damps(e) => held \in {"valid", "lapsed"} /\ ~entries[k].kind.tamper
  BY <1>1 DEF Damps, Damping
<1> QED
  BY <1>1, <1>6, <1>7 DEF e

(* What score_identity returns for it.                                     *)
LEMMA ScoredSound ==
  ASSUME NEW entries, Log(entries), NEW held
  PROVE  LET s == Scored(entries, held) IN
         /\ s \in Accumulator
         /\ s.tamper <=> \E k \in 1..Len(entries) : entries[k].kind.tamper
         /\ s.damped => /\ held \in {"valid", "lapsed"}
                        /\ \E k \in 1..Len(entries) : ~entries[k].kind.tamper
         /\ Len(entries) = 0 => s.risk = RiskFloor
<1> DEFINE n == Len(entries)
           read == Read(entries, held)
           c == Course(read, n)
           Good == {k \in 0..n :
                      /\ c[k] \in Accumulator
                      /\ c[k].tamper <=> \E j \in 1..k : entries[j].kind.tamper
                      /\ c[k].damped => /\ held \in {"valid", "lapsed"}
                                        /\ \E j \in 1..k : ~entries[j].kind.tamper}
<1>1. n \in Nat
  BY DEF Log
<1>2. c[0] = Nothing /\ \A k \in 1..n : c[k] = Turn(c[k - 1], read[k])
  BY <1>1, CourseRuns
<1>3. \A k \in 1..n : /\ read[k] \in Event
                      /\ read[k].tamper = entries[k].kind.tamper
                      /\ Damps(read[k]) =>
                           held \in {"valid", "lapsed"} /\ ~entries[k].kind.tamper
  BY ReadsEvents
<1> HIDE DEF c, read
<1>4. 0 \in Good
  <2>1. Nothing \in Accumulator /\ ~Nothing.tamper /\ ~Nothing.damped
    BY DEF Nothing, Accumulator, Risk, RiskFloor
  <2>2. 0 \in 0..n /\ \A j \in 1..0 : FALSE
    BY <1>1
  <2>3. ~\E j \in 1..0 : entries[j].kind.tamper
    BY <2>2
  <2> HIDE DEF n
  <2> QED
    BY <1>2, <2>1, <2>2, <2>3
<1>5. ASSUME NEW k \in 1..n, k - 1 \in Good PROVE k \in Good
  <2>1. c[k] = Turn(c[k - 1], read[k])
    BY <1>2
  <2>2. /\ c[k - 1] \in Accumulator
        /\ c[k - 1].tamper <=> \E j \in 1..k - 1 : entries[j].kind.tamper
        /\ c[k - 1].damped => /\ held \in {"valid", "lapsed"}
                              /\ \E j \in 1..k - 1 : ~entries[j].kind.tamper
    BY <1>5
  <2>3. c[k] \in Accumulator
    BY <1>3, <2>1, <2>2, TurnType
  <2>4. /\ c[k].tamper <=> (c[k - 1].tamper \/ entries[k].kind.tamper)
        /\ c[k].damped <=> (c[k - 1].damped \/ Damps(read[k]))
    <3>1. /\ Turn(c[k - 1], read[k]).tamper = (c[k - 1].tamper \/ read[k].tamper)
          /\ Turn(c[k - 1], read[k]).damped = (c[k - 1].damped \/ Damps(read[k]))
      BY DEF Turn
    <3>2. read[k].tamper = entries[k].kind.tamper
      BY <1>3
    <3> QED
      BY <2>1, <3>1, <3>2, Zenon
  <2>5. \A j : j \in 1..k <=> j \in 1..k - 1 \/ j = k
    OBVIOUS
  <2>6. c[k].tamper <=> \E j \in 1..k : entries[j].kind.tamper
    BY <2>2, <2>4, <2>5, Zenon
  <2>7. c[k].damped => /\ held \in {"valid", "lapsed"}
                       /\ \E j \in 1..k : ~entries[j].kind.tamper
    BY <1>3, <2>2, <2>4, <2>5, Zenon
  <2> QED
    BY <2>3, <2>6, <2>7
<1>6. n \in Good
  <2>1. 0..n \subseteq Good
    <3> HIDE DEF Good
    <3> QED
      BY <1>1, <1>4, <1>5, HandedOn
  <2> QED
    BY <1>1, <2>1
<1>7. n = 0 => c[n].risk = RiskFloor
  BY <1>2 DEF Nothing
<1> QED
  BY <1>6, <1>7 DEF Scored, c, read
-----------------------------------------------------------------------------
(* What a fresh score was computed from: what is stored about the identity *)
(* now.                                                                    *)
FreshIsScored == fresh => stored = Scored(log, approval)

LEMMA LogIsTyped ==
  ASSUME WindowTypeOK
  PROVE  log \in Seq(Entry) /\ Len(log) \in Nat /\ Log(log)
BY DEF WindowTypeOK, Log

(* The ages of a log never rise.                                           *)
LEMMA AgesFall ==
  ASSUME NEW entries, Log(entries), NEW i \in 1..Len(entries),
         NEW j \in 1..Len(entries), i <= j
  PROVE  entries[j].age <= entries[i].age
<1> DEFINE n == j - i
           Good == {d \in 0..n : entries[i + d].age <= entries[i].age}
<1>1. n \in Nat /\ \A d \in 0..n : i + d \in 1..Len(entries)
  BY DEF Log
<1>2. \A k \in 1..Len(entries) : entries[k].age \in Int
  <2>1. \A k \in 1..Len(entries) : entries[k] \in Entry
    BY DEF Log
  <2>2. \A k \in 1..Len(entries) : entries[k].age \in 0..Window
    BY <2>1, EntryHas
  <2> QED
    BY <2>2, WindowAssumption
<1>3. 0 \in Good
  <2>1. i + 0 = i /\ entries[i].age <= entries[i].age
    BY <1>2
  <2> QED
    BY <1>1, <2>1
<1>4. ASSUME NEW d \in 1..n, d - 1 \in Good PROVE d \in Good
  <2>1. i + (d - 1) \in 1..Len(entries) - 1 /\ (i + (d - 1)) + 1 = i + d
    BY <1>1 DEF Log
  <2>2. entries[i + (d - 1)].age >= entries[i + d].age
    BY <2>1 DEF Log
  <2>3. entries[i + (d - 1)].age <= entries[i].age
    BY <1>4
  <2>4. /\ entries[i + (d - 1)].age \in Int /\ entries[i + d].age \in Int
        /\ entries[i].age \in Int
    BY <1>1, <1>2, <2>1
  <2> QED
    BY <2>2, <2>3, <2>4
<1>5. 0..n \subseteq Good
  <2> HIDE DEF Good
  <2> QED
    BY <1>1, <1>3, <1>4, HandedOn
<1>6. n \in Good /\ i + n = j
  BY <1>1, <1>5
<1> QED
  BY <1>6

(* The events that leave the window stand before those that stay.          *)
LEMMA LeavingFirst ==
  ASSUME Log(log)
  PROVE  /\ Leaving \in 0..Len(log)
         /\ \A k \in 1..Len(log) : k <= Leaving <=> log[k].age = Window
<1> DEFINE Parts(n) == \A k \in 1..Len(log) : k <= n <=> log[k].age = Window
           Stay == {k \in 1..Len(log) + 1 : k = Len(log) + 1 \/ log[k].age # Window}
<1>1. Len(log) \in Nat /\ \A k \in 1..Len(log) : log[k] \in Entry
  BY DEF Log
<1>2. \A k \in 1..Len(log) : log[k].age \in 0..Window
  BY <1>1, EntryHas
<1>3. PICK m \in Stay : \A x \in Stay : m <= x
  <2>1. IsFiniteSet(1..Len(log) + 1)
    BY <1>1, FS_Interval
  <2>2. Stay \in SUBSET Nat /\ IsFiniteSet(Stay) /\ Len(log) + 1 \in Stay
    BY <1>1, <2>1, FS_Subset
  <2> HIDE DEF Stay
  <2> QED
    BY <2>2, LeastOfFinite
<1>4. m - 1 \in 0..Len(log)
  BY <1>1, <1>3
<1>5. Parts(m - 1)
  <2> SUFFICES ASSUME NEW k \in 1..Len(log)
               PROVE  k <= m - 1 <=> log[k].age = Window
    OBVIOUS
  <2>1. CASE k <= m - 1
    BY <1>1, <1>3, <2>1
  <2>2. CASE ~(k <= m - 1)
    <3>1. m \in 1..Len(log) /\ m <= k /\ log[m].age # Window
      BY <1>1, <1>3, <2>2
    <3>2. log[k].age <= log[m].age
      BY <3>1, AgesFall
    <3>3. log[k].age \in 0..Window /\ log[m].age \in 0..Window
      BY <1>2, <3>1
    <3> QED
      BY <2>2, <3>1, <3>2, <3>3, WindowAssumption
  <2> QED
    BY <2>1, <2>2
<1>6. \E n \in 0..Len(log) : Parts(n)
  BY <1>4, <1>5
<1>7. Leaving = CHOOSE n \in 0..Len(log) : Parts(n)
  BY DEF Leaving
<1> HIDE DEF Parts
<1>8. Leaving \in 0..Len(log) /\ Parts(Leaving)
  BY <1>6, <1>7
<1> QED
  BY <1>8 DEF Parts

(* A sequence written as a function.                                       *)
LEMMA IsSequence ==
  ASSUME NEW S, NEW n \in Nat, NEW f, f = [k \in 1..n |-> f[k]],
         \A k \in 1..n : f[k] \in S
  PROVE  f \in Seq(S) /\ Len(f) = n
<1>1. f \in [1..n -> S]
  BY Zenon
<1>2. f \in Seq(S)
  BY <1>1
<1>3. DOMAIN f = 1..n
  BY <1>1
<1> QED
  BY <1>2, <1>3

(* Every log a step leaves is one, and what it stores comes from it.       *)
LEMMA IngestLogs ==
  ASSUME WindowTypeOK, NEW kind \in Kinds, NEW recompute \in BOOLEAN,
         Ingest(kind, recompute)
  PROVE  Log(log') /\ Len(log') = Len(log) + 1
<1> DEFINE e == [age |-> 0, kind |-> kind, covered |-> approval = "valid"]
<1>1. log \in Seq(Entry) /\ Len(log) \in Nat /\ Log(log)
  BY LogIsTyped
<1>2. e \in Entry
  <2>1. 0 \in 0..Window
    BY WindowAssumption
  <2> QED
    BY <2>1 DEF Entry
<1>3. log' = Append(log, e)
  BY DEF Ingest
<1> HIDE DEF e
<1>4. log' \in Seq(Entry) /\ Len(log') = Len(log) + 1
  BY <1>1, <1>2, <1>3
<1>5. ASSUME NEW k \in 1..Len(log') - 1 PROVE log'[k].age >= log'[k + 1].age
  <2>1. k \in 1..Len(log) /\ log'[k] = log[k] /\ log[k] \in Entry
    BY <1>1, <1>2, <1>3, <1>4
  <2>2. CASE k = Len(log)
    <3>1. log'[k + 1] = e
      BY <1>1, <1>2, <1>3, <2>2
    <3>2. e.age = 0
      BY DEF e
    <3>3. log[k].age \in 0..Window
      BY <2>1, EntryHas
    <3> QED
      BY <2>1, <3>1, <3>2, <3>3, WindowAssumption
  <2>3. CASE k # Len(log)
    <3>1. k \in 1..Len(log) - 1 /\ k + 1 \in 1..Len(log)
      BY <1>1, <2>1, <2>3
    <3>2. log'[k + 1] = log[k + 1]
      BY <1>1, <1>2, <1>3, <3>1
    <3>3. log[k].age >= log[k + 1].age
      BY <1>1, <3>1 DEF Log
    <3> QED
      BY <2>1, <3>2, <3>3
  <2> QED
    BY <2>2, <2>3
<1> QED
  BY <1>4, <1>5 DEF Log

LEMMA TickLogs ==
  ASSUME WindowTypeOK, Tick
  PROVE  Log(log') /\ Len(log') <= Len(log)
<1> DEFINE n == Len(log) - Leaving
<1>1. log \in Seq(Entry) /\ Len(log) \in Nat /\ Log(log)
  BY LogIsTyped
<1>2. Leaving \in 0..Len(log) /\ \A k \in 1..Len(log) : k <= Leaving <=> log[k].age = Window
  BY <1>1, LeavingFirst
<1>3. n \in Nat /\ n <= Len(log)
  BY <1>1, <1>2
<1>4. log' = [k \in 1..n |-> Aged(log[Leaving + k])]
  BY DEF Tick
<1>5. ASSUME NEW k \in 1..n
      PROVE  /\ log'[k] \in Entry
             /\ Leaving + k \in 1..Len(log)
             /\ log'[k].age = log[Leaving + k].age + 1
  <2>1. Leaving + k \in 1..Len(log) /\ ~(Leaving + k <= Leaving)
    BY <1>1, <1>2
  <2>2. log[Leaving + k] \in Entry /\ log[Leaving + k].age # Window
    BY <1>1, <1>2, <2>1
  <2>3. log[Leaving + k].age + 1 \in 0..Window
    BY <2>2, EntryHas, WindowAssumption
  <2>4. log'[k] = [log[Leaving + k] EXCEPT !.age = log[Leaving + k].age + 1]
    BY <1>4 DEF Aged
  <2> QED
    BY <2>1, <2>2, <2>3, <2>4 DEF Entry
<1>6. log' \in Seq(Entry) /\ Len(log') = n
  <2> HIDE DEF n
  <2>1. log' = [k \in 1..n |-> log'[k]]
    BY <1>4
  <2> QED
    BY <1>3, <1>5, <2>1, IsSequence
<1>7. ASSUME NEW k \in 1..Len(log') - 1 PROVE log'[k].age >= log'[k + 1].age
  <2>1. k \in 1..n /\ k + 1 \in 1..n
    BY <1>3, <1>6
  <2>2. Leaving + (k + 1) = (Leaving + k) + 1 /\ Leaving + k \in 1..Len(log) - 1
    BY <1>1, <1>2, <2>1
  <2>3. log[Leaving + k].age >= log[Leaving + (k + 1)].age
    BY <1>1, <2>2 DEF Log
  <2>4. log[Leaving + k] \in Entry /\ log[Leaving + (k + 1)] \in Entry
    BY <1>1, <1>5, <2>1
  <2>5. log[Leaving + k].age \in 0..Window /\ log[Leaving + (k + 1)].age \in 0..Window
    BY <2>4, EntryHas
  <2>6. /\ log'[k].age = log[Leaving + k].age + 1
        /\ log'[k + 1].age = log[Leaving + (k + 1)].age + 1
    BY <1>5, <2>1
  <2>7. Window \in Nat
    BY WindowAssumption
  <2> QED
    BY <2>3, <2>5, <2>6, <2>7
<1> QED
  BY <1>3, <1>6, <1>7 DEF Log

LEMMA ApproveLogs ==
  ASSUME WindowTypeOK, NEW reach, Approve(reach)
  PROVE  Log(log') /\ Len(log') = Len(log)
<1>1. log \in Seq(Entry) /\ Len(log) \in Nat /\ Log(log)
  BY LogIsTyped
<1>2. log' = [k \in 1..Len(log) |-> [log[k] EXCEPT !.covered = log[k].age < reach]]
  BY DEF Approve
<1>3. ASSUME NEW k \in 1..Len(log)
      PROVE  log'[k] \in Entry /\ log'[k].age = log[k].age
  <2>1. log[k] \in Entry
    BY <1>1
  <2>2. log'[k] = [log[k] EXCEPT !.covered = log[k].age < reach]
    BY <1>2
  <2>3. (log[k].age < reach) \in BOOLEAN
    OBVIOUS
  <2> QED
    BY <2>1, <2>2, <2>3 DEF Entry
<1>4. log' \in Seq(Entry) /\ Len(log') = Len(log)
  <2>1. log' = [k \in 1..Len(log) |-> log'[k]]
    BY <1>2
  <2> QED
    BY <1>1, <1>3, <2>1, IsSequence
<1>5. \A k \in 1..Len(log') - 1 : log'[k].age >= log'[k + 1].age
  <2> SUFFICES ASSUME NEW k \in 1..Len(log') - 1 PROVE log'[k].age >= log'[k + 1].age
    OBVIOUS
  <2>1. k \in 1..Len(log) /\ k + 1 \in 1..Len(log) /\ k \in 1..Len(log) - 1
    BY <1>1, <1>4
  <2> QED
    BY <1>1, <1>3, <2>1 DEF Log
<1> QED
  BY <1>4, <1>5 DEF Log

(* A step either stores what the events and the approval it leaves amount  *)
(* to, or leaves the score and marks it as old.                            *)
LEMMA StepScores ==
  ASSUME WindowTypeOK, WindowNext
  PROVE  /\ Log(log') /\ Len(log') <= events' /\ events' \in 0..MaxEvents
         /\ approval' \in Approval
         /\ \/ fresh' = TRUE /\ stored' = Scored(log', approval')
            \/ fresh' = FALSE /\ stored' = stored
<1>1. /\ Log(log) /\ Len(log) \in Nat /\ Len(log) <= events /\ events \in 0..MaxEvents
      /\ approval \in Approval
  BY LogIsTyped DEF WindowTypeOK
<1>2. ASSUME NEW kind \in Kinds, NEW recompute \in BOOLEAN, Ingest(kind, recompute)
      PROVE  /\ Log(log') /\ Len(log') <= events' /\ events' \in 0..MaxEvents
             /\ approval' \in Approval
             /\ \/ fresh' = TRUE /\ stored' = Scored(log', approval')
                \/ fresh' = FALSE /\ stored' = stored
  <2>1. Log(log') /\ Len(log') = Len(log) + 1
    BY <1>2, IngestLogs
  <2>2. events' = events + 1 /\ events < MaxEvents /\ approval' = approval
    BY <1>2 DEF Ingest
  <2>3. \/ fresh' = TRUE /\ stored' = Scored(log', approval')
        \/ fresh' = FALSE /\ stored' = stored
    BY <1>2 DEF Ingest, Score
  <2>4. MaxEvents \in Nat
    BY WindowAssumption
  <2> QED
    BY <1>1, <2>1, <2>2, <2>3, <2>4
<1>3. ASSUME NEW reach, Approve(reach)
      PROVE  /\ Log(log') /\ Len(log') <= events' /\ events' \in 0..MaxEvents
             /\ approval' \in Approval
             /\ fresh' = TRUE /\ stored' = Scored(log', approval')
  <2>1. Log(log') /\ Len(log') = Len(log)
    BY <1>3, ApproveLogs
  <2>2. events' = events /\ approval' = "valid"
        /\ fresh' = TRUE /\ stored' = Scored(log', "valid")
    BY <1>3 DEF Approve, Score
  <2> QED
    BY <1>1, <2>1, <2>2 DEF Approval
<1>4. CASE Pass
  BY <1>1, <1>4 DEF Pass, Score
<1>5. CASE Tick
  <2>1. Log(log') /\ Len(log') <= Len(log) /\ Len(log') \in Nat
    BY <1>5, TickLogs DEF Log
  <2>2. fresh' = FALSE /\ stored' = stored /\ events' = events /\ approval' = approval
    BY <1>5 DEF Tick
  <2> QED
    BY <1>1, <2>1, <2>2
<1>6. CASE Lapse
  BY <1>1, <1>6 DEF Lapse, Approval
<1>7. CASE Expire
  BY <1>1, <1>7 DEF Expire, Approval
<1>8. CASE Revoke
  BY <1>1, <1>8 DEF Revoke, Score, Approval
<1> QED
  BY <1>2, <1>3, <1>4, <1>5, <1>6, <1>7, <1>8 DEF WindowNext

WindowInv == WindowTypeOK /\ FreshIsScored

LEMMA WindowStart == WindowInit => WindowInv
<1> SUFFICES ASSUME WindowInit PROVE WindowInv
  OBVIOUS
<1>1. log = <<>> /\ approval = "none" /\ stored = Nothing /\ fresh = TRUE /\ events = 0
  BY DEF WindowInit
<1>2. Nothing \in Accumulator
  BY DEF Nothing, Accumulator, Risk, RiskFloor
<1>3. WindowTypeOK
  <2>1. MaxEvents \in Nat
    BY WindowAssumption
  <2> QED
    BY <1>1, <1>2, <2>1 DEF WindowTypeOK, Approval
<1>4. FreshIsScored
  <2>1. Len(log) = 0
    BY <1>1
  <2>2. Course(Read(log, approval), 0)[0] = Nothing
    BY CourseRuns
  <2>3. Scored(log, approval) = Nothing
    BY <2>1, <2>2 DEF Scored
  <2> QED
    BY <1>1, <2>3 DEF FreshIsScored
<1> QED
  BY <1>3, <1>4 DEF WindowInv

LEMMA WindowStep == WindowInv /\ [WindowNext]_windowVars => WindowInv'
<1> SUFFICES ASSUME WindowInv, [WindowNext]_windowVars PROVE WindowInv'
  OBVIOUS
<1>1. CASE UNCHANGED windowVars
  BY <1>1 DEF WindowInv, WindowTypeOK, FreshIsScored, windowVars
<1>2. CASE WindowNext
  <2>1. /\ Log(log') /\ Len(log') <= events' /\ events' \in 0..MaxEvents
        /\ approval' \in Approval
        /\ \/ fresh' = TRUE /\ stored' = Scored(log', approval')
           \/ fresh' = FALSE /\ stored' = stored
    BY <1>2, StepScores DEF WindowInv
  <2>2. stored' \in Accumulator /\ fresh' \in BOOLEAN
    <3>1. Scored(log', approval') \in Accumulator
      BY <2>1, ScoredSound
    <3>2. stored \in Accumulator
      BY DEF WindowInv, WindowTypeOK
    <3> QED
      BY <2>1, <3>1, <3>2
  <2>3. WindowTypeOK'
    BY <2>1, <2>2 DEF WindowTypeOK, Log
  <2>4. FreshIsScored'
    BY <2>1 DEF FreshIsScored
  <2> QED
    BY <2>3, <2>4 DEF WindowInv
<1> QED
  BY <1>1, <1>2

(* The stored score stays within its bounds, and the log in order, while   *)
(* events age, leave the window and come, for any window.                  *)
THEOREM StoredIsTyped == WindowSpec => []WindowTypeOK
<1>1. WindowInv => WindowTypeOK
  BY DEF WindowInv
<1> QED
  BY <1>1, WindowStart, WindowStep, PTL DEF WindowSpec

(* An approval that has ended or been revoked protects nothing in a fresh  *)
(* score, whatever it covered when the events happened: every way to stop  *)
(* an approval either scores at once or leaves the score marked as old.    *)
THEOREM InactiveApprovalsDampNothing == WindowSpec => []InactiveProtectsNothing
<1>1. WindowInv => InactiveProtectsNothing
  <2> SUFFICES ASSUME WindowInv, fresh, approval \in {"expired", "revoked"}
               PROVE  stored.risk = stored.rawRisk
    BY DEF InactiveProtectsNothing
  <2>1. Len(log) \in Nat
    BY LogIsTyped DEF WindowInv
  <2>2. Scored(log, approval).risk = Scored(log, approval).rawRisk
    BY <2>1, InactiveDampsNothing
  <2> QED
    BY <2>2 DEF WindowInv, FreshIsScored
<1> QED
  BY <1>1, WindowStart, WindowStep, PTL DEF WindowSpec

(* A fresh score is a result that the alert modules allow for the kinds of *)
(* events in the window and for what approval is active: what they check   *)
(* and prove from AlertTable!Correlate holds of the scores that are really *)
(* stored.                                                                 *)
THEOREM StoredKeepsPromise == WindowSpec => []StoredAsPromised
<1>1. WindowInv => StoredAsPromised
  <2> DEFINE approved == approval \in {"valid", "lapsed"}
  <2> SUFFICES ASSUME WindowInv, fresh
               PROVE  [risk |-> stored.risk, tamper |-> stored.tamper, damped |-> stored.damped]
                        \in Desk!Correlate(KindsInWindow, approved)
    BY DEF StoredAsPromised
  <2>1. Log(log) /\ Len(log) \in Nat
    BY LogIsTyped DEF WindowInv
  <2>2. stored = Scored(log, approval)
    BY DEF WindowInv, FreshIsScored
  <2>3. /\ stored \in Accumulator
        /\ stored.tamper <=> \E k \in 1..Len(log) : log[k].kind.tamper
        /\ stored.damped => /\ approved
                            /\ \E k \in 1..Len(log) : ~log[k].kind.tamper
        /\ Len(log) = 0 => stored.risk = RiskFloor
    BY <2>1, <2>2, ScoredSound
  <2>4. stored.risk \in Risk /\ stored.tamper \in BOOLEAN /\ stored.damped \in BOOLEAN
    BY <2>3 DEF Accumulator
  <2>5. /\ "tamper" \in KindsInWindow <=> \E k \in 1..Len(log) : log[k].kind.tamper
        /\ "ordinary" \in KindsInWindow <=> \E k \in 1..Len(log) : ~log[k].kind.tamper
    BY DEF KindsInWindow
  <2>6. KindsInWindow = {} => Len(log) = 0
    <3> SUFFICES ASSUME Len(log) # 0 PROVE KindsInWindow # {}
      OBVIOUS
    <3>1. 1 \in 1..Len(log)
      BY <2>1
    <3> QED
      BY <3>1 DEF KindsInWindow
  <2>7. /\ stored.tamper <=> "tamper" \in KindsInWindow
        /\ stored.damped => approved /\ "ordinary" \in KindsInWindow
        /\ KindsInWindow = {} => stored.risk = RiskFloor
    BY <2>3, <2>5, <2>6, Zenon
  <2> HIDE DEF approved
  <2> QED
    BY <2>4, <2>7 DEF Desk!Correlate, Desk!Result
<1> QED
  BY <1>1, WindowStart, WindowStep, PTL DEF WindowSpec
-----------------------------------------------------------------------------
(* The investigation of one identity.  A report is always what the next    *)
(* scoring of the present events, habits, rules and approvals finds.       *)
ReportIsCurrent == report = Report(window, baseline, rules, approvals)

LEMMA LoadReports ==
  ASSUME NEW ruleset, NEW records, Load(ruleset, records)
  PROVE  ReportIsCurrent'
<1>1. /\ report' = Report(window, baseline, ruleset, records)
      /\ rules' = ruleset /\ approvals' = records
      /\ window' = window /\ baseline' = baseline
  BY DEF Load
<1> QED
  BY <1>1 DEF ReportIsCurrent

LEMMA ScoringReports ==
  ASSUME NEW history, ScoredWith(history)
  PROVE  ReportIsCurrent'
BY DEF ScoredWith, ReportIsCurrent

(* An edit of rules or approvals leaves events and habits alone.           *)
LEMMA EditsLoad ==
  ASSUME NEW a, NEW r, NEW w,
         \/ CreateContext(a) \/ RevokeContext(a)
         \/ CreateRule(r) \/ SwitchRule(r) \/ DeleteRule(r)
         \/ RewriteRule(r, w.conditions)
  PROVE  \E ruleset, records : Load(ruleset, records)
<1>1. CASE CreateContext(a)
  BY <1>1, Zenon DEF CreateContext
<1>2. CASE RevokeContext(a)
  BY <1>2, Zenon DEF RevokeContext
<1>3. CASE CreateRule(r)
  BY <1>3, Zenon DEF CreateRule
<1>4. CASE SwitchRule(r)
  BY <1>4, Zenon DEF SwitchRule
<1>5. CASE DeleteRule(r)
  BY <1>5, Zenon DEF DeleteRule
<1>6. CASE RewriteRule(r, w.conditions)
  BY <1>6, Zenon DEF RewriteRule
<1> QED
  BY <1>1, <1>2, <1>3, <1>4, <1>5, <1>6

(* Each step scores the events with one more, learns, or edits.            *)
LEMMA BenchCases ==
  ASSUME BenchNext
  PROVE  \/ \E form \in Forms, t \in Instants : IngestEvent(form, t)
         \/ Learn
         \/ \E ruleset, records : Load(ruleset, records)
<1>1. CASE \E a \in Grants : CreateContext(a) \/ RevokeContext(a)
  <2>1. PICK a \in Grants : CreateContext(a) \/ RevokeContext(a)
    BY <1>1
  <2> QED
    BY <2>1, EditsLoad
<1>2. CASE \E r \in WrittenRules : CreateRule(r)
  <2>1. PICK r \in WrittenRules : CreateRule(r)
    BY <1>2
  <2> QED
    BY <2>1, EditsLoad
<1>3. CASE \E r \in rules :
             \/ SwitchRule(r) \/ DeleteRule(r)
             \/ \E w \in WrittenRules : RewriteRule(r, w.conditions)
  <2>1. PICK r \in rules :
             \/ SwitchRule(r) \/ DeleteRule(r)
             \/ \E w \in WrittenRules : RewriteRule(r, w.conditions)
    BY <1>3
  <2>2. CASE SwitchRule(r) \/ DeleteRule(r)
    BY <2>2, EditsLoad
  <2>3. CASE \E w \in WrittenRules : RewriteRule(r, w.conditions)
    <3>1. PICK w \in WrittenRules : RewriteRule(r, w.conditions)
      BY <2>3
    <3> QED
      BY <3>1, EditsLoad
  <2> QED
    BY <2>1, <2>2, <2>3
<1> QED
  BY <1>1, <1>2, <1>3 DEF BenchNext

LEMMA ReportStays ==
  ASSUME ReportIsCurrent, [BenchNext]_benchVars
  PROVE  ReportIsCurrent'
<1>1. CASE UNCHANGED benchVars
  BY <1>1 DEF benchVars, ReportIsCurrent
<1>2. ASSUME NEW form \in Forms, NEW t \in Instants, IngestEvent(form, t)
      PROVE  ReportIsCurrent'
  BY <1>2, ScoringReports, Zenon DEF IngestEvent
<1>3. ASSUME Learn PROVE ReportIsCurrent'
  BY <1>3, ScoringReports DEF Learn
<1>4. ASSUME NEW ruleset, NEW records, Load(ruleset, records) PROVE ReportIsCurrent'
  BY <1>4, LoadReports
<1> QED
  BY <1>1, <1>2, <1>3, <1>4, BenchCases

LEMMA ReportsAreCurrent == BenchSpec => []ReportIsCurrent
<1>1. BenchInit => ReportIsCurrent
  BY DEF BenchInit, ReportIsCurrent
<1>2. ReportIsCurrent /\ [BenchNext]_benchVars => ReportIsCurrent'
  BY ReportStays
<1> QED
  BY <1>1, <1>2, PTL DEF BenchSpec

(* What an investigation says of a scored window, whatever was scored.     *)
LEMMA FirstIntent == Classify({"is_malicious"}) = "is_malicious"
<1> DEFINE matching == {k \in DOMAIN Intents : Intents[k] \in {"is_malicious"}}
<1>1. matching = {4}
  BY DEF Intents
<1>2. Min(matching) = 4
  BY <1>1 DEF Min
<1>3. Intents[4] = "is_malicious"
  BY DEF Intents
<1> QED
  BY <1>1, <1>2, <1>3 DEF Classify

LEMMA SaidIsStance ==
  ASSUME NEW x, NEW b
  PROVE  Answer({"is_malicious"}, x, b).says = Stance(x.verdict)
BY FirstIntent DEF Answer

LEMMA StatesByRisk ==
  ASSUME NEW risk \in Int
  PROVE  /\ State(risk) = "CRITICAL_TRANSITION" <=> risk >= Critical
         /\ State(risk) \in {"CRITICAL_TRANSITION", "ESCALATING", "EARLY_DRIFT", "STABLE"}
BY ScoringAssumption DEF State

(* Verdict and actions are read off the same fields, but the verdict looks *)
(* at a fixed bound of 30 and the actions at the threshold.                *)
LEMMA VerdictMeetsActions ==
  ASSUME NEW result, result.risk \in Int, result.state = State(result.risk), Critical >= 30
  PROVE  LET said == Stance(Verdict(result))
             advised == {a[1] : a \in RecommendedActions(result)}
         IN  /\ said \in {"most likely benign", "probably benign", "no indication"}
                  => {"QUARANTINE_SESSION", "REVOKE_TOKENS", "ESCALATE"} \cap advised = {}
             /\ said = "most likely benign" => ~result.tamper /\ "RE_BASELINE" \in advised
             /\ said = "malicious until disproven" => {"QUARANTINE_SESSION", "ESCALATE"} \subseteq advised
<1> DEFINE verdict == Verdict(result)
           said == Stance(verdict)
           actions == RecommendedActions(result)
           advised == {a[1] : a \in actions}
           damping == When(result.damped /\ ~result.tamper, {<<"RE_BASELINE", "LOW">>})
<1>1. result.state \in {"CRITICAL_TRANSITION", "ESCALATING", "EARLY_DRIFT", "STABLE"}
  BY StatesByRisk
<1>2. CASE result.tamper
  <2>1. verdict = "ANTI_TAMPER_OVERRIDE"
    BY <1>2 DEF Verdict
  <2>2. said = "malicious until disproven"
    BY <2>1 DEF Stance
  <2>3. {<<"QUARANTINE_SESSION", "IMMEDIATE">>, <<"REVOKE_TOKENS", "IMMEDIATE">>,
          <<"ESCALATE", "IMMEDIATE">>} \subseteq actions
    BY <1>2 DEF RecommendedActions
  <2>4. {"QUARANTINE_SESSION", "ESCALATE"} \subseteq advised
    BY <2>3
  <2> QED
    BY <2>2, <2>4
<1>3. CASE ~result.tamper /\ result.damped /\ result.risk < 30
  <2>1. verdict = "SUPPRESSED_BY_CONTEXT"
    BY <1>3 DEF Verdict
  <2>2. said = "most likely benign"
    BY <2>1 DEF Stance
  <2>3. result.state # "CRITICAL_TRANSITION"
    BY <1>3, StatesByRisk, ScoringAssumption
  <2>4. damping = {<<"RE_BASELINE", "LOW">>}
    BY <1>3 DEF When
  <2>5. /\ actions \subseteq damping \cup
               {<<"STEP_UP_MFA", "HIGH">>, <<"OPEN_TICKET", "HIGH">>,
                <<"NOTIFY_MANAGER", "MEDIUM">>, <<"ADD_CONTEXT_EXEMPTION", "LOW">>}
        /\ damping \subseteq actions
    BY <1>1, <1>3, <2>3 DEF RecommendedActions
  <2>6. "RE_BASELINE" \in advised
    <3>1. <<"RE_BASELINE", "LOW">> \in actions
      BY <2>4, <2>5
    <3> HIDE DEF actions
    <3> QED
      BY <3>1
  <2>7. advised \subseteq {"RE_BASELINE", "STEP_UP_MFA", "OPEN_TICKET", "NOTIFY_MANAGER", "ADD_CONTEXT_EXEMPTION"}
    BY <2>4, <2>5
  <2> QED
    BY <1>3, <2>2, <2>6, <2>7
<1>4. CASE ~result.tamper /\ ~(result.damped /\ result.risk < 30)
  <2>1. verdict = CASE result.state = "CRITICAL_TRANSITION" -> "CONTAINMENT_RECOMMENDED"
                    [] result.state = "ESCALATING" -> "INVESTIGATE_NOW"
                    [] result.state = "EARLY_DRIFT" -> "MONITOR"
                    [] result.state = "STABLE" -> "NO_ACTION"
    BY <1>4 DEF Verdict
  <2>2. CASE result.state \in {"CRITICAL_TRANSITION", "ESCALATING"}
    <3>1. said \in {"likely a threat", "unresolved"}
      BY <2>1, <2>2 DEF Stance
    <3> QED
      BY <3>1
  <2>3. CASE result.state \in {"EARLY_DRIFT", "STABLE"}
    <3>1. said \in {"probably benign", "no indication"}
      BY <2>1, <2>3 DEF Stance
    <3>2. actions \subseteq {<<"RE_BASELINE", "LOW">>, <<"NOTIFY_MANAGER", "MEDIUM">>,
                              <<"ADD_CONTEXT_EXEMPTION", "LOW">>}
      BY <1>4, <2>3 DEF RecommendedActions, When
    <3>3. advised \subseteq {"RE_BASELINE", "NOTIFY_MANAGER", "ADD_CONTEXT_EXEMPTION"}
      BY <3>2
    <3> QED
      BY <3>1, <3>3
  <2> QED
    BY <1>1, <2>2, <2>3
<1> QED
  BY <1>2, <1>3, <1>4

(* The fields of a report that the advice is made from.                    *)
LEMMA ReportHas ==
  ASSUME NEW history, NEW habits, NEW ruleset, NEW records
  PROVE  LET r == Report(history, habits, ruleset, records)
         IN  /\ r.result.state = State(r.result.risk)
             /\ r.explanation.verdict = Verdict(r.result)
             /\ r.explanation.actions = RecommendedActions(r.result)
             /\ r.blast.touched = Touched(history)
             /\ r.blast.exposure = Exposure(history, Touched(history))
             /\ r.blast.impacts = Compliance(Touched(history), Who.privileged)
             /\ r.result.scored = Trajectory(history, Given(habits, ruleset, records))[Len(history)].scored
<1> DEFINE given == Given(habits, ruleset, records)
           s == Trajectory(history, given)[Len(history)]
           result == Correlate(history, given)
           r == Report(history, habits, ruleset, records)
<1>1. result = Summary(s)
  BY DEF Correlate
<1>2. given.who = Who
  BY DEF Given
<1>3. r = Explained(history, given, result)
  BY DEF Report, Investigate
<1> HIDE DEF given, s, result, r
<1>4. result.state = State(result.risk) /\ result.scored = s.scored
  BY <1>1 DEF Summary
<1>5. /\ r.result = result /\ r.explanation = Explain(result, given)
      /\ r.blast = BlastRadius(history, result.risk, given.who.privileged)
  BY <1>3 DEF Explained
<1>6. Explain(result, given).verdict = Verdict(result)
      /\ Explain(result, given).actions = RecommendedActions(result)
  BY DEF Explain
<1>7. LET b == BlastRadius(history, result.risk, Who.privileged)
      IN  /\ b.touched = Touched(history)
          /\ b.exposure = Exposure(history, Touched(history))
          /\ b.impacts = Compliance(Touched(history), Who.privileged)
  BY DEF BlastRadius
<1> QED
  BY <1>2, <1>4, <1>5, <1>6, <1>7 DEF r, s, given

-----------------------------------------------------------------------------
(* The loop of correlate computes what it says, as that of the window does.*)
IsTrajectory(f, history, given, n) ==
  f = [k \in 0..n |-> IF k = 0 THEN Unscored ELSE ScoreOnce(f[k - 1], history[k], given)]

LEMMA TrajectoryExists ==
  ASSUME NEW history, NEW given, NEW n \in Nat
  PROVE  \E f : IsTrajectory(f, history, given, n)
<1> DEFINE Good == {m \in 0..n : \E f : IsTrajectory(f, history, given, m)}
<1>1. 0 \in Good
  <2> DEFINE f == [k \in 0..0 |-> Unscored]
  <2>1. f = [k \in 0..0 |-> IF k = 0 THEN Unscored ELSE ScoreOnce(f[k - 1], history[k], given)]
    OBVIOUS
  <2>2. IsTrajectory(f, history, given, 0)
    BY <2>1 DEF IsTrajectory
  <2> HIDE DEF f
  <2> QED
    BY <2>2
<1>2. ASSUME NEW m \in 1..n, m - 1 \in Good PROVE m \in Good
  <2>1. PICK f : IsTrajectory(f, history, given, m - 1)
    BY <1>2
  <2> DEFINE g == [k \in 0..m |-> IF k = m THEN ScoreOnce(f[m - 1], history[m], given) ELSE f[k]]
             next(h, k) == IF k = 0 THEN Unscored ELSE ScoreOnce(h[k - 1], history[k], given)
  <2>2. \A k \in 0..m - 1 : f[k] = next(f, k)
    BY <2>1 DEF IsTrajectory
  <2>3. \A k \in 0..m : g[k] = next(g, k)
    <3> SUFFICES ASSUME NEW k \in 0..m PROVE g[k] = next(g, k)
      OBVIOUS
    <3>1. CASE k = m
      BY <1>2, <3>1
    <3>2. CASE k # m
      <4>1. k \in 0..m - 1 /\ (k # 0 => k - 1 \in 0..m /\ k - 1 # m)
        BY <3>2
      <4> QED
        BY <2>2, <3>2, <4>1
    <3> QED
      BY <3>1, <3>2
  <2>4. IsTrajectory(g, history, given, m)
    <3>1. g = [k \in 0..m |-> g[k]]
      OBVIOUS
    <3> HIDE DEF g
    <3> QED
      BY <2>3, <3>1 DEF IsTrajectory
  <2> QED
    BY <1>2, <2>4
<1>3. 0..n \subseteq Good
  <2> HIDE DEF Good
  <2> QED
    BY <1>1, <1>2, HandedOn
<1> QED
  BY <1>3

LEMMA TrajectoryRuns ==
  ASSUME NEW history, NEW given, Len(history) \in Nat
  PROVE  LET t == Trajectory(history, given)
         IN  /\ t[0] = Unscored
             /\ \A k \in 1..Len(history) : t[k] = ScoreNext(t[k - 1], history[k], given)
<1> DEFINE n == Len(history)
           t == Trajectory(history, given)
<1>1. t = CHOOSE f : IsTrajectory(f, history, given, n)
  BY DEF Trajectory, IsTrajectory
<1>2. IsTrajectory(t, history, given, n)
  BY <1>1, TrajectoryExists
<1> HIDE DEF t
<1>3. \A k \in 0..n : t[k] = IF k = 0 THEN Unscored ELSE ScoreOnce(t[k - 1], history[k], given)
  BY <1>2 DEF IsTrajectory
<1>4. t[0] = Unscored
  BY <1>3
<1>5. \A k \in 1..n : t[k] = ScoreOnce(t[k - 1], history[k], given)
  BY <1>3
<1>6. \A s, e : ScoreOnce(s, e, given) = ScoreNext(s, e, given)
  BY DEF ScoreOnce
<1> QED
  BY <1>4, <1>5, <1>6 DEF t

(* What the loop makes of an event, after what came before it.             *)
Judged(s, e, given) == Judge(s, e, given, VectorsNext(s, e, given))

(* The body of the loop adds one scored event at the end, and leaves those *)
(* before as they are.                                                     *)
LEMMA ScoreAppends ==
  ASSUME NEW s, NEW e, NEW given
  PROVE  LET t == ScoreNext(s, e, given)
         IN  /\ t.scored = Append(s.scored, ScoredAs(e, Judged(s, e, given), t.acc))
             /\ t.located = IF e.place = Nowhere THEN s.located ELSE <<e>>
<1>1. ASSUME NEW judged
      PROVE  LET t == Join(s, e, judged)
             IN  /\ t.scored = Append(s.scored, ScoredAs(e, judged, t.acc))
                 /\ t.located = IF e.place = Nowhere THEN s.located ELSE <<e>>
  BY DEF Join
<1> QED
  BY <1>1 DEF ScoreNext, Judged

(* What one event was scored as, the rest of the loop does not touch.      *)
LEMMA ScoredAtOwnTurn ==
  ASSUME NEW history, NEW given, Len(history) \in Nat
  PROVE  LET t == Trajectory(history, given)
             n == Len(history)
         IN  /\ \A k \in 0..n : /\ Len(t[k].scored) = k
                               /\ DOMAIN t[k].scored = 1..k
                               /\ \A j \in 1..k : t[k].scored[j] = t[j].scored[j]
             /\ \A k \in 1..n :
                  t[k].scored[k] = ScoredAs(history[k], Judged(t[k - 1], history[k], given), t[k].acc)
<1> DEFINE t == Trajectory(history, given)
           n == Len(history)
           Own(k) == ScoredAs(history[k], Judged(t[k - 1], history[k], given), t[k].acc)
           Scorings == {Own(k) : k \in 1..n}
           Good == {k \in 0..n : /\ t[k].scored \in Seq(Scorings)
                                 /\ Len(t[k].scored) = k
                                 /\ \A j \in 1..k : t[k].scored[j] = Own(j)}
<1>1. t[0] = Unscored /\ \A k \in 1..n : t[k] = ScoreNext(t[k - 1], history[k], given)
  BY TrajectoryRuns
<1> HIDE DEF t
<1>2. 0 \in Good
  <2>1. t[0].scored = <<>>
    BY <1>1 DEF Unscored
  <2>2. t[0].scored \in Seq(Scorings) /\ Len(t[0].scored) = 0
    <3> HIDE DEF Scorings
    <3> QED
      BY <2>1
  <2> HIDE DEF Scorings
  <2> QED
    BY <2>2
<1>3. ASSUME NEW k \in 1..n, k - 1 \in Good PROVE k \in Good
  <2> DEFINE before == t[k - 1].scored
             x == Own(k)
  <2>1. t[k].scored = Append(before, x)
    <3>1. t[k] = ScoreNext(t[k - 1], history[k], given)
      BY <1>1
    <3>2. \A s, e : LET u == ScoreNext(s, e, given)
                   IN  u.scored = Append(s.scored, ScoredAs(e, Judged(s, e, given), u.acc))
      BY ScoreAppends
    <3> QED
      BY <3>1, <3>2, Zenon
  <2>2. before \in Seq(Scorings) /\ Len(before) = k - 1
        /\ \A j \in 1..k - 1 : before[j] = Own(j)
    BY <1>3
  <2>3. x \in Scorings
    OBVIOUS
  <2> HIDE DEF before, x, Scorings
  <2>4. /\ t[k].scored \in Seq(Scorings)
        /\ Len(t[k].scored) = k
        /\ t[k].scored[k] = x
        /\ \A j \in 1..k - 1 : t[k].scored[j] = before[j]
    <3> HIDE DEF Own
    <3> QED
      BY <2>1, <2>2, <2>3
  <2>5. \A j \in 1..k : t[k].scored[j] = Own(j)
    <3>1. x = Own(k)
      BY DEF x
    <3> HIDE DEF Own
    <3> QED
      BY <2>2, <2>4, <3>1
  <2> QED
    BY <2>4, <2>5
<1>4. 0..n \subseteq Good
  <2> HIDE DEF Good
  <2> QED
    BY <1>2, <1>3, HandedOn
<1>5. \A k \in 0..n : /\ t[k].scored \in Seq(Scorings) /\ Len(t[k].scored) = k
                      /\ \A j \in 1..k : t[k].scored[j] = Own(j)
  <2> HIDE DEF Scorings, Own
  <2> QED
    BY <1>4
<1>6. \A k \in 0..n : DOMAIN t[k].scored = 1..k
  <2> HIDE DEF Scorings, Own
  <2> QED
    BY <1>5
<1>7. \A k \in 1..n : t[k].scored[k] = Own(k)
  <2> HIDE DEF Scorings, Own
  <2> QED
    BY <1>5
<1>8. \A k \in 0..n : \A j \in 1..k : t[k].scored[j] = t[j].scored[j]
  <2> HIDE DEF Scorings, Own
  <2> QED
    BY <1>5, <1>7
<1> QED
  BY <1>5, <1>6, <1>7, <1>8 DEF t

(* Later is a sequence that goes on where earlier ends.                    *)
Continues(earlier, later) ==
  /\ Len(earlier) \in Nat /\ Len(later) \in Nat /\ Len(earlier) <= Len(later)
  /\ DOMAIN earlier = 1..Len(earlier) /\ DOMAIN later = 1..Len(later)
  /\ \A k \in 1..Len(earlier) : later[k] = earlier[k]

(* Events that come later change no score, verdict on tampering or rule    *)
(* of an event before them.                                                *)
LEMMA ScoresStand ==
  ASSUME NEW earlier, NEW later, Continues(earlier, later), NEW given
  PROVE  LET was == Trajectory(earlier, given)[Len(earlier)].scored
             is == Trajectory(later, given)[Len(later)].scored
         IN  /\ DOMAIN was = 1..Len(earlier) /\ DOMAIN is = 1..Len(later)
             /\ \A k \in 1..Len(earlier) : is[k] = was[k]
<1> DEFINE a == Trajectory(earlier, given)
           b == Trajectory(later, given)
           n == Len(earlier)
           Good == {k \in 0..n : a[k] = b[k]}
<1>1. /\ a[0] = Unscored /\ \A k \in 1..n : a[k] = ScoreNext(a[k - 1], earlier[k], given)
      /\ b[0] = Unscored /\ \A k \in 1..Len(later) : b[k] = ScoreNext(b[k - 1], later[k], given)
  BY TrajectoryRuns DEF Continues
<1>2. /\ DOMAIN a[n].scored = 1..n /\ \A k \in 1..n : a[n].scored[k] = a[k].scored[k]
      /\ DOMAIN b[Len(later)].scored = 1..Len(later)
      /\ \A k \in 1..Len(later) : b[Len(later)].scored[k] = b[k].scored[k]
  BY ScoredAtOwnTurn DEF Continues
<1> HIDE DEF a, b
<1>3. 0 \in Good
  BY <1>1 DEF Continues
<1>4. ASSUME NEW k \in 1..n, k - 1 \in Good PROVE k \in Good
  <2>1. k \in 1..Len(later) /\ later[k] = earlier[k]
    BY DEF Continues
  <2>2. a[k - 1] = b[k - 1]
    BY <1>4
  <2> QED
    BY <1>1, <2>1, <2>2
<1>5. \A k \in 1..n : a[k] = b[k]
  <2>1. 0..n \subseteq Good
    <3> HIDE DEF Good
    <3> QED
      BY <1>3, <1>4, HandedOn DEF Continues
  <2> QED
    BY <2>1
<1>6. \A k \in 1..n : k \in 1..Len(later)
  BY DEF Continues
<1> QED
  BY <1>2, <1>5, <1>6 DEF a, b

(* The first event on a resource is the first one also later.              *)
LEMMA FirstIsLeast ==
  ASSUME NEW history, Len(history) \in Nat, DOMAIN history = 1..Len(history),
         NEW k \in 1..Len(history)
  PROVE  LET r == history[k].resource
             f == FirstOn(history, r)
         IN  /\ f \in 1..Len(history) /\ history[f].resource = r
             /\ \A j \in 1..Len(history) : history[j].resource = r => f <= j
<1> DEFINE r == history[k].resource
           On == {j \in 1..Len(history) : history[j].resource = r}
<1>1. On \in SUBSET Nat /\ IsFiniteSet(On) /\ On # {}
  <2>1. IsFiniteSet(1..Len(history))
    BY FS_Interval
  <2>2. On \subseteq 1..Len(history) /\ k \in On
    OBVIOUS
  <2> QED
    BY <2>1, <2>2, FS_Subset
<1>2. PICK m \in On : \A j \in On : m <= j
  <2> HIDE DEF On
  <2> QED
    BY <1>1, LeastOfFinite
<1>3. \E f \in DOMAIN history :
        history[f].resource = r /\ \A j \in DOMAIN history : history[j].resource = r => f <= j
  BY <1>2
<1> HIDE DEF r
<1> QED
  BY <1>3 DEF FirstOn, r

LEMMA FirstStands ==
  ASSUME NEW earlier, NEW later, Continues(earlier, later), NEW k \in 1..Len(earlier)
  PROVE  FirstOn(later, earlier[k].resource) = FirstOn(earlier, earlier[k].resource)
<1> DEFINE r == earlier[k].resource
           f == FirstOn(earlier, r)
           g == FirstOn(later, r)
<1>1. k \in 1..Len(later) /\ later[k].resource = r
  BY DEF Continues
<1>2. /\ f \in 1..Len(earlier) /\ earlier[f].resource = r
      /\ \A j \in 1..Len(earlier) : earlier[j].resource = r => f <= j
  BY FirstIsLeast DEF Continues
<1>3. /\ g \in 1..Len(later) /\ later[g].resource = r
      /\ \A j \in 1..Len(later) : later[j].resource = r => g <= j
  BY <1>1, FirstIsLeast DEF Continues
<1> HIDE DEF f, g, r
<1>4. f \in 1..Len(later) /\ later[f].resource = r
  BY <1>2 DEF Continues
<1>5. g <= f
  BY <1>3, <1>4
<1>6. g \in 1..Len(earlier) /\ earlier[g].resource = r
  BY <1>2, <1>3, <1>5 DEF Continues
<1>7. f <= g
  BY <1>2, <1>6
<1> QED
  BY <1>2, <1>3, <1>5, <1>7 DEF f, g, r

(* What was touched is touched, and is taken for what it was.              *)
LEMMA TouchedStands ==
  ASSUME NEW earlier, NEW later, Continues(earlier, later)
  PROVE  /\ DOMAIN Touched(earlier) \subseteq DOMAIN Touched(later)
         /\ \A r \in DOMAIN Touched(earlier) : Touched(later)[r] = Touched(earlier)[r]
<1>1. DOMAIN Touched(earlier) = {earlier[k].resource : k \in DOMAIN earlier}
      /\ DOMAIN Touched(later) = {later[k].resource : k \in DOMAIN later}
  BY DEF Touched
<1>2. ASSUME NEW k \in 1..Len(earlier)
      PROVE  /\ earlier[k].resource \in DOMAIN Touched(later)
             /\ Touched(later)[earlier[k].resource] = Touched(earlier)[earlier[k].resource]
  <2> DEFINE r == earlier[k].resource
  <2>1. k \in DOMAIN later /\ later[k].resource = r /\ k \in DOMAIN earlier
    BY DEF Continues
  <2>2. r \in DOMAIN Touched(earlier) /\ r \in DOMAIN Touched(later)
    BY <1>1, <2>1
  <2>3. FirstOn(later, r) = FirstOn(earlier, r)
    BY FirstStands
  <2>4. later[FirstOn(later, r)] = earlier[FirstOn(earlier, r)]
    <3>1. FirstOn(earlier, r) \in 1..Len(earlier)
      BY FirstIsLeast DEF Continues
    <3> HIDE DEF r
    <3> QED
      BY <2>3, <3>1 DEF Continues
  <2> HIDE DEF r
  <2>5. Touched(later)[r] = Touched(earlier)[r]
    BY <1>1, <2>2, <2>4 DEF Touched
  <2> QED
    BY <2>2, <2>5 DEF r
<1> QED
  BY <1>1, <1>2 DEF Continues

(* Sums over what is touched, one event at a time.                         *)
IsSums(f, history, amount, n) ==
  f = [k \in 0..n |-> IF k = 0 THEN 0 ELSE f[k - 1] + Added(history, amount, k)]

LEMMA SumsExist ==
  ASSUME NEW history, NEW amount, NEW n \in Nat
  PROVE  \E f : IsSums(f, history, amount, n)
<1> DEFINE Good == {m \in 0..n : \E f : IsSums(f, history, amount, m)}
<1>1. 0 \in Good
  <2> DEFINE f == [k \in 0..0 |-> 0]
  <2>1. f = [k \in 0..0 |-> IF k = 0 THEN 0 ELSE f[k - 1] + Added(history, amount, k)]
    OBVIOUS
  <2>2. IsSums(f, history, amount, 0)
    BY <2>1 DEF IsSums
  <2> HIDE DEF f
  <2> QED
    BY <2>2
<1>2. ASSUME NEW m \in 1..n, m - 1 \in Good PROVE m \in Good
  <2>1. PICK f : IsSums(f, history, amount, m - 1)
    BY <1>2
  <2> DEFINE g == [k \in 0..m |-> IF k = m THEN f[m - 1] + Added(history, amount, m) ELSE f[k]]
             next(h, k) == IF k = 0 THEN 0 ELSE h[k - 1] + Added(history, amount, k)
  <2>2. \A k \in 0..m - 1 : f[k] = next(f, k)
    BY <2>1 DEF IsSums
  <2>3. \A k \in 0..m : g[k] = next(g, k)
    <3> SUFFICES ASSUME NEW k \in 0..m PROVE g[k] = next(g, k)
      OBVIOUS
    <3>1. CASE k = m
      BY <1>2, <3>1
    <3>2. CASE k # m
      <4>1. k \in 0..m - 1 /\ (k # 0 => k - 1 \in 0..m /\ k - 1 # m)
        BY <3>2
      <4> QED
        BY <2>2, <3>2, <4>1
    <3> QED
      BY <3>1, <3>2
  <2>4. IsSums(g, history, amount, m)
    <3>1. g = [k \in 0..m |-> g[k]]
      OBVIOUS
    <3> HIDE DEF g
    <3> QED
      BY <2>3, <3>1 DEF IsSums
  <2> QED
    BY <1>2, <2>4
<1>3. 0..n \subseteq Good
  <2> HIDE DEF Good
  <2> QED
    BY <1>1, <1>2, HandedOn
<1> QED
  BY <1>3

LEMMA SumsRun ==
  ASSUME NEW history, NEW amount, Len(history) \in Nat
  PROVE  LET s == Sums(history, amount)
         IN  s[0] = 0 /\ \A k \in 1..Len(history) : s[k] = s[k - 1] + Added(history, amount, k)
<1> DEFINE n == Len(history)
           s == Sums(history, amount)
<1>1. s = CHOOSE f : IsSums(f, history, amount, n)
  BY DEF Sums, IsSums
<1>2. IsSums(s, history, amount, n)
  BY <1>1, SumsExist
<1> HIDE DEF s
<1>3. \A k \in 0..n : s[k] = IF k = 0 THEN 0 ELSE s[k - 1] + Added(history, amount, k)
  BY <1>2 DEF IsSums
<1>4. s[0] = 0
  BY <1>3
<1>5. \A k \in 1..n : s[k] = s[k - 1] + Added(history, amount, k)
  BY <1>3
<1> QED
  BY <1>4, <1>5 DEF s

(* The sum of amounts that stay what they were does not fall.              *)
LEMMA SumsGrow ==
  ASSUME NEW earlier, NEW later, Continues(earlier, later), NEW before, NEW after,
         \A k \in 1..Len(later) : after[later[k].resource] \in Nat,
         \A k \in 1..Len(earlier) : after[earlier[k].resource] = before[earlier[k].resource]
  PROVE  SumTouched(later, after) >= SumTouched(earlier, before)
<1> DEFINE n == Len(earlier)
           m == Len(later)
           a == Sums(earlier, before)
           b == Sums(later, after)
           Even(k) == a[k] = b[k] /\ b[k] \in Nat
           Good == {k \in 0..n : Even(k)}
           Grown == {k \in 0..m : k >= n => b[k] \in Nat /\ b[k] >= b[n]}
<1>1. n \in Nat /\ m \in Nat /\ n <= m
  BY DEF Continues
<1>2. /\ a[0] = 0 /\ \A k \in 1..n : a[k] = a[k - 1] + Added(earlier, before, k)
      /\ b[0] = 0 /\ \A k \in 1..m : b[k] = b[k - 1] + Added(later, after, k)
  BY <1>1, SumsRun
<1>3. \A k \in 1..m : Added(later, after, k) \in Nat
  BY DEF Added
<1>4. \A k \in 1..n : Added(later, after, k) = Added(earlier, before, k)
  <2> TAKE k \in 1..n
  <2>1. later[k] = earlier[k]
    BY DEF Continues
  <2>2. FirstOn(later, earlier[k].resource) = FirstOn(earlier, earlier[k].resource)
    BY FirstStands
  <2> QED
    BY <2>1, <2>2 DEF Added
<1> HIDE DEF a, b, n, m
<1>5. 0..n \subseteq Good
  <2>1. 0 \in Good
    BY <1>1, <1>2
  <2>2. ASSUME NEW k \in 1..n, k - 1 \in Good PROVE k \in Good
    <3>1. k \in 1..m /\ k \in 0..n
      BY <1>1
    <3>2. a[k - 1] = b[k - 1] /\ b[k - 1] \in Nat
      BY <2>2
    <3>3. Added(later, after, k) = Added(earlier, before, k) /\ Added(later, after, k) \in Nat
      BY <1>3, <1>4, <3>1
    <3>4. a[k] = a[k - 1] + Added(earlier, before, k) /\ b[k] = b[k - 1] + Added(later, after, k)
      BY <1>2, <3>1
    <3> QED
      BY <3>1, <3>2, <3>3, <3>4
  <2> HIDE DEF Good
  <2> QED
    BY <1>1, <2>1, <2>2, HandedOn
<1>6. a[n] = b[n] /\ b[n] \in Nat
  BY <1>1, <1>5
<1>7. 0..m \subseteq Grown
  <2>1. 0 \in Grown
    BY <1>1, <1>6
  <2>2. ASSUME NEW k \in 1..m, k - 1 \in Grown PROVE k \in Grown
    <3>1. CASE k <= n
      BY <1>1, <1>6, <3>1
    <3>2. CASE k > n
      <4>1. b[k - 1] \in Nat /\ b[k - 1] >= b[n]
        BY <1>1, <2>2, <3>2
      <4>2. b[k] = b[k - 1] + Added(later, after, k) /\ Added(later, after, k) \in Nat
        BY <1>2, <1>3
      <4> QED
        BY <1>6, <4>1, <4>2
    <3> QED
      BY <1>1, <3>1, <3>2
  <2> HIDE DEF Grown
  <2> QED
    BY <1>1, <2>1, <2>2, HandedOn
<1>8. b[m] >= b[n]
  BY <1>1, <1>7
<1> QED
  BY <1>6, <1>8 DEF a, b, n, m, SumTouched

(* What each resource exposes is a count of records times a price.         *)
LEMMA ExposureIsCount ==
  ASSUME NEW history, Len(history) \in Nat, DOMAIN history = 1..Len(history),
         \A k \in 1..Len(history) : history[k].records \in Nat,
         NEW r \in DOMAIN Touched(history)
  PROVE  Touched(history)[r].records * CostPerRecord(Touched(history)[r]) \in Nat
<1> DEFINE a == Touched(history)[r]
<1>1. PICK k \in 1..Len(history) : history[k].resource = r
  BY DEF Touched
<1>2. FirstOn(history, r) \in 1..Len(history)
  BY <1>1, FirstIsLeast
<1>3. a = IF r \in DOMAIN Assets THEN Assets[r] ELSE Infer(history[FirstOn(history, r)])
  BY DEF Touched
<1>4. a.records \in Nat
  <2>1. CASE r \in DOMAIN Assets
    BY <1>3, <2>1, EvidenceAssumption
  <2>2. CASE r \notin DOMAIN Assets
    BY <1>2, <1>3, <2>2 DEF Infer
  <2> QED
    BY <2>1, <2>2
<1> HIDE DEF a
<1>5. CostPerRecord(a) \in Nat
  BY DEF CostPerRecord
<1>6. \A x, y \in Nat : x * y \in Nat
  OBVIOUS
<1> QED
  BY <1>4, <1>5, <1>6 DEF a

(* What is exposed does not shrink.                                        *)
LEMMA ExposureStands ==
  ASSUME NEW earlier, NEW later, Continues(earlier, later),
         \A k \in 1..Len(later) : later[k].records \in Nat
  PROVE  Exposure(later, Touched(later)) >= Exposure(earlier, Touched(earlier))
<1> DEFINE t == Touched(earlier)
           u == Touched(later)
           before == [r \in DOMAIN t |-> t[r].records * CostPerRecord(t[r])]
           after == [r \in DOMAIN u |-> u[r].records * CostPerRecord(u[r])]
<1>1. \A k \in 1..Len(later) : after[later[k].resource] \in Nat
  <2> TAKE k \in 1..Len(later)
  <2>1. later[k].resource \in DOMAIN u
    BY DEF Continues, Touched
  <2>2. u[later[k].resource].records * CostPerRecord(u[later[k].resource]) \in Nat
    BY <2>1, ExposureIsCount DEF Continues
  <2> HIDE DEF u
  <2> QED
    BY <2>1, <2>2
<1>2. \A k \in 1..Len(earlier) : after[earlier[k].resource] = before[earlier[k].resource]
  <2> TAKE k \in 1..Len(earlier)
  <2>1. earlier[k].resource \in DOMAIN t
    BY DEF Continues, Touched
  <2>2. earlier[k].resource \in DOMAIN u /\ u[earlier[k].resource] = t[earlier[k].resource]
    BY <2>1, TouchedStands
  <2> HIDE DEF u, t
  <2> QED
    BY <2>1, <2>2
<1>3. Exposure(later, u) = SumTouched(later, after) /\ Exposure(earlier, t) = SumTouched(earlier, before)
  BY DEF Exposure
<1> HIDE DEF after, before
<1>4. SumTouched(later, after) >= SumTouched(earlier, before)
  BY <1>1, <1>2, SumsGrow
<1> QED
  BY <1>3, <1>4

(* A framework once triggered, or declared by an asset, stays named.       *)
LEMMA FrameworksStand ==
  ASSUME NEW t, NEW u, NEW privileged,
         DOMAIN t \subseteq DOMAIN u, \A r \in DOMAIN t : u[r] = t[r]
  PROVE  {i.framework : i \in Compliance(t, privileged)}
           \subseteq {i.framework : i \in Compliance(u, privileged)}
<1> DEFINE inScope(v, flag) == {r \in DOMAIN v : HasFlag(v[r], flag)}
           triggered(v) == {f \in FrameworkRules :
                              inScope(v, f[2]) # {} \/ (f[2] = "privileged" /\ privileged)}
           declared(v) == UNION {v[r].scopes : r \in DOMAIN v}
           Named(v) == {f[1] : f \in triggered(v)} \cup declared(v)
<1>1. ASSUME NEW v
      PROVE  {i.framework : i \in Compliance(v, privileged)} = Named(v)
  <2> DEFINE Impact(f) == [framework |-> f[1], assets |-> inScope(v, f[2]),
                           severity |-> IF f[2] \in {"card", "phi"} THEN "CRITICAL" ELSE "HIGH"]
             Scope(s) == [framework |-> s, assets |-> {r \in DOMAIN v : s \in v[r].scopes},
                          severity |-> "MEDIUM"]
             Hit == triggered(v)
             Said == declared(v)
  <2>1. Compliance(v, privileged)
          = {Impact(f) : f \in Hit} \cup {Scope(s) : s \in Said \ {f[1] : f \in Hit}}
    BY DEF Compliance
  <2>2. (\A f : Impact(f).framework = f[1]) /\ (\A s : Scope(s).framework = s)
    OBVIOUS
  <2>3. Named(v) = {f[1] : f \in Hit} \cup Said
    OBVIOUS
  <2> HIDE DEF Impact, Scope, Hit, Said, Named
  <2> QED
    BY <2>1, <2>2, <2>3
<1>2. triggered(t) \subseteq triggered(u)
  <2>1. ASSUME NEW flag PROVE inScope(t, flag) \subseteq inScope(u, flag)
    BY DEF HasFlag
  <2> HIDE DEF inScope
  <2> QED
    BY <2>1
<1>3. declared(t) \subseteq declared(u)
  OBVIOUS
<1>4. Named(t) \subseteq Named(u)
  <2> HIDE DEF triggered, declared
  <2> QED
    BY <1>2, <1>3
<1> HIDE DEF Named
<1> QED
  BY <1>1, <1>4
-----------------------------------------------------------------------------
(* The window holds events of the given forms, at the given times.         *)
Observed == {Occurring(form, t) : form \in Forms, t \in Instants}

WindowIsObserved == window \in Seq(Observed)

LEMMA InsertedInOrder ==
  ASSUME NEW S, NEW history \in Seq(S), NEW e \in S
  PROVE  InOrder(history, e) \in Seq(S)
<1> DEFINE Sooner == {k \in DOMAIN history : history[k].at <= e.at}
           n == Len(history)
           c == Cardinality(Sooner)
<1>1. n \in Nat /\ DOMAIN history = 1..n
  OBVIOUS
<1>2. c \in 0..n
  <2>1. IsFiniteSet(1..n) /\ Cardinality(1..n) = n
    BY <1>1, FS_Interval
  <2>2. Sooner \in SUBSET (1..n)
    BY <1>1
  <2> HIDE DEF Sooner
  <2>3. IsFiniteSet(Sooner) /\ Cardinality(Sooner) <= n
    BY <2>1, <2>2, FS_Subset
  <2>4. Cardinality(Sooner) \in Nat
    BY <2>3, FS_CardinalityType
  <2> QED
    BY <1>1, <2>3, <2>4
<1>3. InOrder(history, e) = SubSeq(history, 1, (c + 1) - 1) \o <<e>> \o SubSeq(history, c + 1, n)
  <2>1. InOrder(history, e) = InsertAt(history, c + 1, e)
    BY DEF InOrder
  <2> HIDE DEF c
  <2> QED
    BY <2>1 DEF InsertAt
<1> HIDE DEF c, n
<1>4. SubSeq(history, 1, (c + 1) - 1) \in Seq(S)
  <2>1. \A k \in 1..(c + 1) - 1 : history[k] \in S
    BY <1>1, <1>2
  <2> QED
    BY <1>2, <2>1, SubSeqProperties
<1>5. SubSeq(history, c + 1, n) \in Seq(S)
  <2>1. \A k \in c + 1..n : history[k] \in S
    BY <1>1, <1>2
  <2> QED
    BY <1>1, <1>2, <2>1, SubSeqProperties
<1>6. <<e>> \in Seq(S)
  OBVIOUS
<1>7. SubSeq(history, 1, (c + 1) - 1) \o <<e>> \in Seq(S)
  BY <1>4, <1>6, ConcatProperties
<1> QED
  BY <1>3, <1>5, <1>7, ConcatProperties

(* Only ingestion changes the window; learning and edits leave it alone.   *)
LEMMA WindowStays ==
  /\ Learn => window' = window
  /\ \A ruleset, records : Load(ruleset, records) => window' = window
  /\ \A form, t : IngestEvent(form, t) =>
       /\ window' = InOrder(window, Occurring(form, t))
       /\ UNCHANGED <<baseline, rules, approvals>>
BY Zenon DEF Learn, Load, IngestEvent, ScoredWith

LEMMA WindowsAreObserved == BenchSpec => []WindowIsObserved
<1>1. BenchInit => WindowIsObserved
  BY DEF BenchInit, WindowIsObserved
<1>2. ASSUME WindowIsObserved, [BenchNext]_benchVars PROVE WindowIsObserved'
  <2>1. CASE UNCHANGED benchVars
    BY <1>2, <2>1 DEF benchVars, WindowIsObserved
  <2>2. CASE window' = window
    BY <1>2, <2>2 DEF WindowIsObserved
  <2>3. ASSUME NEW form \in Forms, NEW t \in Instants, IngestEvent(form, t)
        PROVE  WindowIsObserved'
    <3>1. window' = InOrder(window, Occurring(form, t)) /\ Occurring(form, t) \in Observed
      BY <2>3, WindowStays DEF Observed
    <3> QED
      BY <1>2, <3>1, InsertedInOrder DEF WindowIsObserved
  <2> QED
    BY <1>2, <2>1, <2>2, <2>3, BenchCases, WindowStays
<1> QED
  BY <1>1, <1>2, PTL DEF BenchSpec

(* An event after all others leaves the window before it as it was.        *)
LEMMA LaterEventsContinue ==
  ASSUME WindowIsObserved, WindowIsObserved', Len(window') > Len(window),
         window = SubSeq(window', 1, Len(window))
  PROVE  /\ Continues(window, window')
         /\ \A k \in 1..Len(window') : window'[k].records \in Nat
<1> DEFINE n == Len(window)
           m == Len(window')
<1>1. n \in Nat /\ m \in Nat /\ DOMAIN window = 1..n /\ DOMAIN window' = 1..m
  BY DEF WindowIsObserved
<1>2. \A k \in 1..m : window'[k] \in Observed
  BY DEF WindowIsObserved
<1>3. \A k \in 1..n : window'[k] = window[k]
  <2>1. \A k \in 1..n : window'[k] \in Observed
    BY <1>1, <1>2
  <2>2. \A k \in 1..n - 1 + 1 : SubSeq(window', 1, n)[k] = window'[1 + k - 1]
    BY <1>1, <2>1, SubSeqProperties
  <2> QED
    BY <1>1, <2>2
<1>4. \A e \in Observed : e.records \in Nat
  BY WorkbenchAssumption DEF Observed, Observations
<1> QED
  BY <1>1, <1>2, <1>3, <1>4 DEF Continues

(* Evidence accumulates: an event after all others, however the rules and  *)
(* approvals judge it, takes back nothing that the window was evidence of  *)
(* (blast_radius.py, mitre.py), though the window is scored again from its *)
(* first event each time.                                                  *)
THEOREM EvidenceStands == BenchSpec => EvidenceAccumulates
<1> DEFINE Later == /\ learned' = learned /\ Len(window') > Len(window)
                    /\ window = SubSeq(window', 1, Len(window))
           Stands == /\ \A r \in DOMAIN report.blast.touched :
                          report'.blast.touched[r] = report.blast.touched[r]
                     /\ report'.blast.exposure >= report.blast.exposure
                     /\ Frameworks(report) \subseteq Frameworks(report')
                     /\ EventEvidence(report.result) \subseteq EventEvidence(report'.result)
<1>1. ASSUME ReportIsCurrent, ReportIsCurrent', WindowIsObserved, WindowIsObserved',
             [BenchNext]_benchVars, Later
      PROVE  Stands
  <2>1. UNCHANGED <<baseline, rules, approvals>>
    <3>1. ~UNCHANGED benchVars /\ window' # window
      BY <1>1 DEF benchVars, WindowIsObserved
    <3> QED
      BY <1>1, <3>1, BenchCases, WindowStays
  <2>2. Continues(window, window') /\ \A k \in 1..Len(window') : window'[k].records \in Nat
    BY <1>1, LaterEventsContinue
  <2> DEFINE given == Given(baseline, rules, approvals)
  <2>3. /\ report.blast.touched = Touched(window)
        /\ report.blast.exposure = Exposure(window, Touched(window))
        /\ report.blast.impacts = Compliance(Touched(window), Who.privileged)
        /\ report.result.scored = Trajectory(window, given)[Len(window)].scored
    BY <1>1, ReportHas DEF ReportIsCurrent
  <2>4. /\ report'.blast.touched = Touched(window')
        /\ report'.blast.exposure = Exposure(window', Touched(window'))
        /\ report'.blast.impacts = Compliance(Touched(window'), Who.privileged)
        /\ report'.result.scored = Trajectory(window', given)[Len(window')].scored
    <3>1. report' = Report(window', baseline, rules, approvals)
      BY <1>1, <2>1 DEF ReportIsCurrent
    <3> QED
      BY <3>1, ReportHas
  <2> HIDE DEF given
  <2>5. /\ DOMAIN Touched(window) \subseteq DOMAIN Touched(window')
        /\ \A r \in DOMAIN Touched(window) : Touched(window')[r] = Touched(window)[r]
    BY <2>2, TouchedStands
  <2>6. Exposure(window', Touched(window')) >= Exposure(window, Touched(window))
    BY <2>2, ExposureStands
  <2>7. Frameworks(report) \subseteq Frameworks(report')
    <3>1. {i.framework : i \in Compliance(Touched(window), Who.privileged)}
            \subseteq {i.framework : i \in Compliance(Touched(window'), Who.privileged)}
      BY <2>5, FrameworksStand
    <3> QED
      BY <2>3, <2>4, <3>1 DEF Frameworks
  <2>8. EventEvidence(report.result) \subseteq EventEvidence(report'.result)
    <3>1. LET was == report.result.scored
              is == report'.result.scored
          IN  /\ DOMAIN was = 1..Len(window) /\ DOMAIN is = 1..Len(window')
              /\ \A k \in 1..Len(window) : is[k] = was[k]
      BY <2>2, <2>3, <2>4, ScoresStand
    <3>2. \A k \in 1..Len(window) : k \in 1..Len(window')
      BY <2>2 DEF Continues
    <3> QED
      BY <3>1, <3>2 DEF EventEvidence
  <2> QED
    BY <2>3, <2>4, <2>5, <2>6, <2>7, <2>8
<1>2. ReportIsCurrent /\ ReportIsCurrent' /\ WindowIsObserved /\ WindowIsObserved'
        /\ [BenchNext]_benchVars
      => [Later => Stands]_benchVars
  BY <1>1
<1>3. [][Later => Stands]_benchVars => EvidenceAccumulates
  BY PTL DEF EvidenceAccumulates
<1> QED
  BY <1>2, <1>3, ReportsAreCurrent, WindowsAreObserved, PTL DEF BenchSpec
-----------------------------------------------------------------------------
(* Two maps of facts that differ in the risk so far at most.               *)
AgreeButRisk(f, g) ==
  DOMAIN f = DOMAIN g /\ \A n \in DOMAIN f : n # "cumulative_risk" => f[n] = g[n]

LEMMA FactsButRisk ==
  ASSUME NEW e, NEW vectors, NEW score, NEW x, NEW y
  PROVE  AgreeButRisk(Facts(e, vectors, score, x), Facts(e, vectors, score, y))
BY DEF Facts, AgreeButRisk

(* Evaluation goes from the leaves up.                                     *)
IsOutcome(f, at, facts, n) ==
  f = [d \in n..MaxDepth + 1 |->
         IF d > MaxDepth THEN [node \in at[d] |-> "syntax"]
         ELSE [node \in at[d] |-> NodeOutcome(node, facts, f[d + 1])]]

LEMMA OutcomeExists ==
  ASSUME NEW at, NEW facts
  PROVE  \E f : IsOutcome(f, at, facts, 0)
<1> DEFINE N == MaxDepth + 1
           Good == {m \in 0..N : \E f : IsOutcome(f, at, facts, N - m)}
<1>1. 0 \in Good
  <2> DEFINE f == [d \in N..N |-> [node \in at[d] |-> "syntax"]]
  <2>1. IsOutcome(f, at, facts, N - 0)
    BY DEF IsOutcome, MaxDepth
  <2> HIDE DEF f
  <2> QED
    BY <2>1 DEF MaxDepth
<1>2. ASSUME NEW m \in 1..N, m - 1 \in Good PROVE m \in Good
  <2> DEFINE n == N - m
  <2>1. PICK f : IsOutcome(f, at, facts, n + 1)
    <3>1. PICK f : IsOutcome(f, at, facts, N - (m - 1))
      BY <1>2
    <3>2. N - (m - 1) = n + 1
      BY DEF MaxDepth
    <3> QED
      BY <3>1, <3>2
  <2>2. n \in 0..MaxDepth
    BY DEF MaxDepth
  <2> HIDE DEF n
  <2> DEFINE next(h, d) == IF d > MaxDepth THEN [node \in at[d] |-> "syntax"]
                           ELSE [node \in at[d] |-> NodeOutcome(node, facts, h[d + 1])]
             g == [d \in n..N |-> IF d = n THEN [node \in at[n] |-> NodeOutcome(node, facts, f[n + 1])]
                                  ELSE f[d]]
  <2>3. \A d \in n + 1..N : f[d] = next(f, d)
    BY <2>1 DEF IsOutcome
  <2>4. \A d \in n..N : g[d] = next(g, d)
    <3> SUFFICES ASSUME NEW d \in n..N PROVE g[d] = next(g, d)
      OBVIOUS
    <3>1. CASE d = n
      <4>1. g[n + 1] = f[n + 1] /\ ~(n > MaxDepth)
        BY <2>2 DEF MaxDepth
      <4>2. g[n] = [node \in at[n] |-> NodeOutcome(node, facts, f[n + 1])]
        BY <2>2 DEF MaxDepth
      <4> HIDE DEF g
      <4> QED
        BY <3>1, <4>1, <4>2
    <3>2. CASE d # n
      <4>1. d \in n + 1..N /\ g[d] = f[d]
        BY <2>2, <3>2 DEF MaxDepth
      <4>2. d <= MaxDepth => g[d + 1] = f[d + 1]
        BY <2>2, <3>2 DEF MaxDepth
      <4>3. f[d] = next(f, d)
        BY <2>3, <4>1
      <4>4. d > MaxDepth \/ d <= MaxDepth
        BY <2>2 DEF MaxDepth
      <4> HIDE DEF g
      <4> QED
        BY <4>1, <4>2, <4>3, <4>4
    <3> QED
      BY <3>1, <3>2
  <2>5. IsOutcome(g, at, facts, n)
    <3>1. g = [d \in n..N |-> g[d]]
      OBVIOUS
    <3> HIDE DEF g
    <3> QED
      BY <2>4, <3>1 DEF IsOutcome
  <2> QED
    BY <1>2, <2>5 DEF n
<1>3. N \in Good
  <2>1. N \in Nat
    BY DEF MaxDepth
  <2> HIDE DEF Good, N
  <2>2. 0..N \subseteq Good
    BY <1>1, <1>2, <2>1, HandedOn
  <2> QED
    BY <2>1, <2>2
<1> QED
  BY <1>3 DEF MaxDepth

(* The outcomes at each depth of a tree.                                   *)
Outcomes(root, facts) == CHOOSE f : IsOutcome(f, NodesAt(root), facts, 0)

LEMMA EvaluateClimbs ==
  ASSUME NEW root, NEW facts
  PROVE  LET at == NodesAt(root)
             f == Outcomes(root, facts)
         IN  /\ Evaluate(root, facts) = f[0][root]
             /\ f[MaxDepth + 1] = [node \in at[MaxDepth + 1] |-> "syntax"]
             /\ \A d \in 0..MaxDepth : f[d] = [node \in at[d] |-> NodeOutcome(node, facts, f[d + 1])]
<1> DEFINE at == NodesAt(root)
           f == Outcomes(root, facts)
<1>1. Evaluate(root, facts) = f[0][root]
  BY DEF Evaluate, Outcomes, IsOutcome
<1>2. IsOutcome(f, at, facts, 0)
  BY OutcomeExists DEF Outcomes
<1> HIDE DEF at, f
<1>3. \A d \in 0..MaxDepth + 1 :
        f[d] = IF d > MaxDepth THEN [node \in at[d] |-> "syntax"]
               ELSE [node \in at[d] |-> NodeOutcome(node, facts, f[d + 1])]
  BY <1>2 DEF IsOutcome
<1>4. f[MaxDepth + 1] = [node \in at[MaxDepth + 1] |-> "syntax"]
  BY <1>3 DEF MaxDepth
<1>5. ASSUME NEW d \in 0..MaxDepth
      PROVE  f[d] = [node \in at[d] |-> NodeOutcome(node, facts, f[d + 1])]
  <2>1. d \in 0..MaxDepth + 1 /\ ~(d > MaxDepth)
    BY DEF MaxDepth
  <2> QED
    BY <1>3, <2>1
<1> QED
  BY <1>1, <1>4, <1>5 DEF at, f

(* A rule that does not ask for the risk so far hits or not whatever the   *)
(* risk is.                                                                *)
LEMMA BlindEvaluates ==
  ASSUME NEW r, ~ReadsRisk(r), NEW f, NEW g, AgreeButRisk(f, g)
  PROVE  Evaluate(r.conditions, f) = Evaluate(r.conditions, g)
<1> DEFINE root == r.conditions
           at == NodesAt(root)
           a == Outcomes(root, f)
           b == Outcomes(root, g)
           N == MaxDepth + 1
           Good == {m \in 0..N : a[N - m] = b[N - m]}
<1>1. N \in Nat
  BY DEF MaxDepth
<1>2. /\ Evaluate(root, f) = a[0][root] /\ Evaluate(root, g) = b[0][root]
      /\ a[N] = b[N]
      /\ \A d \in 0..MaxDepth : /\ a[d] = [node \in at[d] |-> NodeOutcome(node, f, a[d + 1])]
                                /\ b[d] = [node \in at[d] |-> NodeOutcome(node, g, b[d + 1])]
  <2>1. /\ Evaluate(root, f) = a[0][root]
        /\ a[N] = [node \in at[N] |-> "syntax"]
        /\ \A d \in 0..MaxDepth : a[d] = [node \in at[d] |-> NodeOutcome(node, f, a[d + 1])]
    BY EvaluateClimbs
  <2>2. /\ Evaluate(root, g) = b[0][root]
        /\ b[N] = [node \in at[N] |-> "syntax"]
        /\ \A d \in 0..MaxDepth : b[d] = [node \in at[d] |-> NodeOutcome(node, g, b[d + 1])]
    BY EvaluateClimbs
  <2> HIDE DEF a, b, at, root, N
  <2> QED
    BY <2>1, <2>2
<1>3. ASSUME NEW d \in 0..MaxDepth, NEW node \in at[d], NEW below
      PROVE  NodeOutcome(node, f, below) = NodeOutcome(node, g, below)
  <2>1. CASE node.kind = "leaf"
    <3>1. node.field # "cumulative_risk"
      BY <2>1 DEF ReadsRisk
    <3>2. node.field \in DOMAIN f <=> node.field \in DOMAIN g
      BY DEF AgreeButRisk
    <3>3. node.field \in DOMAIN f => f[node.field] = g[node.field]
      BY <3>1 DEF AgreeButRisk
    <3>4. EvaluateLeaf(node, f) = EvaluateLeaf(node, g)
      BY <3>2, <3>3 DEF EvaluateLeaf
    <3> QED
      BY <3>4 DEF NodeOutcome
  <2>2. CASE node.kind # "leaf"
    BY <2>2 DEF NodeOutcome
  <2> QED
    BY <2>1, <2>2
<1> HIDE DEF a, b, at, root
<1>4. 0 \in Good
  BY <1>1, <1>2
<1>5. ASSUME NEW m \in 1..N, m - 1 \in Good PROVE m \in Good
  <2>1. N - m \in 0..MaxDepth /\ N - (m - 1) = (N - m) + 1
    BY DEF MaxDepth
  <2>2. a[(N - m) + 1] = b[(N - m) + 1]
    BY <1>5, <2>1
  <2>3. \A d \in 0..MaxDepth : a[d + 1] = b[d + 1] => a[d] = b[d]
    <3> SUFFICES ASSUME NEW d \in 0..MaxDepth, a[d + 1] = b[d + 1] PROVE a[d] = b[d]
      OBVIOUS
    <3>1. a[d] = [node \in at[d] |-> NodeOutcome(node, f, a[d + 1])]
      BY <1>2
    <3>2. b[d] = [node \in at[d] |-> NodeOutcome(node, g, a[d + 1])]
      BY <1>2
    <3>3. \A node \in at[d] : NodeOutcome(node, f, a[d + 1]) = NodeOutcome(node, g, a[d + 1])
      BY <1>3
    <3> QED
      BY <3>1, <3>2, <3>3
  <2>4. a[N - m] = b[N - m]
    <3> HIDE DEF N
    <3> QED
      BY <2>1, <2>2, <2>3
  <2> QED
    BY <1>5, <2>4
<1>6. a[0] = b[0]
  <2> HIDE DEF Good, N
  <2>1. 0..N \subseteq Good
    BY <1>1, <1>4, <1>5, HandedOn
  <2>2. N \in 0..N
    BY <1>1
  <2>3. N \in Good
    BY <2>1, <2>2
  <2>4. N - N = 0
    BY <1>1
  <2> QED
    BY <2>3, <2>4 DEF Good
<1> QED
  BY <1>2, <1>6 DEF root

(* Without a suppressible rule among those that hit, and without one that  *)
(* asks for risk, an approval changes no hit.                              *)
LEMMA HitsStand ==
  ASSUME NEW ruleset, RiskBlind(ruleset), NEW f, NEW g, AgreeButRisk(f, g),
         NEW covered, NEW uncovered,
         \A r \in Match(ruleset, f, covered) \cup Match(ruleset, g, uncovered) : ~r.suppress
  PROVE  Match(ruleset, f, covered) = Match(ruleset, g, uncovered)
<1>1. \A r \in ruleset : Evaluate(r.conditions, f) = Evaluate(r.conditions, g)
  BY BlindEvaluates DEF RiskBlind
<1> QED
  BY <1>1 DEF Match, Evaluated

(* What the loop makes of an event, but for the course of the risk.        *)
JudgedBy(judged, e, vectors, given, hits) ==
  LET fused == Fused(vectors, given.multiplier)
  IN  /\ judged.turn.score = Smaller(100, fused + TotalBoost(hits))
      /\ judged.turn.tamper = Tampers(e)
      /\ judged.rules = {r.slug : r \in hits}

FactsAt(e, vectors, given, risk) == Facts(e, vectors, Fused(vectors, given.multiplier), risk)

(* Some approval covers the event, whatever it is for.                     *)
Covered(e, given) == \E k \in DOMAIN given.approvals : Covers(given.approvals[k], e)

LEMMA JudgeHas ==
  ASSUME NEW s, NEW e, NEW given, NEW vectors
  PROVE  \E risk :
           JudgedBy(Judge(s, e, given, vectors), e, vectors, given,
                    Match(given.rules, FactsAt(e, vectors, given, risk), Covered(e, given)))
<1> DEFINE gap == IF s.scored = <<>> THEN 0 ELSE e.at - Last(s.scored).event.at
           risk == Larger(RiskFloor, Decay[gap][s.acc.risk])
           hits == Match(given.rules, FactsAt(e, vectors, given, risk), Covered(e, given))
           judged == Judge(s, e, given, vectors)
<1>1. judged.turn.score = Smaller(100, Fused(vectors, given.multiplier) + TotalBoost(hits))
  BY Zenon DEF Judge, FactsAt, Covered
<1>2. judged.turn.tamper = Tampers(e)
  BY Zenon DEF Judge
<1>3. judged.rules = {r.slug : r \in hits}
  BY Zenon DEF Judge, FactsAt, Covered
<1>4. JudgedBy(judged, e, vectors, given, hits)
  BY <1>1, <1>2, <1>3, Zenon DEF JudgedBy
<1> HIDE DEF judged, risk
<1> QED
  BY <1>4, Zenon DEF judged

(* Two scorings of a window that see the same habits see the same vectors, *)
(* whatever rules and approvals they judge it with.                        *)
LEMMA PastIsKnown ==
  ASSUME NEW history, NEW given, Len(history) \in Nat, NEW k \in 0..Len(history)
  PROVE  LET s == Trajectory(history, given)[k]
         IN  [j \in DOMAIN s.scored |-> s.scored[j].event] = [j \in 1..k |-> history[j]]
<1> DEFINE t == Trajectory(history, given)
           n == Len(history)
<1>1. /\ DOMAIN t[k].scored = 1..k
      /\ \A j \in 1..k : t[k].scored[j] = t[j].scored[j]
  BY ScoredAtOwnTurn
<1>2. \A j \in 1..n :
        t[j].scored[j] = ScoredAs(history[j], Judged(t[j - 1], history[j], given), t[j].acc)
  BY ScoredAtOwnTurn
<1>3. \A e, judged, after : ScoredAs(e, judged, after).event = e
  BY DEF ScoredAs
<1> HIDE DEF t
<1>4. \A j \in 1..k : t[k].scored[j].event = history[j]
  <2> TAKE j \in 1..k
  <2>1. j \in 1..n
    OBVIOUS
  <2>2. t[j].scored[j] = ScoredAs(history[j], Judged(t[j - 1], history[j], given), t[j].acc)
    BY <1>2, <2>1
  <2>3. t[j].scored[j].event = history[j]
    BY <1>3, <2>2
  <2> QED
    BY <1>1, <2>3
<1> QED
  BY <1>1, <1>4 DEF t

SameHabits(given, other) ==
  /\ given.baseline = other.baseline /\ given.who = other.who
  /\ given.cohort = other.cohort /\ given.indicators = other.indicators

LEMMA SameVectors ==
  ASSUME NEW history, NEW given, NEW other, Len(history) \in Nat, SameHabits(given, other),
         NEW k \in 1..Len(history)
  PROVE  VectorsNext(Trajectory(history, given)[k - 1], history[k], given)
           = VectorsNext(Trajectory(history, other)[k - 1], history[k], other)
<1> DEFINE n == Len(history)
           a == Trajectory(history, given)
           b == Trajectory(history, other)
           Good == {j \in 0..n : a[j].located = b[j].located}
<1>1. /\ a[0] = Unscored /\ \A j \in 1..n : a[j] = ScoreNext(a[j - 1], history[j], given)
      /\ b[0] = Unscored /\ \A j \in 1..n : b[j] = ScoreNext(b[j - 1], history[j], other)
  BY TrajectoryRuns
<1>2. [j \in DOMAIN a[k - 1].scored |-> a[k - 1].scored[j].event]
        = [j \in DOMAIN b[k - 1].scored |-> b[k - 1].scored[j].event]
  <2>1. k - 1 \in 0..n
    OBVIOUS
  <2>2. /\ [j \in DOMAIN a[k - 1].scored |-> a[k - 1].scored[j].event] = [j \in 1..k - 1 |-> history[j]]
        /\ [j \in DOMAIN b[k - 1].scored |-> b[k - 1].scored[j].event] = [j \in 1..k - 1 |-> history[j]]
    BY <2>1, PastIsKnown
  <2> HIDE DEF a, b
  <2> QED
    BY <2>2, Zenon
<1> HIDE DEF a, b
<1>3. 0 \in Good
  BY <1>1
<1>4. ASSUME NEW j \in 1..n, j - 1 \in Good PROVE j \in Good
  <2>1. \A s, e, g : ScoreNext(s, e, g).located = IF e.place = Nowhere THEN s.located ELSE <<e>>
    BY ScoreAppends
  <2>2. /\ a[j].located = IF history[j].place = Nowhere THEN a[j - 1].located ELSE <<history[j]>>
        /\ b[j].located = IF history[j].place = Nowhere THEN b[j - 1].located ELSE <<history[j]>>
    <3>1. a[j] = ScoreNext(a[j - 1], history[j], given) /\ b[j] = ScoreNext(b[j - 1], history[j], other)
      BY <1>1
    <3>2. ScoreNext(a[j - 1], history[j], given).located
            = IF history[j].place = Nowhere THEN a[j - 1].located ELSE <<history[j]>>
      BY <2>1, Zenon
    <3>3. ScoreNext(b[j - 1], history[j], other).located
            = IF history[j].place = Nowhere THEN b[j - 1].located ELSE <<history[j]>>
      BY <2>1, Zenon
    <3> QED
      BY <3>1, <3>2, <3>3
  <2>3. a[j - 1].located = b[j - 1].located
    BY <1>4
  <2> QED
    BY <2>2, <2>3
<1>5. a[k - 1].located = b[k - 1].located
  <2>1. 0..n \subseteq Good
    <3> HIDE DEF Good
    <3> QED
      BY <1>3, <1>4, HandedOn
  <2>2. k - 1 \in 0..n
    OBVIOUS
  <2> QED
    BY <2>1, <2>2
<1>6. VectorsNext(a[k - 1], history[k], given) = VectorsNext(b[k - 1], history[k], other)
  BY <1>2, <1>5, Zenon DEF VectorsNext, SameHabits
<1> QED
  BY <1>6 DEF a, b

(* Each event of a window is judged by what its vectors make of it and by  *)
(* the rules that hit at some risk.                                        *)
MadeBy(x, vectors, given, hits) ==
  /\ x.score = Smaller(100, Fused(vectors, given.multiplier) + TotalBoost(hits))
  /\ x.rules = {r.slug : r \in hits}

LEMMA ScoredByHits ==
  ASSUME NEW history, NEW given, Len(history) \in Nat, NEW k \in 1..Len(history)
  PROVE  LET e == history[k]
             vectors == VectorsNext(Trajectory(history, given)[k - 1], e, given)
             x == Trajectory(history, given)[Len(history)].scored[k]
         IN  /\ x.tamper = Tampers(e)
             /\ Tampers(e) => x.damped = x.score
             /\ \E risk :
                  MadeBy(x, vectors, given,
                         Match(given.rules, FactsAt(e, vectors, given, risk), Covered(e, given)))
<1> DEFINE t == Trajectory(history, given)
           e == history[k]
           vectors == VectorsNext(t[k - 1], e, given)
           judged == Judged(t[k - 1], e, given)
           x == t[Len(history)].scored[k]
           Hits(risk) == Match(given.rules, FactsAt(e, vectors, given, risk), Covered(e, given))
<1>1. x = ScoredAs(e, judged, t[k].acc)
  <2>1. Len(history) \in 0..Len(history)
    OBVIOUS
  <2>2. t[Len(history)].scored[k] = t[k].scored[k]
    BY <2>1, ScoredAtOwnTurn
  <2>3. t[k].scored[k] = ScoredAs(e, judged, t[k].acc)
    BY ScoredAtOwnTurn
  <2> HIDE DEF t, judged, e
  <2> QED
    BY <2>2, <2>3
<1>2. PICK risk : JudgedBy(judged, e, vectors, given, Hits(risk))
  BY JudgeHas DEF Judged
<1> HIDE DEF t, judged, vectors, e, Hits
<1>3. /\ x.score = judged.turn.score /\ x.tamper = judged.turn.tamper
      /\ x.damped = DampedScore(judged.turn) /\ x.rules = judged.rules
  BY <1>1 DEF ScoredAs
<1>4. /\ judged.turn.score = Smaller(100, Fused(vectors, given.multiplier) + TotalBoost(Hits(risk)))
      /\ judged.turn.tamper = Tampers(e)
      /\ judged.rules = {r.slug : r \in Hits(risk)}
  BY <1>2, Zenon DEF JudgedBy
<1>5. Tampers(e) => DampedScore(judged.turn) = judged.turn.score
  BY <1>4, Zenon DEF DampedScore, Damps
<1> HIDE DEF x
<1>6. x.tamper = Tampers(e) /\ (Tampers(e) => x.damped = x.score)
  BY <1>3, <1>4, <1>5, Zenon
<1>7. MadeBy(x, vectors, given, Hits(risk))
  BY <1>3, <1>4, Zenon DEF MadeBy
<1> QED
  BY <1>6, <1>7, Zenon DEF x, t, vectors, e, Hits

(* What the baseline says is what the events it was built from teach.      *)
HabitsAreLearned == baseline = Build(learned)

LEMMA HabitsStay == BenchSpec => []HabitsAreLearned
<1>1. BenchInit => HabitsAreLearned
  BY DEF BenchInit, HabitsAreLearned
<1>2. ASSUME HabitsAreLearned, [BenchNext]_benchVars PROVE HabitsAreLearned'
  <2>1. CASE UNCHANGED <<learned, baseline>>
    BY <1>2, <2>1 DEF HabitsAreLearned
  <2>2. CASE Learn
    BY <2>2 DEF Learn, HabitsAreLearned
  <2>3. \A form, t : IngestEvent(form, t) => UNCHANGED <<learned, baseline>>
    BY Zenon DEF IngestEvent
  <2>4. \A ruleset, records : Load(ruleset, records) => UNCHANGED <<learned, baseline>>
    BY Zenon DEF Load
  <2>5. CASE UNCHANGED benchVars
    BY <2>1, <2>5 DEF benchVars
  <2> QED
    BY <1>2, <2>1, <2>2, <2>3, <2>4, <2>5, BenchCases
<1> QED
  BY <1>1, <1>2, PTL DEF BenchSpec

(* Approvals leave a tampering event's score alone, unless they switch a   *)
(* suppressible rule off, or a rule asks for the risk so far.              *)
LEMMA ApprovalsDoNotMove ==
  ASSUME NEW history, Len(history) \in Nat, NEW k \in 1..Len(history), NEW given, NEW other,
         SameHabits(given, other), given.rules = other.rules,
         given.multiplier = other.multiplier, RiskBlind(given.rules)
  PROVE  LET was == Trajectory(history, given)[Len(history)].scored[k]
             is == Trajectory(history, other)[Len(history)].scored[k]
         IN  (\A r \in given.rules : r.slug \in was.rules \cup is.rules => ~r.suppress)
               => is.score = was.score
<1> DEFINE e == history[k]
           v == VectorsNext(Trajectory(history, given)[k - 1], e, given)
           w == VectorsNext(Trajectory(history, other)[k - 1], e, other)
           was == Trajectory(history, given)[Len(history)].scored[k]
           is == Trajectory(history, other)[Len(history)].scored[k]
           c == Covered(e, given)
           d == Covered(e, other)
           Hits(risk, covered) == Match(given.rules, FactsAt(e, v, given, risk), covered)
           HitsOther(risk, covered) == Match(other.rules, FactsAt(e, w, other, risk), covered)
           ScoreOf(hits) == Smaller(100, Fused(v, given.multiplier) + TotalBoost(hits))
<1> SUFFICES ASSUME \A r \in given.rules : r.slug \in was.rules \cup is.rules => ~r.suppress
             PROVE  is.score = was.score
  OBVIOUS
<1>1. v = w
  BY SameVectors
<1>2. PICK x : MadeBy(was, v, given, Hits(x, c))
  BY ScoredByHits
<1>3. PICK y : MadeBy(is, w, other, HitsOther(y, d))
  BY ScoredByHits
<1> HIDE DEF was, is, v, w, c, d
<1>4. FactsAt(e, w, other, y) = FactsAt(e, v, given, y) /\ Fused(w, other.multiplier) = Fused(v, given.multiplier)
  BY <1>1, Zenon DEF FactsAt
<1>5. HitsOther(y, d) = Hits(y, d)
  BY <1>4, Zenon
<1>6. /\ is.score = ScoreOf(Hits(y, d)) /\ is.rules = {r.slug : r \in Hits(y, d)}
      /\ was.score = ScoreOf(Hits(x, c)) /\ was.rules = {r.slug : r \in Hits(x, c)}
  BY <1>2, <1>3, <1>4, <1>5, Zenon DEF MadeBy
<1>7. Hits(x, c) = Hits(y, d)
  <2>1. AgreeButRisk(FactsAt(e, v, given, x), FactsAt(e, v, given, y))
    BY FactsButRisk DEF FactsAt
  <2>2. \A r \in Hits(x, c) \cup Hits(y, d) : r \in given.rules
    BY DEF Match, Evaluated
  <2>3. \A r \in Hits(x, c) \cup Hits(y, d) : r.slug \in was.rules \cup is.rules
    <3> HIDE DEF Hits
    <3> QED
      BY <1>6
  <2>4. \A r \in Hits(x, c) \cup Hits(y, d) : ~r.suppress
    <3> HIDE DEF Hits
    <3> QED
      BY <2>2, <2>3
  <2> QED
    BY <2>1, <2>4, HitsStand
<1> QED
  BY <1>6, <1>7, Zenon

(* Tampering is not explained away (engine/context.py, engine/rules.py):   *)
(* granting, revoking or expiring an approval moves no tampering event's   *)
(* score but through rules marked suppressible or asking for risk, and     *)
(* none of these scores is damped.                                         *)
THEOREM ApprovalsMoveNoTampering == BenchSpec => TamperingUnmoved
<1> DEFINE Still == Same(window, learned) /\ rules' = rules /\ Works(report) /\ Works(report')
           Unmoved == \A k \in DOMAIN window :
                        LET was == report.result.scored[k]
                            is == report'.result.scored[k]
                        IN  was.tamper => /\ is.damped = is.score
                                          /\ RiskBlind(rules) /\ ~Suppressible(was.rules \cup is.rules)
                                               => is.score = was.score
<1>1. ASSUME ReportIsCurrent, ReportIsCurrent', HabitsAreLearned, HabitsAreLearned',
             WindowIsObserved, Still
      PROVE  Unmoved
  <2> DEFINE given == Given(baseline, rules, approvals)
             other == Given(baseline, rules, approvals')
             n == Len(window)
  <2>1. window' = window /\ learned' = learned /\ rules' = rules
    BY <1>1 DEF Same
  <2>2. baseline' = baseline
    BY <1>1, <2>1 DEF HabitsAreLearned
  <2>3. n \in Nat /\ DOMAIN window = 1..n
    BY <1>1 DEF WindowIsObserved
  <2>4. report.result.scored = Trajectory(window, given)[n].scored
    BY <1>1, ReportHas DEF ReportIsCurrent
  <2>5. report'.result.scored = Trajectory(window, other)[n].scored
    <3>1. report' = Report(window, baseline, rules, approvals')
      BY <1>1, <2>1, <2>2 DEF ReportIsCurrent
    <3> QED
      BY <3>1, ReportHas
  <2>6. /\ SameHabits(given, other) /\ given.multiplier = other.multiplier
        /\ given.rules = rules /\ other.rules = rules
    BY DEF Given, SameHabits
  <2> HIDE DEF given, other, n
  <2> SUFFICES ASSUME NEW k \in 1..n
               PROVE  LET was == report.result.scored[k]
                          is == report'.result.scored[k]
                      IN  was.tamper => /\ is.damped = is.score
                                        /\ RiskBlind(rules) /\ ~Suppressible(was.rules \cup is.rules)
                                             => is.score = was.score
    BY <2>3
  <2> DEFINE was == Trajectory(window, given)[n].scored[k]
             is == Trajectory(window, other)[n].scored[k]
  <2>7. was.tamper = Tampers(window[k]) /\ is.tamper = Tampers(window[k])
        /\ (Tampers(window[k]) => is.damped = is.score)
    BY <2>3, ScoredByHits DEF n
  <2>8. RiskBlind(rules) /\ ~Suppressible(was.rules \cup is.rules) => is.score = was.score
    <3> SUFFICES ASSUME RiskBlind(rules), ~Suppressible(was.rules \cup is.rules)
                 PROVE  is.score = was.score
      OBVIOUS
    <3>1. \A r \in rules : r.slug \in was.rules \cup is.rules => ~r.suppress
      BY Zenon DEF Suppressible
    <3> QED
      BY <2>3, <2>6, <3>1, ApprovalsDoNotMove DEF n
  <2>9. report.result.scored[k] = was /\ report'.result.scored[k] = is
    BY <2>4, <2>5
  <2> HIDE DEF was, is
  <2> QED
    BY <2>7, <2>8, <2>9
<1>2. ReportIsCurrent /\ ReportIsCurrent' /\ HabitsAreLearned /\ HabitsAreLearned'
        /\ WindowIsObserved
      => [Still => Unmoved]_benchVars
  BY <1>1
<1>3. [][Still => Unmoved]_benchVars => TamperingUnmoved
  BY PTL DEF TamperingUnmoved
<1> QED
  BY <1>2, <1>3, ReportsAreCurrent, WindowsAreObserved, HabitsStay, PTL
-----------------------------------------------------------------------------
(* A set of numbers that is finite has a least and a greatest member, and  *)
(* Min and Max are these.                                                  *)
LEMMA MinIsLeast ==
  ASSUME NEW S \in SUBSET Nat, IsFiniteSet(S), S # {}
  PROVE  Min(S) \in S /\ \A x \in S : Min(S) <= x
BY LeastOfFinite DEF Min

LEMMA MaxIsGreatest ==
  ASSUME NEW n \in Nat, NEW S \in SUBSET (0..n), S # {}
  PROVE  Max(S) \in S /\ \A x \in S : x <= Max(S)
<1> DEFINE T == {m \in 0..n : n - m \in S}
<1>1. T \in SUBSET Nat /\ T # {}
  <2>1. PICK x \in S : TRUE
    OBVIOUS
  <2>2. n - x \in 0..n /\ n - (n - x) = x
    BY <2>1
  <2>3. n - x \in T
    BY <2>1, <2>2
  <2>4. T \in SUBSET Nat
    OBVIOUS
  <2> HIDE DEF T
  <2> QED
    BY <2>3, <2>4
<1>2. IsFiniteSet(T)
  <2>1. IsFiniteSet(0..n)
    BY FS_Interval
  <2> QED
    BY <2>1, FS_Subset
<1>3. PICK m \in T : \A x \in T : m <= x
  <2> HIDE DEF T
  <2> QED
    BY <1>1, <1>2, LeastOfFinite
<1>4. \A x \in S : x <= n - m
  <2> TAKE x \in S
  <2>1. n - x \in 0..n /\ n - (n - x) = x
    OBVIOUS
  <2>2. m <= n - x
    BY <1>3, <2>1
  <2> QED
    BY <1>3, <2>2
<1>5. \E x \in S : \A y \in S : x >= y
  BY <1>3, <1>4
<1>6. /\ Max(S) \in S
      /\ \A y \in S : Max(S) >= y
  BY <1>5 DEF Max
<1> QED
  BY <1>6

(* There is a function that a step computes from the value before.         *)
Follows(f, z, step, n) ==
  f[0] = z /\ \A k \in 1..n : f[k] = step[k][f[k - 1]]

LEMMA Recursion ==
  ASSUME NEW n \in Nat, NEW V, NEW z \in V, NEW step \in [1..n -> [V -> V]]
  PROVE  \E f \in [0..n -> V] : Follows(f, z, step, n)
<1> DEFINE Good == {m \in 0..n : \E f \in [0..m -> V] : Follows(f, z, step, m)}
<1>1. 0 \in Good
  <2> DEFINE f == [k \in 0..0 |-> z]
  <2>1. f \in [0..0 -> V] /\ Follows(f, z, step, 0)
    BY DEF Follows
  <2> HIDE DEF f
  <2> QED
    BY <2>1
<1>2. ASSUME NEW m \in 1..n, m - 1 \in Good PROVE m \in Good
  <2>1. PICK f \in [0..m - 1 -> V] : Follows(f, z, step, m - 1)
    BY <1>2
  <2> DEFINE g == [k \in 0..m |-> IF k = m THEN step[m][f[m - 1]] ELSE f[k]]
  <2>2. m - 1 \in 0..m - 1 /\ 0 \in 0..m - 1
    OBVIOUS
  <2>3. step[m][f[m - 1]] \in V
    <3>1. f[m - 1] \in V
      BY <2>1, <2>2
    <3> QED
      BY <3>1
  <2>4. g \in [0..m -> V]
    <3>1. \A k \in 0..m : k # m => k \in 0..m - 1
      OBVIOUS
    <3> QED
      BY <2>1, <2>3, <3>1
  <2>5. /\ g[m] = step[m][f[m - 1]]
        /\ \A k \in 0..m - 1 : g[k] = f[k]
    OBVIOUS
  <2> HIDE DEF g
  <2>6. g[0] = z
    BY <2>1, <2>2, <2>5 DEF Follows
  <2>7. \A k \in 1..m : g[k] = step[k][g[k - 1]]
    <3> TAKE k \in 1..m
    <3>1. k - 1 \in 0..m - 1
      OBVIOUS
    <3>2. g[k - 1] = f[k - 1]
      BY <2>5, <3>1
    <3>3. CASE k = m
      BY <2>5, <3>2, <3>3
    <3>4. CASE k # m
      <4>1. k \in 1..m - 1 /\ k \in 0..m - 1
        BY <3>4
      <4>2. f[k] = step[k][f[k - 1]]
        BY <2>1, <4>1 DEF Follows
      <4> QED
        BY <2>5, <3>2, <4>1, <4>2
    <3> QED
      BY <3>3, <3>4
  <2>8. Follows(g, z, step, m)
    BY <2>6, <2>7 DEF Follows
  <2> QED
    BY <1>2, <2>4, <2>8
<1>3. 0..n \subseteq Good
  <2> HIDE DEF Good
  <2> QED
    BY <1>1, <1>2, HandedOn
<1>4. n \in 0..n
  OBVIOUS
<1> QED
  BY <1>3, <1>4

(* A sum runs up from the first of its terms.                              *)
LEMMA TotalRuns ==
  ASSUME NEW n \in Nat, NEW s \in [1..n -> Nat]
  PROVE  \E sum \in [0..n -> Nat] :
           /\ sum[0] = 0
           /\ \A k \in 1..n : sum[k] = sum[k - 1] + s[k]
           /\ Total(s) = sum[n]
<1> DEFINE Is(f) == f = [k \in 0..n |-> IF k = 0 THEN 0 ELSE f[k - 1] + s[k]]
           step == [k \in 1..n |-> [x \in Nat |-> x + s[k]]]
           f0 == CHOOSE f : Is(f)
<1>1. Len(s) = n
  OBVIOUS
<1>2. step \in [1..n -> [Nat -> Nat]]
  OBVIOUS
<1>3. PICK f \in [0..n -> Nat] : Follows(f, 0, step, n)
  <2> HIDE DEF step
  <2> QED
    BY <1>2, Recursion
<1>4. \A k \in 1..n : f[k] = f[k - 1] + s[k]
  <2> TAKE k \in 1..n
  <2>1. f[k - 1] \in Nat
    BY <1>3
  <2>2. step[k][f[k - 1]] = f[k - 1] + s[k]
    BY <2>1
  <2> QED
    BY <1>3, <2>2 DEF Follows
<1>5. \A k \in 0..n : f[k] = IF k = 0 THEN 0 ELSE f[k - 1] + s[k]
  BY <1>3, <1>4 DEF Follows
<1>6. Is(f)
  BY <1>3, <1>5
<1>7. Is(f0)
  <2> HIDE DEF Is
  <2> QED
    BY <1>6
<1>8. Total(s) = f0[n]
  BY <1>1 DEF Total
<1> HIDE DEF f0
<1>9. f0 = f
  <2>1. \A k \in 0..n : f0[k] = IF k = 0 THEN 0 ELSE f0[k - 1] + s[k]
    BY <1>7
  <2> DEFINE Good == {k \in 0..n : f0[k] = f[k]}
  <2>2. 0 \in Good
    BY <2>1, <1>5
  <2>3. ASSUME NEW k \in 1..n, k - 1 \in Good PROVE k \in Good
    BY <2>1, <2>3, <1>5
  <2>4. 0..n \subseteq Good
    <3> HIDE DEF Good
    <3> QED
      BY <2>2, <2>3, HandedOn
  <2>5. \A k \in 0..n : f0[k] = f[k]
    BY <2>4
  <2>6. f0 = [k \in 0..n |-> f0[k]] /\ f = [k \in 0..n |-> f[k]]
    BY <1>3, <1>7
  <2> QED
    BY <2>5, <2>6
<1> QED
  BY <1>3, <1>4, <1>8, <1>9 DEF Follows
-----------------------------------------------------------------------------
(* Rules that can hit: finitely many, with a boost the API accepts.        *)
Boosting(hits) == IsFiniteSet(hits) /\ \A r \in hits : r.boost \in 0..MaxBoost

AtLeastAs(hits, b) == {r \in hits : r.boost >= b}
Ranking(hits, k) == {b \in {r.boost : r \in hits} : Cardinality(AtLeastAs(hits, b)) >= k}

LEMMA RankedIsBoost ==
  ASSUME NEW hits, Boosting(hits), NEW k \in 1..Cardinality(hits)
  PROVE  /\ Ranked(hits, k) \in Ranking(hits, k)
         /\ \A b \in Ranking(hits, k) : b <= Ranked(hits, k)
         /\ Ranked(hits, k) \in 0..MaxBoost
<1> DEFINE boosts == {r.boost : r \in hits}
<1>1. Ranked(hits, k) = Max(Ranking(hits, k))
  BY DEF Ranked, Ranking, AtLeastAs
<1>2. boosts \in SUBSET (0..MaxBoost) /\ MaxBoost \in Nat
  BY DEF Boosting, MaxBoost
<1>3. hits # {}
  BY FS_EmptySet
<1>4. Ranking(hits, k) # {}
  <2>1. IsFiniteSet(boosts) /\ boosts # {} /\ boosts \in SUBSET Nat
    <3>1. boosts # {}
      BY <1>3
    <3>2. boosts \in SUBSET Nat
      BY <1>2
    <3>3. IsFiniteSet(0..MaxBoost)
      <4>1. MaxBoost \in Int /\ 0 \in Int
        BY <1>2
      <4> HIDE DEF boosts
      <4> QED
        BY <4>1, FS_Interval
    <3> HIDE DEF boosts
    <3>4. IsFiniteSet(boosts)
      BY <1>2, <3>3, FS_Subset
    <3> QED
      BY <3>1, <3>2, <3>4
  <2> DEFINE b == Min(boosts)
  <2>2. b \in boosts /\ \A x \in boosts : b <= x
    <3> HIDE DEF boosts
    <3> QED
      BY <2>1, MinIsLeast
  <2>3. AtLeastAs(hits, b) = hits
    <3>1. \A r \in hits : r.boost \in Nat /\ b <= r.boost
      BY <2>1, <2>2
    <3>2. b \in Nat
      BY <2>1, <2>2
    <3> HIDE DEF b
    <3> QED
      BY <3>1, <3>2 DEF AtLeastAs
  <2>4. Cardinality(hits) \in Nat
    BY FS_CardinalityType DEF Boosting
  <2>5. Cardinality(AtLeastAs(hits, b)) >= k
    BY <2>3, <2>4
  <2> HIDE DEF b
  <2> QED
    BY <2>2, <2>5 DEF Ranking
<1>5. Ranking(hits, k) \in SUBSET (0..MaxBoost)
  BY <1>2 DEF Ranking
<1>6. /\ Max(Ranking(hits, k)) \in Ranking(hits, k)
      /\ \A b \in Ranking(hits, k) : b <= Max(Ranking(hits, k))
  BY <1>2, <1>4, <1>5, MaxIsGreatest
<1> QED
  BY <1>1, <1>5, <1>6

(* More hits: the k-th largest boost is at least as large.                 *)
LEMMA RankedGrows ==
  ASSUME NEW many, Boosting(many), NEW few \in SUBSET many, NEW k \in 1..Cardinality(few)
  PROVE  /\ Boosting(few) /\ k \in 1..Cardinality(many)
         /\ Ranked(few, k) <= Ranked(many, k)
<1>1. Boosting(few)
  BY FS_Subset DEF Boosting
<1>2. /\ Cardinality(few) \in Nat /\ Cardinality(many) \in Nat
      /\ Cardinality(few) <= Cardinality(many)
  BY <1>1, FS_Subset, FS_CardinalityType DEF Boosting
<1>3. k \in 1..Cardinality(many)
  BY <1>2
<1> DEFINE b == Ranked(few, k)
<1>4. b \in Ranking(few, k)
  BY <1>1, RankedIsBoost
<1>5. b \in {r.boost : r \in many}
  BY <1>4 DEF Ranking
<1>6. Cardinality(AtLeastAs(many, b)) >= k
  <2>1. /\ AtLeastAs(few, b) \in SUBSET AtLeastAs(many, b)
        /\ AtLeastAs(many, b) \in SUBSET many
    BY DEF AtLeastAs
  <2>2. IsFiniteSet(AtLeastAs(many, b)) /\ IsFiniteSet(AtLeastAs(few, b))
    BY <2>1, FS_Subset DEF Boosting
  <2>3. /\ Cardinality(AtLeastAs(few, b)) \in Nat /\ Cardinality(AtLeastAs(many, b)) \in Nat
        /\ Cardinality(AtLeastAs(few, b)) <= Cardinality(AtLeastAs(many, b))
    BY <2>1, <2>2, FS_Subset, FS_CardinalityType
  <2>4. Cardinality(AtLeastAs(few, b)) >= k
    BY <1>4 DEF Ranking
  <2> QED
    BY <2>3, <2>4
<1>7. b \in Ranking(many, k)
  BY <1>5, <1>6 DEF Ranking
<1>8. b <= Ranked(many, k)
  BY <1>3, <1>7, RankedIsBoost
<1> QED
  BY <1>1, <1>3, <1>8

(* The discounted sum, from the smallest boost up.                         *)
SumsUp(last, hits) ==
  /\ last \in [0..Cardinality(hits) -> Nat]
  /\ last[0] = 0
  /\ \A k \in 1..Cardinality(hits) :
       last[k] = 1000 * Ranked(hits, Cardinality(hits) - k + 1) + (6 * last[k - 1]) \div 10

LEMMA DiscountedRuns ==
  ASSUME NEW hits, Boosting(hits)
  PROVE  \E last : SumsUp(last, hits) /\ Discounted(hits) = last[Cardinality(hits)]
<1> DEFINE n == Cardinality(hits)
           next(f, k) == IF k = 0 THEN 0 ELSE 1000 * Ranked(hits, n - k + 1) + (6 * f[k - 1]) \div 10
           Is(f) == f = [k \in 0..n |-> next(f, k)]
           step == [k \in 1..n |-> [x \in Nat |-> 1000 * Ranked(hits, n - k + 1) + (6 * x) \div 10]]
           f0 == CHOOSE f : Is(f)
<1>1. n \in Nat
  BY FS_CardinalityType DEF Boosting
<1>2. \A k \in 1..n : n - k + 1 \in 1..n /\ Ranked(hits, n - k + 1) \in Nat
  <2> TAKE k \in 1..n
  <2>1. n - k + 1 \in 1..n
    BY <1>1
  <2>2. Ranked(hits, n - k + 1) \in 0..MaxBoost
    BY <2>1, RankedIsBoost
  <2> QED
    BY <2>1, <2>2
<1>3. step \in [1..n -> [Nat -> Nat]]
  BY <1>2
<1>4. \E f \in [0..n -> Nat] : Follows(f, 0, step, n)
  <2> HIDE DEF step, n
  <2> QED
    BY <1>1, <1>3, Recursion
<1>5. PICK f \in [0..n -> Nat] : Follows(f, 0, step, n)
  BY <1>4
<1>6. \A k \in 1..n : f[k] = 1000 * Ranked(hits, n - k + 1) + (6 * f[k - 1]) \div 10
  <2> TAKE k \in 1..n
  <2>1. f[k - 1] \in Nat
    <3>1. k - 1 \in 0..n
      BY <1>1
    <3> HIDE DEF step, n
    <3> QED
      BY <1>5, <3>1
  <2>2. f[k] = step[k][f[k - 1]]
    <3> HIDE DEF step
    <3> QED
      BY <1>5 DEF Follows
  <2>3. \A x \in Nat : step[k][x] = 1000 * Ranked(hits, n - k + 1) + (6 * x) \div 10
    <3>1. step[k] = [x \in Nat |-> 1000 * Ranked(hits, n - k + 1) + (6 * x) \div 10]
      OBVIOUS
    <3> HIDE DEF step, n
    <3> QED
      BY <3>1
  <2>4. step[k][f[k - 1]] = 1000 * Ranked(hits, n - k + 1) + (6 * f[k - 1]) \div 10
    <3> DEFINE x == f[k - 1]
    <3>1. x \in Nat
      BY <2>1
    <3> HIDE DEF step, n, x
    <3>2. step[k][x] = 1000 * Ranked(hits, n - k + 1) + (6 * x) \div 10
      BY <2>3, <3>1
    <3> QED
      BY <3>2 DEF x
  <2> HIDE DEF step, n
  <2> QED
    BY <2>2, <2>4
<1>7. f[0] = 0
  BY <1>5 DEF Follows
<1>8. Is(f)
  <2>1. \A k \in 0..n : f[k] = next(f, k)
    <3> TAKE k \in 0..n
    <3>1. CASE k = 0
      BY <1>7, <3>1
    <3>2. CASE k # 0
      <4>1. k \in 1..n
        BY <1>1, <3>2
      <4>2. next(f, k) = 1000 * Ranked(hits, n - k + 1) + (6 * f[k - 1]) \div 10
        BY <3>2
      <4> HIDE DEF next, n
      <4> QED
        BY <1>6, <4>1, <4>2
    <3> QED
      BY <3>1, <3>2
  <2> HIDE DEF next
  <2> QED
    BY <1>5, <2>1
<1>9. Is(f0)
  <2> HIDE DEF Is
  <2> QED
    BY <1>8
<1>10. Discounted(hits) = f0[n]
  BY DEF Discounted
<1> HIDE DEF f0
<1>11. /\ f0[0] = 0
       /\ \A k \in 1..n : f0[k] = 1000 * Ranked(hits, n - k + 1) + (6 * f0[k - 1]) \div 10
  <2>1. \A k \in 0..n : f0[k] = next(f0, k)
    <3> HIDE DEF next
    <3> QED
      BY <1>9
  <2>2. 0 \in 0..n /\ \A k \in 1..n : k \in 0..n /\ k # 0
    BY <1>1
  <2> HIDE DEF n
  <2> QED
    BY <2>1, <2>2
<1>12. f0 = f
  <2> DEFINE Good == {k \in 0..n : f0[k] = f[k]}
  <2>1. 0 \in Good
    BY <1>1, <1>7, <1>11
  <2>2. ASSUME NEW k \in 1..n, k - 1 \in Good PROVE k \in Good
    <3>1. f0[k - 1] = f[k - 1]
      BY <2>2
    <3>2. k \in 0..n
      BY <1>1
    <3> HIDE DEF n
    <3> QED
      BY <1>6, <1>11, <3>1, <3>2
  <2>3. 0..n \subseteq Good
    <3> HIDE DEF Good, n
    <3> QED
      BY <1>1, <2>1, <2>2, HandedOn
  <2>4. \A k \in 0..n : f0[k] = f[k]
    BY <2>3
  <2>5. f = [k \in 0..n |-> f[k]]
    BY <1>5
  <2>6. f0 = [k \in 0..n |-> f0[k]]
    BY <1>9
  <2> QED
    BY <2>4, <2>5, <2>6
<1> QED
  BY <1>5, <1>6, <1>7, <1>10, <1>12 DEF SumsUp

LEMMA DiscountedGrows ==
  ASSUME NEW many, Boosting(many), NEW few \in SUBSET many
  PROVE  /\ Discounted(few) \in Nat /\ Discounted(many) \in Nat
         /\ Discounted(few) <= Discounted(many)
<1> DEFINE n == Cardinality(few)
           m == Cardinality(many)
<1>1. Boosting(few)
  BY FS_Subset DEF Boosting
<1>2. n \in Nat /\ m \in Nat /\ n <= m
  BY <1>1, FS_Subset, FS_CardinalityType DEF Boosting
<1>3. PICK f : SumsUp(f, few) /\ Discounted(few) = f[n]
  BY <1>1, DiscountedRuns
<1>4. PICK g : SumsUp(g, many) /\ Discounted(many) = g[m]
  BY DiscountedRuns
<1>5. f \in [0..n -> Nat] /\ g \in [0..m -> Nat]
  BY <1>3, <1>4 DEF SumsUp
<1> DEFINE Good == {k \in 0..n : f[k] <= g[k + (m - n)]}
<1>6. 0 \in Good
  <2>1. 0 + (m - n) \in 0..m
    BY <1>2
  <2>2. g[0 + (m - n)] \in Nat /\ f[0] = 0
    BY <1>3, <1>5, <2>1 DEF SumsUp
  <2> QED
    BY <1>2, <2>2
<1>7. ASSUME NEW k \in 1..n, k - 1 \in Good PROVE k \in Good
  <2> DEFINE j == k + (m - n)
  <2>1. j \in 1..m /\ j - 1 = (k - 1) + (m - n) /\ m - j + 1 = n - k + 1
        /\ n - k + 1 \in 1..n /\ k - 1 \in 0..n /\ j - 1 \in 0..m
    BY <1>2
  <2>2. f[k - 1] \in Nat /\ g[j - 1] \in Nat /\ f[k - 1] <= g[j - 1]
    BY <1>5, <1>7, <2>1
  <2>3. f[k] = 1000 * Ranked(few, n - k + 1) + (6 * f[k - 1]) \div 10
    BY <1>3 DEF SumsUp
  <2>4. g[j] = 1000 * Ranked(many, n - k + 1) + (6 * g[j - 1]) \div 10
    <3>1. g[j] = 1000 * Ranked(many, m - j + 1) + (6 * g[j - 1]) \div 10
      BY <1>4, <2>1 DEF SumsUp
    <3> QED
      BY <2>1, <3>1
  <2>5. /\ Ranked(few, n - k + 1) \in Nat /\ Ranked(many, n - k + 1) \in Nat
        /\ Ranked(few, n - k + 1) <= Ranked(many, n - k + 1)
    <3>1. /\ n - k + 1 \in 1..m
          /\ Ranked(few, n - k + 1) <= Ranked(many, n - k + 1)
      BY <2>1, RankedGrows
    <3>2. Ranked(few, n - k + 1) \in 0..MaxBoost /\ Ranked(many, n - k + 1) \in 0..MaxBoost
      BY <1>1, <2>1, <3>1, RankedIsBoost
    <3> QED
      BY <3>1, <3>2
  <2>6. f[k] <= g[j]
    <3> HIDE DEF j
    <3>1. (6 * f[k - 1]) \div 10 <= (6 * g[j - 1]) \div 10
      BY <2>2
    <3> QED
      BY <2>2, <2>3, <2>4, <2>5, <3>1
  <2> QED
    BY <1>7, <2>6
<1>8. 0..n \subseteq Good
  <2> HIDE DEF Good, n, m
  <2> QED
    BY <1>2, <1>6, <1>7, HandedOn
<1>9. n \in 0..n /\ m \in 0..m /\ n + (m - n) = m
  BY <1>2
<1>10. f[n] <= g[m]
  BY <1>8, <1>9
<1> QED
  BY <1>3, <1>4, <1>5, <1>9, <1>10

(* One more hit never takes a boost away (total_boost).                    *)
LEMMA BoostsOnlyAdd ==
  ASSUME NEW many, Boosting(many), NEW few \in SUBSET many
  PROVE  /\ TotalBoost(few) \in 0..BoostCap /\ TotalBoost(many) \in 0..BoostCap
         /\ TotalBoost(few) <= TotalBoost(many)
<1> DEFINE x == Discounted(few)
           y == Discounted(many)
<1>1. x \in Nat /\ y \in Nat /\ x <= y
  BY DiscountedGrows
<1>2. TotalBoost(few) = Capped(x \div 1000) /\ TotalBoost(many) = Capped(y \div 1000)
  BY DEF TotalBoost
<1> HIDE DEF x, y
<1>3. x \div 1000 \in Nat /\ y \div 1000 \in Nat /\ x \div 1000 <= y \div 1000
  BY <1>1
<1> QED
  BY <1>2, <1>3 DEF Capped, BoostCap

(* The terms of a sum are numbers, and none is larger than the sum.        *)
LEMMA TotalBounds ==
  ASSUME NEW n \in Nat, NEW s \in [1..n -> Nat]
  PROVE  Total(s) \in Nat /\ \A k \in 1..n : s[k] <= Total(s)
<1>1. PICK sum \in [0..n -> Nat] :
        /\ sum[0] = 0
        /\ \A k \in 1..n : sum[k] = sum[k - 1] + s[k]
        /\ Total(s) = sum[n]
  BY TotalRuns
<1> DEFINE Good == {m \in 0..n : \A k \in 1..m : s[k] <= sum[m]}
<1>2. 0 \in Good
  OBVIOUS
<1>3. ASSUME NEW m \in 1..n, m - 1 \in Good PROVE m \in Good
  <2>1. sum[m] \in Nat /\ sum[m - 1] \in Nat /\ s[m] \in Nat /\ sum[m] = sum[m - 1] + s[m]
    BY <1>1
  <2>2. \A k \in 1..m : s[k] <= sum[m]
    <3> TAKE k \in 1..m
    <3>1. CASE k = m
      BY <2>1, <3>1
    <3>2. CASE k # m
      <4>1. k \in 1..m - 1 /\ s[k] \in Nat
        BY <3>2
      <4>2. s[k] <= sum[m - 1]
        BY <1>3, <4>1
      <4> QED
        BY <2>1, <4>1, <4>2
    <3> QED
      BY <3>1, <3>2
  <2> QED
    BY <2>2
<1>4. 0..n \subseteq Good
  <2> HIDE DEF Good
  <2> QED
    BY <1>2, <1>3, HandedOn
<1>5. n \in 0..n /\ sum[n] \in Nat
  BY <1>1
<1> QED
  BY <1>1, <1>4, <1>5

(* A quotient of numbers is one.                                           *)
LEMMA QuotientType ==
  ASSUME NEW x \in Nat, NEW d \in Nat \ {0}
  PROVE  x \div d \in Nat
OBVIOUS

LEMMA MeanType ==
  ASSUME NEW n \in Nat \ {0}, NEW s \in [1..n -> Nat]
  PROVE  Mean(s) \in Nat
<1>1. Total(s) \in Nat
  BY TotalBounds
<1>2. Len(s) = n
  OBVIOUS
<1>3. 10 * Total(s) \in Nat
  BY <1>1
<1>4. (10 * Total(s)) \div n \in Nat
  BY <1>3, QuotientType
<1> QED
  BY <1>2, <1>4 DEF Mean

LEMMA DeviationType ==
  ASSUME NEW n \in Nat \ {0}, NEW s \in [1..n -> Nat]
  PROVE  Deviation(s) \in Nat
<1>1. Total(s) \in Nat /\ \A k \in 1..n : s[k] <= Total(s)
  BY TotalBounds
<1>2. ToSet(s) = {s[k] : k \in 1..n}
  BY DEF ToSet
<1>3. ToSet(s) \in SUBSET (0..Total(s)) /\ ToSet(s) # {}
  <2>1. \A k \in 1..n : s[k] \in 0..Total(s)
    BY <1>1
  <2>2. 1 \in 1..n
    OBVIOUS
  <2> QED
    BY <1>2, <2>1, <2>2
<1>4. Max(ToSet(s)) \in Nat
  <2> DEFINE t == Total(s)
             S == ToSet(s)
  <2>1. t \in Nat /\ S \in SUBSET (0..t) /\ S # {}
    BY <1>1, <1>3
  <2> HIDE DEF t, S
  <2>2. Max(S) \in S
    BY <2>1, MaxIsGreatest
  <2> QED
    BY <2>1, <2>2 DEF S
<1> DEFINE top == 10 * Max(ToSet(s))
           mean == Mean(s)
           squares == [k \in DOMAIN s |-> (10 * s[k] - mean) * (10 * s[k] - mean)]
           variance == Total(squares) \div Len(s)
           roots == {d \in 1..top : d * d <= variance}
<1>5. Deviation(s) = Cardinality(roots)
  BY DEF Deviation
<1>6. IsFiniteSet(1..top)
  <2>1. top \in Int /\ 1 \in Int
    <3> DEFINE m == Max(ToSet(s))
    <3>1. m \in Nat /\ top = 10 * m
      BY <1>4
    <3> HIDE DEF m, top
    <3> QED
      BY <3>1
  <2> HIDE DEF top
  <2> QED
    BY <2>1, FS_Interval
<1>7. roots \in SUBSET (1..top)
  OBVIOUS
<1> HIDE DEF roots, top
<1>8. IsFiniteSet(roots)
  BY <1>6, <1>7, FS_Subset
<1> QED
  BY <1>5, <1>8, FS_CardinalityType

(* The events of a history with some trait are a number.                   *)
LEMMA PlacesCount ==
  ASSUME NEW n \in Nat, NEW places \in SUBSET (1..n)
  PROVE  IsFiniteSet(places) /\ Cardinality(places) \in Nat /\ Cardinality(places) <= n
<1>1. IsFiniteSet(1..n) /\ Cardinality(1..n) = n
  BY FS_Interval
<1> QED
  BY <1>1, FS_Subset, FS_CardinalityType

(* A sequence of the members of a finite set.                              *)
LEMMA OrderedSet ==
  ASSUME NEW S, IsFiniteSet(S)
  PROVE  /\ Cardinality(S) \in Nat
         /\ SetToSeq(S) \in [1..Cardinality(S) -> S]
<1>1. Cardinality(S) \in Nat /\ ExistsBijection(1..Cardinality(S), S)
  BY FS_CardinalityType
<1>2. \E f \in [1..Cardinality(S) -> S] : IsInjective(f)
  <2>1. PICK f \in Bijection(1..Cardinality(S), S) : TRUE
    BY <1>1 DEF ExistsBijection
  <2>2. f \in [1..Cardinality(S) -> S] /\ IsInjective(f)
    BY <2>1 DEF Bijection, Injection, IsInjective, Surjection
  <2> QED
    BY <2>2
<1> QED
  BY <1>1, <1>2 DEF SetToSeq

(* What the events of a history have is finitely many values.              *)
LEMMA ValuesAreFinite ==
  ASSUME NEW n \in Nat, NEW of, DOMAIN of = 1..n
  PROVE  IsFiniteSet({of[k] : k \in 1..n})
<1> DEFINE T == {of[k] : k \in 1..n}
           f == [k \in 1..n |-> of[k]]
<1>1. f \in Surjection(1..n, T)
  BY DEF Surjection
<1>2. IsFiniteSet(1..n)
  BY FS_Interval
<1> HIDE DEF f, T
<1>3. IsFiniteSet(T)
  BY <1>1, <1>2, FS_Surjection
<1> QED
  BY <1>3 DEF T

(* The fields of what a history teaches.                                   *)
Counted(b, history) ==
  /\ b.total = Len(history)
  /\ b.hours = [h \in 0..23 |-> Cardinality({k \in DOMAIN history : Hour(history[k]) = h})]
  /\ b.weekdays = [d \in 0..6 |-> Cardinality({k \in DOMAIN history : Weekday(history[k]) = d})]
  /\ b.frequency = [r \in MostCommon(history, FrequentKept) |->
                      Cardinality({k \in DOMAIN history : history[k].resource = r})]
  /\ b.common = MostCommon(history, CommonKept)
  /\ b.actions = [a \in {history[k].action : k \in DOMAIN history} |->
                    Cardinality({k \in DOMAIN history : history[k].action = a})]
  /\ b.nets = {history[k].net : k \in DOMAIN history}
  /\ b.countries = {history[k].country : k \in DOMAIN history} \ {""}
  /\ b.devices = {history[k].device : k \in DOMAIN history} \ {""}
  /\ b.ceiling = Ceiling(history)
  /\ b.offHours = Cardinality({k \in DOMAIN history :
                                 \/ history[k].offHours
                                 \/ Hour(history[k]) < 7 \/ Hour(history[k]) > 20})

LEMMA BuildHas ==
  ASSUME NEW history
  PROVE  Counted(Build(history), history)
<1>1. Build(history).total = Len(history)
  BY DEF Build
<1>2. Build(history).hours = [h \in 0..23 |-> Cardinality({k \in DOMAIN history : Hour(history[k]) = h})]
  BY DEF Build, Tally, Count
<1>3. Build(history).weekdays = [d \in 0..6 |-> Cardinality({k \in DOMAIN history : Weekday(history[k]) = d})]
  BY DEF Build, Tally, Count
<1>4. Build(history).frequency = [r \in MostCommon(history, FrequentKept) |->
                                 Cardinality({k \in DOMAIN history : history[k].resource = r})]
  BY DEF Build, Tally, Count
<1>5. Build(history).common = MostCommon(history, CommonKept)
  BY DEF Build
<1>6. Build(history).actions = [a \in {history[k].action : k \in DOMAIN history} |->
                                 Cardinality({k \in DOMAIN history : history[k].action = a})]
  BY DEF Build, Tally, Count, Valued
<1>7. Build(history).nets = {history[k].net : k \in DOMAIN history}
  BY DEF Build, Valued
<1>8. Build(history).countries = {history[k].country : k \in DOMAIN history} \ {""}
  BY DEF Build, Valued
<1>9. Build(history).devices = {history[k].device : k \in DOMAIN history} \ {""}
  BY DEF Build, Valued
<1>10. Build(history).ceiling = Ceiling(history)
  BY DEF Build
<1>11. Build(history).offHours = Cardinality({k \in DOMAIN history :
                                \/ history[k].offHours
                                \/ Hour(history[k]) < 7 \/ Hour(history[k]) > 20})
  BY DEF Build, Count
<1> QED
  BY <1>1, <1>2, <1>3, <1>4, <1>5, <1>6, <1>7, <1>8, <1>9, <1>10, <1>11, Zenon DEF Counted

(* What is counted and transferred, day by day.                            *)
Days(history) == SetToSeq({Day(history[k]) : k \in DOMAIN history})
OnOneDay(history, day) == [j \in DOMAIN history |-> IF Day(history[j]) = day THEN 1 ELSE 0]
BytesOnOneDay(history, day) ==
  [j \in DOMAIN history |-> IF Day(history[j]) = day THEN history[j].bytes ELSE 0]
DailyCounts(history) == [k \in DOMAIN Days(history) |-> Total(OnOneDay(history, Days(history)[k]))]
DailyBytes(history) == [k \in DOMAIN Days(history) |-> Total(BytesOnOneDay(history, Days(history)[k]))]

LEMMA BuildSpreads ==
  ASSUME NEW history
  PROVE  LET b == Build(history)
             counts == DailyCounts(history)
             bytes == DailyBytes(history)
         IN  /\ b.dayMean = IF history = <<>> THEN 200 ELSE Mean(counts)
             /\ b.daySpread = IF history = <<>> THEN 60
                              ELSE IF Len(counts) = 1 THEN 40 ELSE Deviation(counts)
             /\ b.byteMean = IF history = <<>> THEN 0 ELSE Mean(bytes)
             /\ b.byteSpread = IF Len(bytes) <= 1 THEN 0 ELSE Deviation(bytes)
<1>1. Build(history).dayMean = IF history = <<>> THEN 200 ELSE Mean(DailyCounts(history))
  BY Zenon DEF Build, PerDay, Valued, Days, OnOneDay, DailyCounts
<1>2. Build(history).daySpread = IF history = <<>> THEN 60
                              ELSE IF Len(DailyCounts(history)) = 1 THEN 40 ELSE Deviation(DailyCounts(history))
  BY Zenon DEF Build, PerDay, Valued, Days, OnOneDay, DailyCounts
<1>3. Build(history).byteMean = IF history = <<>> THEN 0 ELSE Mean(DailyBytes(history))
  BY Zenon DEF Build, PerDay, Valued, Days, BytesOnOneDay, DailyBytes
<1>4. Build(history).byteSpread = IF Len(DailyBytes(history)) <= 1 THEN 0 ELSE Deviation(DailyBytes(history))
  BY Zenon DEF Build, PerDay, Valued, Days, BytesOnOneDay, DailyBytes
<1> QED
  BY <1>1, <1>2, <1>3, <1>4, Zenon

LEMMA DailyType ==
  ASSUME NEW history \in Seq(Observations)
  PROVE  \E m \in Nat : /\ DailyCounts(history) \in [1..m -> Nat]
                        /\ DailyBytes(history) \in [1..m -> Nat]
                        /\ history # <<>> => m > 0
<1> DEFINE n == Len(history)
           S == {Day(history[k]) : k \in DOMAIN history}
           m == Cardinality(S)
           days == Days(history)
<1>1. n \in Nat /\ DOMAIN history = 1..n /\ \A k \in 1..n : history[k] \in Observations
  OBVIOUS
<1>2. IsFiniteSet(S)
  <2> DEFINE of == [k \in 1..n |-> Day(history[k])]
  <2>1. IsFiniteSet({of[k] : k \in 1..n})
    <3>1. DOMAIN of = 1..n
      OBVIOUS
    <3> HIDE DEF of, n
    <3> QED
      BY <1>1, <3>1, ValuesAreFinite
  <2>2. S = {of[k] : k \in 1..n}
    BY <1>1
  <2> QED
    BY <2>1, <2>2
<1>3. m \in Nat /\ days \in [1..m -> S]
  <2> HIDE DEF S
  <2> QED
    BY <1>2, OrderedSet DEF Days, S
<1>4. DOMAIN days = 1..m
  BY <1>3
<1>5. history # <<>> => m > 0
  <2> SUFFICES ASSUME history # <<>> PROVE m > 0
    OBVIOUS
  <2>1. 1 \in 1..n
    BY <1>1
  <2>2. S # {}
    BY <1>1, <2>1
  <2> HIDE DEF S
  <2> QED
    BY <1>2, <1>3, <2>2, FS_EmptySet
<1>6. \A day : Total(OnOneDay(history, day)) \in Nat /\ Total(BytesOnOneDay(history, day)) \in Nat
  <2> TAKE day
  <2>1. OnOneDay(history, day) \in [1..n -> Nat]
    BY <1>1 DEF OnOneDay
  <2>2. BytesOnOneDay(history, day) \in [1..n -> Nat]
    <3>1. \A k \in 1..n : history[k].bytes \in Nat
      BY <1>1 DEF Observations
    <3> QED
      BY <1>1, <3>1 DEF BytesOnOneDay
  <2> QED
    BY <1>1, <2>1, <2>2, TotalBounds
<1> HIDE DEF m, S, days
<1>7. DailyCounts(history) \in [1..m -> Nat] /\ DailyBytes(history) \in [1..m -> Nat]
  BY <1>3, <1>4, <1>6 DEF DailyCounts, DailyBytes, days
<1> QED
  BY <1>3, <1>5, <1>7

(* A baseline, as far as the scores read it, is made of numbers.           *)
Remembered(b) ==
  /\ b.total \in Nat /\ b.offHours \in 0..b.total
  /\ b.hours \in [0..23 -> 0..b.total] /\ b.weekdays \in [0..6 -> 0..b.total]
  /\ \A r \in DOMAIN b.frequency : b.frequency[r] \in Nat
  /\ \A a \in DOMAIN b.actions : b.actions[a] \in Nat
  /\ b.ceiling \in Sensitivity
  /\ b.dayMean \in Nat /\ b.daySpread \in Nat /\ b.byteMean \in Nat /\ b.byteSpread \in Nat

LEMMA CeilingType ==
  ASSUME NEW history \in Seq(Observations)
  PROVE  /\ Ceiling(history) \in Sensitivity
         /\ history # <<>> =>
              LET levels == {level \in {history[k].tier : k \in DOMAIN history} :
                               Cardinality(UpTo(history, level)) >= CeilingPlace(Len(history))}
              IN  Ceiling(history) \in levels /\ \A level \in levels : Ceiling(history) <= level
<1> DEFINE n == Len(history)
           tiers == {history[k].tier : k \in DOMAIN history}
           levels == {level \in tiers : Cardinality(UpTo(history, level)) >= CeilingPlace(n)}
<1>1. n \in Nat /\ DOMAIN history = 1..n /\ \A k \in 1..n : history[k] \in Observations
  OBVIOUS
<1>2. \A k \in 1..n : history[k].tier \in 1..5
  BY <1>1 DEF Observations, Sensitivity
<1>3. CASE history = <<>>
  BY <1>3 DEF Ceiling, Sensitivity
<1>4. CASE history # <<>>
  <2>1. n > 0
    BY <1>1, <1>4
  <2>2. CeilingPlace(n) \in 1..n
    BY <1>1, <2>1 DEF CeilingPlace, Least
  <2>3. tiers \in SUBSET (0..5) /\ tiers # {}
    <3>1. tiers \in SUBSET (0..5)
      BY <1>1, <1>2
    <3>2. history[1].tier \in tiers
      BY <1>1, <2>1
    <3> QED
      BY <3>1, <3>2
  <2>4. levels # {}
    <3> DEFINE top == Max(tiers)
    <3>1. top \in tiers /\ \A x \in tiers : x <= top
      <4> HIDE DEF tiers
      <4> QED
        BY <2>3, MaxIsGreatest
    <3>2. UpTo(history, top) = 1..n
      <4>1. \A k \in 1..n : history[k].tier <= top
        <5>1. \A k \in 1..n : history[k].tier \in tiers
          BY <1>1
        <5> HIDE DEF tiers, top
        <5> QED
          BY <3>1, <5>1
      <4> HIDE DEF top
      <4> QED
        BY <1>1, <4>1 DEF UpTo
    <3>3. Cardinality(1..n) = n
      <4> HIDE DEF n
      <4>1. 1 \in Int /\ n \in Int
        BY <1>1
      <4> QED
        BY <2>1, <4>1, FS_Interval
    <3>4. top \in levels
      <4> HIDE DEF top, tiers
      <4> QED
        BY <2>2, <3>1, <3>2, <3>3
    <3> QED
      BY <3>4
  <2>5. levels \in SUBSET Nat /\ IsFiniteSet(levels)
    <3>1. levels \in SUBSET Nat /\ 5 \in Nat /\ \A level \in levels : level <= 5
      <4>1. levels \in SUBSET tiers
        OBVIOUS
      <4> HIDE DEF levels, tiers
      <4> QED
        BY <2>3, <4>1
    <3> HIDE DEF levels
    <3> QED
      BY <3>1, FS_BoundedSetOfNaturals
  <2>6. Min(levels) \in levels /\ \A level \in levels : Min(levels) <= level
    <3> HIDE DEF levels
    <3> QED
      BY <2>4, <2>5, MinIsLeast
  <2>7. Ceiling(history) = Min(levels)
    BY <1>4, Zenon DEF Ceiling, Valued
  <2>8. \A level \in levels : level \in Sensitivity
    BY <1>1, <1>2 DEF Sensitivity
  <2> HIDE DEF levels
  <2> QED
    BY <2>6, <2>7, <2>8 DEF levels
<1> QED
  BY <1>3, <1>4

LEMMA HourType ==
  ASSUME NEW e \in Observations
  PROVE  Hour(e) \in 0..23 /\ Weekday(e) \in 0..6
<1>1. e.at \in Int
  BY DEF Observations
<1> QED
  BY <1>1 DEF Hour, Day, Weekday

LEMMA BuildRemembers ==
  ASSUME NEW history \in Seq(Observations)
  PROVE  Remembered(Build(history))
<1> DEFINE n == Len(history)
           b == Build(history)
<1>1. n \in Nat /\ DOMAIN history = 1..n
  OBVIOUS
<1>2. b.total = n
  BY BuildHas DEF Counted
<1>3. \A places \in SUBSET (1..n) : Cardinality(places) \in 0..n
  BY <1>1, PlacesCount
<1>4. b.offHours \in 0..n
  <2> DEFINE places == {k \in DOMAIN history :
                          history[k].offHours \/ Hour(history[k]) < 7 \/ Hour(history[k]) > 20}
  <2>1. b.offHours = Cardinality(places) /\ places \in SUBSET (1..n)
    BY <1>1, BuildHas DEF Counted
  <2> HIDE DEF b, places, n
  <2> QED
    BY <1>3, <2>1
<1>5. b.hours \in [0..23 -> 0..n]
  <2>1. b.hours = [h \in 0..23 |-> Cardinality({k \in DOMAIN history : Hour(history[k]) = h})]
    BY DEF Build, Tally, Count
  <2>2. \A h : {k \in DOMAIN history : Hour(history[k]) = h} \in SUBSET (1..n)
    BY <1>1
  <2> HIDE DEF b, n
  <2> QED
    BY <1>3, <2>1, <2>2
<1>6. b.weekdays \in [0..6 -> 0..n]
  <2>1. b.weekdays = [d \in 0..6 |-> Cardinality({k \in DOMAIN history : Weekday(history[k]) = d})]
    BY DEF Build, Tally, Count
  <2>2. \A d : {k \in DOMAIN history : Weekday(history[k]) = d} \in SUBSET (1..n)
    BY <1>1
  <2> HIDE DEF b, n
  <2> QED
    BY <1>3, <2>1, <2>2
<1>7. \A r \in DOMAIN b.frequency : b.frequency[r] \in Nat
  <2>1. b.frequency = [r \in MostCommon(history, FrequentKept) |->
                         Cardinality({k \in DOMAIN history : history[k].resource = r})]
    BY BuildHas, Zenon DEF Counted
  <2>2. \A r : {k \in DOMAIN history : history[k].resource = r} \in SUBSET (1..n)
    BY <1>1
  <2> HIDE DEF b, n
  <2> QED
    BY <1>3, <2>1, <2>2
<1>8. \A a \in DOMAIN b.actions : b.actions[a] \in Nat
  <2>1. b.actions = [a \in {history[k].action : k \in DOMAIN history} |->
                         Cardinality({k \in DOMAIN history : history[k].action = a})]
    BY DEF Build, Tally, Count, Valued
  <2>2. \A a : {k \in DOMAIN history : history[k].action = a} \in SUBSET (1..n)
    BY <1>1
  <2> HIDE DEF b, n
  <2> QED
    BY <1>3, <2>1, <2>2
<1>9. b.ceiling \in Sensitivity
  BY BuildHas, CeilingType DEF Counted
<1>10. b.dayMean \in Nat /\ b.daySpread \in Nat /\ b.byteMean \in Nat /\ b.byteSpread \in Nat
  <2> DEFINE counts == DailyCounts(history)
             bytes == DailyBytes(history)
  <2>1. PICK m \in Nat : /\ counts \in [1..m -> Nat] /\ bytes \in [1..m -> Nat]
                         /\ history # <<>> => m > 0
    BY DailyType
  <2>2. Len(bytes) = m /\ Len(counts) = m
    <3> HIDE DEF counts, bytes
    <3> QED
      BY <2>1
  <2>3. m > 0 => Mean(counts) \in Nat /\ Deviation(counts) \in Nat /\ Mean(bytes) \in Nat /\ Deviation(bytes) \in Nat
    <3> HIDE DEF counts, bytes
    <3> SUFFICES ASSUME m > 0
                 PROVE  /\ Mean(counts) \in Nat /\ Deviation(counts) \in Nat
                        /\ Mean(bytes) \in Nat /\ Deviation(bytes) \in Nat
      OBVIOUS
    <3>1. m \in Nat \ {0} /\ counts \in [1..m -> Nat] /\ bytes \in [1..m -> Nat]
      BY <2>1
    <3>2. Mean(counts) \in Nat /\ Mean(bytes) \in Nat
      BY <3>1, MeanType
    <3>3. Deviation(counts) \in Nat /\ Deviation(bytes) \in Nat
      BY <3>1, DeviationType
    <3> QED
      BY <3>2, <3>3
  <2>4. /\ b.dayMean = IF history = <<>> THEN 200 ELSE Mean(counts)
        /\ b.daySpread = IF history = <<>> THEN 60
                         ELSE IF Len(counts) = 1 THEN 40 ELSE Deviation(counts)
        /\ b.byteMean = IF history = <<>> THEN 0 ELSE Mean(bytes)
        /\ b.byteSpread = IF Len(bytes) <= 1 THEN 0 ELSE Deviation(bytes)
    BY BuildSpreads, Zenon
  <2> HIDE DEF counts, bytes, b
  <2> QED
    BY <2>1, <2>2, <2>3, <2>4
<1> HIDE DEF b
<1> QED
  BY <1>1, <1>2, <1>4, <1>5, <1>6, <1>7, <1>8, <1>9, <1>10 DEF Remembered, b

(* The largest of some scores is a score.                                  *)
LEMMA LargestScore ==
  ASSUME NEW S \in SUBSET (0..100), S # {}
  PROVE  Max(S) \in 0..100
<1>1. 100 \in Nat
  OBVIOUS
<1>2. Max(S) \in S
  BY <1>1, MaxIsGreatest
<1> QED
  BY <1>2

LEMMA LargestOfZero ==
  ASSUME NEW S \in SUBSET (0..100)
  PROVE  Max({0} \cup S) \in 0..100
<1>1. {0} \cup S \in SUBSET (0..100) /\ {0} \cup S # {}
  OBVIOUS
<1> QED
  BY <1>1, LargestScore

LEMMA TemporalType ==
  ASSUME NEW e \in Observations, NEW b, Remembered(b)
  PROVE  Temporal(e, b) \in 0..100
<1> DEFINE h == b.hours[Hour(e)]
           lost == (600 * (2 * h + 1)) \div (b.total + 12)
           rarity == Greatest(0, 100 - lost)
           weekend == /\ Weekday(e) >= 5
                      /\ 100 * (2 * b.weekdays[Weekday(e)] + 1) < 8 * (2 * b.total + 7)
           never == OffHoursRatio(b) < 10
           rest == (IF e.offHours THEN {72} ELSE {})
                     \cup (IF weekend THEN {68} ELSE {})
                     \cup (IF e.offHours /\ never THEN {85} ELSE {})
<1>1. Temporal(e, b) = Max({rarity} \cup rest)
  <2>1. {rarity} \cup rest
          = {rarity} \cup (IF e.offHours THEN {72} ELSE {})
              \cup (IF weekend THEN {68} ELSE {})
              \cup (IF e.offHours /\ never THEN {85} ELSE {})
    <3> HIDE DEF rarity, weekend, never
    <3> QED
      OBVIOUS
  <2>2. Temporal(e, b) = Max({rarity} \cup (IF e.offHours THEN {72} ELSE {})
                               \cup (IF weekend THEN {68} ELSE {})
                               \cup (IF e.offHours /\ never THEN {85} ELSE {}))
    BY DEF Temporal
  <2> HIDE DEF rarity, weekend, never, rest
  <2> QED
    BY <2>1, <2>2, Zenon
<1>2. rarity \in 0..100
  <2>1. h \in Nat /\ b.total + 12 \in Nat \ {0}
    BY HourType DEF Remembered
  <2> HIDE DEF h
  <2>2. 600 * (2 * h + 1) \in Nat
    BY <2>1
  <2>3. lost \in Nat
    BY <2>1, <2>2, QuotientType
  <2> HIDE DEF lost
  <2> QED
    BY <2>3 DEF Greatest
<1>3. rest \in SUBSET (0..100)
  <2> HIDE DEF weekend, never
  <2> QED
    OBVIOUS
<1> HIDE DEF rarity, rest
<1>4. {rarity} \cup rest \in SUBSET (0..100) /\ {rarity} \cup rest # {}
  BY <1>2, <1>3
<1> QED
  BY <1>1, <1>4, LargestScore

LEMMA ResourceType ==
  ASSUME NEW e \in Observations, NEW b, Remembered(b)
  PROVE  ResourceScore(e, b) \in 0..100
<1> DEFINE known == e.resource \in DOMAIN b.frequency
           times == Times(b.frequency, e.resource)
           novelty == CASE times >= 5 -> 8
                        [] known /\ times < 5 -> 28
                        [] ~known -> 68
           above == e.tier - b.ceiling
           sensitivity == IF above > 0 THEN Least(100, 38 + 22 * above) ELSE 10
           treasure == Words[e.resource] \cap HighValueKeywords # {} /\ ~known
           bonus == IF treasure THEN 18 ELSE 0
<1>1. ResourceScore(e, b) = Least(100, (novelty * 42 + sensitivity * 58) \div 100 + bonus)
  BY Zenon DEF ResourceScore
<1>2. times \in Nat /\ (~known => times = 0)
  BY DEF Times, Remembered
<1>3. novelty \in {8, 28, 68}
  <2> HIDE DEF times, known
  <2> QED
    BY <1>2
<1>4. sensitivity \in 0..100
  <2>1. above \in Int
    BY DEF Remembered, Observations, Sensitivity
  <2> HIDE DEF above
  <2> QED
    BY <2>1 DEF Least
<1>5. bonus \in {0, 18}
  OBVIOUS
<1> HIDE DEF novelty, sensitivity, bonus
<1> QED
  BY <1>1, <1>3, <1>4, <1>5 DEF Least

LEMMA PrivilegeType ==
  ASSUME NEW e \in Observations, NEW b, Remembered(b)
  PROVE  Privilege(e, b) \in 0..100
<1> DEFINE weight == CASE e.action \in PrivilegedActions -> 88
                       [] e.action \in {"write", "delete", "export", "query_bulk", "download", "share_external"} -> 52
                       [] e.action \in {"read", "query", "list", "view", "login"} -> 12
                       [] OTHER -> 26
           used == Times(b.actions, e.action)
           base == CASE used >= 10 -> (weight * 45) \div 100
                     [] used \in 3..9 -> (weight * 70) \div 100
                     [] used < 3 -> weight
           refused == IF Denied(e) /\ base >= 50 THEN 10 ELSE 0
<1>1. Privilege(e, b) = IF Tampers(e) THEN 100 ELSE base + refused
  BY Zenon DEF Privilege
<1>2. used \in Nat
  BY DEF Times, Remembered
<1>3. weight \in {88, 52, 12, 26}
  <2> DEFINE A == e.action \in PrivilegedActions
             B == e.action \in {"write", "delete", "export", "query_bulk", "download", "share_external"}
             C == e.action \in {"read", "query", "list", "view", "login"}
  <2> HIDE DEF A, B, C
  <2>1. (CASE A -> 88 [] B -> 52 [] C -> 12 [] OTHER -> 26) \in {88, 52, 12, 26}
    OBVIOUS
  <2> QED
    BY <2>1 DEF A, B, C
<1>4. base \in 0..88
  <2> HIDE DEF weight, used
  <2> QED
    BY <1>2, <1>3
<1>5. refused \in {0, 10}
  <2> HIDE DEF base
  <2> QED
    OBVIOUS
<1> HIDE DEF base, refused
<1> QED
  BY <1>1, <1>4, <1>5

LEMMA PeerType ==
  ASSUME NEW e, NEW b, NEW who, NEW cohort
  PROVE  PeerDivergence(e, b, who, cohort) \in 0..100
<1> DEFINE p == IF Words[e.resource] \cap Forbidden(who.department) # {} THEN 62 ELSE 0
           q == IF cohort.shared # {}
                THEN (IF e.resource \notin cohort.shared THEN 22 ELSE 0)
                       + (IF 100 * e.tier > cohort.meanCeiling + 100 THEN 24 ELSE 0)
                ELSE (IF e.resource \notin b.common THEN 16 ELSE 0)
           r == IF e.action \in PrivilegedActions /\ ~who.engineer THEN 18 ELSE 0
<1>1. PeerDivergence(e, b, who, cohort) = Least(100, 14 + p + q + r)
  BY Zenon DEF PeerDivergence
<1>2. p \in 0..62 /\ r \in 0..18
  OBVIOUS
<1>3. q \in 0..46
  OBVIOUS
<1> HIDE DEF p, q, r
<1> QED
  BY <1>1, <1>2, <1>3 DEF Least

(* The last located event, or none.                                        *)
Located == {<<>>} \cup {<<q>> : q \in Observations}

LEMMA GeovelocityType ==
  ASSUME NEW e \in Observations, NEW b, NEW previous \in Located
  PROVE  Geovelocity(e, b, previous) \in 0..100
<1> DEFINE speed == IF previous = <<>> \/ e.place = Nowhere THEN 0 ELSE Speed(e, previous[1])
           excess == ((speed - ImpossibleTravel) * 20) \div (4 * ImpossibleTravel)
           A == IF e.country # "" /\ b.countries # {} /\ e.country \notin b.countries THEN {62} ELSE {}
           B == IF b.nets # {} /\ e.net \notin b.nets THEN {45} ELSE {}
           C == IF speed > ImpossibleTravel THEN {80 + Least(20, excess)} ELSE {}
           D == IF 100 * speed > 55 * ImpossibleTravel THEN {55} ELSE {}
<1>1. Geovelocity(e, b, previous) = Max({0} \cup A \cup B \cup C \cup D)
  BY Zenon DEF Geovelocity
<1>2. speed \in Int
  <2>1. CASE previous = <<>>
    BY <2>1
  <2>2. CASE previous # <<>>
    <3>1. PICK q \in Observations : previous = <<q>>
      BY <2>2 DEF Located
    <3>2. previous[1] = q
      BY <3>1
    <3> DEFINE km == Distance[q.place][e.place]
               apart == Greatest(1, e.at - q.at)
    <3>3. km \in Nat /\ e.at \in Int /\ q.at \in Int
      <4>1. q.place \in DOMAIN Distance /\ e.place \in DOMAIN Distance
        BY DEF Observations
      <4> QED
        BY <4>1, BaselineAssumption DEF Observations
    <3>4. apart \in Nat \ {0}
      BY <3>3 DEF Greatest
    <3> HIDE DEF km, apart
    <3>5. (km * 60) \div apart \in Nat
      <4>1. km * 60 \in Nat
        BY <3>3
      <4> QED
        BY <3>4, <4>1, QuotientType
    <3>6. Speed(e, q) = IF km > 100 THEN (km * 60) \div apart ELSE 0
      BY Zenon DEF Speed, km, apart
    <3> QED
      BY <2>2, <3>2, <3>5, <3>6
  <2> QED
    BY <2>1, <2>2
<1> HIDE DEF speed
<1>3. C \in SUBSET (0..100)
  BY <1>2 DEF ImpossibleTravel, Least
<1>4. A \in SUBSET (0..100) /\ B \in SUBSET (0..100) /\ D \in SUBSET (0..100)
  OBVIOUS
<1> HIDE DEF A, B, C, D
<1>5. {0} \cup A \cup B \cup C \cup D = {0} \cup (A \cup B \cup C \cup D)
  BY Zenon
<1>6. A \cup B \cup C \cup D \in SUBSET (0..100)
  BY <1>3, <1>4, Zenon
<1> QED
  BY <1>1, <1>5, <1>6, LargestOfZero

LEMMA SigmasType ==
  ASSUME NEW x \in Nat, NEW mean \in Nat, NEW spread \in Nat
  PROVE  Sigmas(x, mean, spread) \in Int
<1>1. CASE spread = 0
  BY <1>1 DEF Sigmas
<1>2. CASE spread # 0
  <2>1. spread \in Nat \ {0} /\ 100 * (10 * x - mean) \in Int
    BY <1>2
  <2>2. \A y \in Int : y \div spread \in Int
    BY <2>1
  <2> QED
    BY <1>2, <2>1, <2>2 DEF Sigmas
<1> QED
  BY <1>1, <1>2

LEMMA VolumeType ==
  ASSUME NEW e \in Observations, NEW b, Remembered(b), NEW count \in Nat, NEW bytes \in Nat
  PROVE  Volume(e, b, count, bytes) \in 0..100
<1> DEFINE z == Sigmas(count, b.dayMean, Greatest(20, b.daySpread))
           zb == Sigmas(bytes, b.byteMean, b.byteSpread)
           A == IF z > 200 THEN {Least(85, 30 + ((z - 200) * 18) \div 100)} ELSE {}
           B == IF bytes > 0 /\ zb > 200 THEN {Least(95, 40 + ((zb - 200) * 15) \div 100)} ELSE {}
           C == IF e.bytes > 50 THEN {88} ELSE IF e.bytes > 5 THEN {62} ELSE {}
           D == IF e.records > 100000 THEN {90} ELSE IF e.records > 10000 THEN {66} ELSE {}
<1>1. Volume(e, b, count, bytes) = Max({0} \cup A \cup B \cup C \cup D)
  BY DEF Volume
<1>2. z \in Int /\ zb \in Int
  <2>1. /\ b.dayMean \in Nat /\ Greatest(20, b.daySpread) \in Nat
        /\ b.byteMean \in Nat /\ b.byteSpread \in Nat
    BY DEF Remembered, Greatest
  <2> QED
    BY <2>1, SigmasType
<1> HIDE DEF z, zb
<1>3. A \in SUBSET (0..100)
  BY <1>2 DEF Least
<1>4. B \in SUBSET (0..100)
  BY <1>2 DEF Least
<1>5. C \in SUBSET (0..100) /\ D \in SUBSET (0..100)
  OBVIOUS
<1> HIDE DEF A, B, C, D
<1>6. {0} \cup A \cup B \cup C \cup D = {0} \cup (A \cup B \cup C \cup D)
  BY Zenon
<1>7. A \cup B \cup C \cup D \in SUBSET (0..100)
  BY <1>3, <1>4, <1>5, Zenon
<1> QED
  BY <1>1, <1>6, <1>7, LargestOfZero

LEMMA DeviceType ==
  ASSUME NEW e, NEW b
  PROVE  Device(e, b) \in 0..100
<1> DEFINE A == e.device = ""
           B == e.device # "" /\ b.devices = {}
           C == e.device \in b.devices
<1>1. Device(e, b) = CASE A -> 0 [] B -> 12 [] C -> 0 [] OTHER -> 58
  BY Zenon DEF Device
<1> HIDE DEF A, B, C
<1>2. (CASE A -> 0 [] B -> 12 [] C -> 0 [] OTHER -> 58) \in {0, 12, 58}
  OBVIOUS
<1> QED
  BY <1>1, <1>2

LEMMA IntelType ==
  ASSUME NEW e, NEW indicators, \A a \in DOMAIN indicators : indicators[a] \in 0..100
  PROVE  Intel(e, indicators) \in 0..100
<1> DEFINE S == {Least(100, indicators[a]) :
                   a \in ({e.address, e.asn, e.agent} \ {""}) \cap DOMAIN indicators}
<1>1. S \in SUBSET (0..100)
  <2> SUFFICES ASSUME NEW a \in DOMAIN indicators
               PROVE  Least(100, indicators[a]) \in 0..100
    BY Zenon
  <2> DEFINE n == indicators[a]
  <2>1. n \in 0..100
    OBVIOUS
  <2> HIDE DEF n
  <2>2. Least(100, n) \in 0..100
    BY <2>1 DEF Least
  <2> QED
    BY Zenon, <2>2 DEF n
<1>2. Intel(e, indicators) = Max({0} \cup S)
  BY Zenon DEF Intel
<1> HIDE DEF S
<1> QED
  BY <1>1, <1>2, LargestOfZero

(* Every vector is a score (engine/baseline.py).                           *)
VectorSet ==
  [temporal : 0..100, resource : 0..100, privilege : 0..100, peer_divergence : 0..100,
   geovelocity : 0..100, volume : 0..100, device : 0..100, intel : 0..100]

LEMMA VectorsType ==
  ASSUME NEW e \in Observations, NEW b, Remembered(b), NEW who, NEW cohort,
         NEW previous \in Located, NEW count \in Nat, NEW bytes \in Nat,
         NEW indicators, \A a \in DOMAIN indicators : indicators[a] \in 0..100
  PROVE  Vectors(e, b, who, cohort, previous, count, bytes, indicators) \in VectorSet
<1>1. /\ Temporal(e, b) \in 0..100 /\ ResourceScore(e, b) \in 0..100
      /\ Privilege(e, b) \in 0..100 /\ PeerDivergence(e, b, who, cohort) \in 0..100
      /\ Geovelocity(e, b, previous) \in 0..100 /\ Volume(e, b, count, bytes) \in 0..100
      /\ Device(e, b) \in 0..100 /\ Intel(e, indicators) \in 0..100
  BY TemporalType, ResourceType, PrivilegeType, PeerType, GeovelocityType, VolumeType,
     DeviceType, IntelType
<1> QED
  BY <1>1 DEF Vectors, VectorSet

(* So is what they are fused to (engine/sequence.py).                      *)
LEMMA FusedType ==
  ASSUME NEW v \in VectorSet, NEW multiplier \in Nat
  PROVE  Fused(v, multiplier) \in 0..100
<1> DEFINE names == {"temporal", "resource", "privilege", "peer_divergence",
                     "geovelocity", "volume", "device", "intel"}
           elevated == Cardinality({n \in DOMAIN v : v[n] >= ElevatedAt})
           sum == Weight["temporal"] * v["temporal"] + Weight["resource"] * v["resource"]
                    + Weight["privilege"] * v["privilege"]
                    + Weight["peer_divergence"] * v["peer_divergence"]
                    + Weight["geovelocity"] * v["geovelocity"] + Weight["volume"] * v["volume"]
                    + Weight["device"] * v["device"] + Weight["intel"] * v["intel"]
           fused == sum * Synergy(v)
<1>1. DOMAIN v = names
  BY DEF VectorSet
<1>2. IsFiniteSet(names)
  <2>1. IsFiniteSet({"temporal"}) /\ IsFiniteSet({"resource"}) /\ IsFiniteSet({"privilege"})
        /\ IsFiniteSet({"peer_divergence"}) /\ IsFiniteSet({"geovelocity"}) /\ IsFiniteSet({"volume"})
        /\ IsFiniteSet({"device"}) /\ IsFiniteSet({"intel"})
    BY FS_Singleton
  <2>2. IsFiniteSet({"temporal"} \cup {"resource"}) /\ IsFiniteSet({"privilege"} \cup {"peer_divergence"})
        /\ IsFiniteSet({"geovelocity"} \cup {"volume"}) /\ IsFiniteSet({"device"} \cup {"intel"})
    BY <2>1, FS_Union
  <2> DEFINE a == {"temporal"} \cup {"resource"}
             b == {"privilege"} \cup {"peer_divergence"}
             c == {"geovelocity"} \cup {"volume"}
             d == {"device"} \cup {"intel"}
  <2>3. names = (a \cup b) \cup (c \cup d)
    BY Zenon
  <2> HIDE DEF a, b, c, d, names
  <2>4. IsFiniteSet(a \cup b) /\ IsFiniteSet(c \cup d)
    BY <2>2, FS_Union DEF a, b, c, d
  <2> QED
    BY <2>3, <2>4, FS_Union
<1>3. elevated \in Nat
  <2> DEFINE high == {n \in DOMAIN v : v[n] >= ElevatedAt}
  <2>1. high \in SUBSET names
    BY <1>1
  <2> HIDE DEF high, names
  <2>2. IsFiniteSet(high)
    BY <1>2, <2>1, FS_Subset
  <2> QED
    BY <2>2, FS_CardinalityType DEF high
<1>4. Synergy(v) \in Nat
  <2> HIDE DEF elevated
  <2>1. Synergy(v) = CASE elevated >= 4 -> 145 [] elevated = 3 -> 130
                       [] elevated = 2 -> 114 [] elevated < 2 -> 100
    BY Zenon DEF Synergy, elevated
  <2> QED
    BY <1>3, <2>1
<1>5. sum \in Nat
  <2>1. /\ v["temporal"] \in Nat /\ v["resource"] \in Nat /\ v["privilege"] \in Nat
        /\ v["peer_divergence"] \in Nat /\ v["geovelocity"] \in Nat /\ v["volume"] \in Nat
        /\ v["device"] \in Nat /\ v["intel"] \in Nat
    BY DEF VectorSet
  <2>2. /\ Weight["temporal"] \in Nat /\ Weight["resource"] \in Nat /\ Weight["privilege"] \in Nat
        /\ Weight["peer_divergence"] \in Nat /\ Weight["geovelocity"] \in Nat
        /\ Weight["volume"] \in Nat /\ Weight["device"] \in Nat /\ Weight["intel"] \in Nat
    BY WeightAssumption DEF VectorNames
  <2>3. /\ Weight["temporal"] * v["temporal"] \in Nat /\ Weight["resource"] * v["resource"] \in Nat
        /\ Weight["privilege"] * v["privilege"] \in Nat
        /\ Weight["peer_divergence"] * v["peer_divergence"] \in Nat
        /\ Weight["geovelocity"] * v["geovelocity"] \in Nat /\ Weight["volume"] * v["volume"] \in Nat
        /\ Weight["device"] * v["device"] \in Nat /\ Weight["intel"] * v["intel"] \in Nat
    <3>1. \A x, y \in Nat : x * y \in Nat
      OBVIOUS
    <3> QED
      BY <2>1, <2>2, <3>1, Zenon
  <2> QED
    BY <2>3
<1>6. Fused(v, multiplier) = Smaller(100, ((fused \div 100) * multiplier) \div 10000)
  BY Zenon DEF Fused
<1> HIDE DEF sum
<1>7. fused \in Nat
  BY <1>4, <1>5
<1> HIDE DEF fused
<1>8. fused \div 100 \in Nat
  BY <1>7
<1>9. (fused \div 100) * multiplier \in Nat
  <2> DEFINE x == fused \div 100
  <2> HIDE DEF x
  <2>1. x \in Nat => x * multiplier \in Nat
    OBVIOUS
  <2> QED
    BY <1>8, <2>1 DEF x
<1>10. ((fused \div 100) * multiplier) \div 10000 \in Nat
  BY <1>9, QuotientType
<1> QED
  BY <1>6, <1>10 DEF Smaller

(* What requests keep: the events, rules and approvals that are stored.    *)
RulesAreRules == IsFiniteSet(rules) /\ \A r \in rules : IsRule(r)
ApprovalsAreGrants == approvals \in Seq(Grants)
LearnedIsObserved == learned \in Seq(Observations)
BenchTyped == /\ WindowIsObserved /\ LearnedIsObserved
              /\ RulesAreRules /\ ApprovalsAreGrants

LEMMA ObservedAreObservations == Observed \subseteq Observations
BY WorkbenchAssumption DEF Observed

LEMMA ObservedHistory ==
  ASSUME NEW history \in Seq(Observed)
  PROVE  history \in Seq(Observations)
<1>1. \A k \in 1..Len(history) : history[k] \in Observations
  BY ObservedAreObservations
<1>2. history = [k \in 1..Len(history) |-> history[k]] /\ Len(history) \in Nat
  OBVIOUS
<1> QED
  BY <1>1, <1>2, IsSequence

(* An approval taken out of the sequence leaves one.                       *)
LEMMA RemovedStays ==
  ASSUME NEW S, NEW s \in Seq(S), NEW i \in DOMAIN s
  PROVE  RemoveAt(s, i) \in Seq(S)
<1> DEFINE n == Len(s)
<1>1. n \in Nat /\ i \in 1..n
  OBVIOUS
<1>2. SubSeq(s, 1, i - 1) \in Seq(S)
  <2>1. \A k \in 1..i - 1 : s[k] \in S
    BY <1>1
  <2> QED
    BY <1>1, <2>1, SubSeqProperties
<1>3. SubSeq(s, i + 1, n) \in Seq(S)
  <2>1. \A k \in i + 1..n : s[k] \in S
    BY <1>1
  <2> QED
    BY <1>1, <2>1, SubSeqProperties
<1> QED
  BY <1>2, <1>3, ConcatProperties DEF RemoveAt

(* Each edit loads rules and approvals of the same kind.                   *)
Loads == \E ruleset, records :
           /\ Load(ruleset, records)
           /\ IsFiniteSet(ruleset) /\ \A r \in ruleset : IsRule(r)
           /\ records \in Seq(Grants)

LEMMA ReplacedRule ==
  ASSUME RulesAreRules, NEW r \in rules, NEW q, IsRule(q)
  PROVE  LET ruleset == (rules \ {r}) \cup {q}
         IN  IsFiniteSet(ruleset) /\ \A x \in ruleset : IsRule(x)
<1>1. IsFiniteSet(rules \ {r})
  BY FS_RemoveElement DEF RulesAreRules
<1>2. IsFiniteSet((rules \ {r}) \cup {q})
  BY <1>1, FS_AddElement
<1> QED
  BY <1>2 DEF RulesAreRules

LEMMA EditsKeepTypes ==
  ASSUME RulesAreRules, ApprovalsAreGrants,
         \/ \E a \in Grants : CreateContext(a) \/ RevokeContext(a)
         \/ \E r \in WrittenRules : CreateRule(r)
         \/ \E r \in rules : \/ SwitchRule(r) \/ DeleteRule(r)
                             \/ \E w \in WrittenRules : RewriteRule(r, w.conditions)
  PROVE  Loads
<1>1. ASSUME NEW a \in Grants, CreateContext(a) PROVE Loads
  <2>1. Load(rules, Append(approvals, a))
    BY <1>1, Zenon DEF CreateContext
  <2>2. Append(approvals, a) \in Seq(Grants)
    BY DEF ApprovalsAreGrants
  <2> QED
    BY <2>1, <2>2, Zenon DEF Loads, RulesAreRules
<1>2. ASSUME NEW a \in Grants, RevokeContext(a) PROVE Loads
  <2>1. PICK k \in DOMAIN approvals : Load(rules, RemoveAt(approvals, k))
    BY <1>2, Zenon DEF RevokeContext
  <2>2. RemoveAt(approvals, k) \in Seq(Grants)
    BY RemovedStays DEF ApprovalsAreGrants
  <2> QED
    BY <2>1, <2>2, Zenon DEF Loads, RulesAreRules
<1>3. ASSUME NEW r \in WrittenRules, CreateRule(r) PROVE Loads
  <2>1. Load(rules \cup {r}, approvals)
    BY <1>3, Zenon DEF CreateRule
  <2>2. IsFiniteSet(rules \cup {r})
    BY FS_AddElement DEF RulesAreRules
  <2>3. \A x \in rules \cup {r} : IsRule(x)
    BY WorkbenchAssumption DEF RulesAreRules
  <2> QED
    BY <2>1, <2>2, <2>3, Zenon DEF Loads, ApprovalsAreGrants
<1>4. ASSUME NEW r \in rules, SwitchRule(r) PROVE Loads
  <2> DEFINE q == [r EXCEPT !.enabled = ~r.enabled]
  <2>1. Load((rules \ {r}) \cup {q}, approvals)
    BY <1>4, Zenon DEF SwitchRule
  <2>2. IsRule(q)
    BY DEF RulesAreRules, IsRule
  <2> HIDE DEF q
  <2> DEFINE ruleset == (rules \ {r}) \cup {q}
  <2>3. IsFiniteSet(ruleset) /\ \A x \in ruleset : IsRule(x)
    BY <2>2, ReplacedRule
  <2> QED
    BY <2>1, <2>3, Zenon DEF Loads, ApprovalsAreGrants
<1>5. ASSUME NEW r \in rules, DeleteRule(r) PROVE Loads
  <2>1. Load(rules \ {r}, approvals)
    BY <1>5, Zenon DEF DeleteRule
  <2>2. IsFiniteSet(rules \ {r})
    BY FS_RemoveElement DEF RulesAreRules
  <2> QED
    BY <2>1, <2>2, Zenon DEF Loads, ApprovalsAreGrants, RulesAreRules
<1>6. ASSUME NEW r \in rules, NEW w \in WrittenRules, RewriteRule(r, w.conditions) PROVE Loads
  <2> DEFINE q == [r EXCEPT !.conditions = w.conditions]
  <2>1. Load((rules \ {r}) \cup {q}, approvals)
    BY <1>6, Zenon DEF RewriteRule
  <2>2. IsRule(q)
    BY DEF RulesAreRules, IsRule
  <2> HIDE DEF q
  <2> DEFINE ruleset == (rules \ {r}) \cup {q}
  <2>3. IsFiniteSet(ruleset) /\ \A x \in ruleset : IsRule(x)
    BY <2>2, ReplacedRule
  <2> QED
    BY <2>1, <2>3, Zenon DEF Loads, ApprovalsAreGrants
<1> QED
  BY <1>1, <1>2, <1>3, <1>4, <1>5, <1>6

(* Type correctness of the investigation: window, history, rules and       *)
(* approvals.                                                              *)
LEMMA BenchStaysTyped ==
  ASSUME BenchTyped, WindowIsObserved', [BenchNext]_benchVars
  PROVE  BenchTyped'
<1>1. CASE UNCHANGED benchVars
  BY <1>1 DEF BenchTyped, benchVars, WindowIsObserved, LearnedIsObserved, RulesAreRules, ApprovalsAreGrants
<1>2. ASSUME NEW form \in Forms, NEW t \in Instants, IngestEvent(form, t) PROVE BenchTyped'
  <2>1. learned' = learned /\ rules' = rules /\ approvals' = approvals
    BY <1>2, Zenon DEF IngestEvent, ScoredWith
  <2> QED
    BY <2>1 DEF BenchTyped, LearnedIsObserved, RulesAreRules, ApprovalsAreGrants
<1>3. ASSUME Learn PROVE BenchTyped'
  <2>1. learned' = Past \o window /\ rules' = rules /\ approvals' = approvals
    BY <1>3, Zenon DEF Learn, ScoredWith
  <2>2. window \in Seq(Observations)
    BY ObservedHistory DEF BenchTyped, WindowIsObserved
  <2>3. Past \o window \in Seq(Observations)
    BY <2>2, WorkbenchAssumption, ConcatProperties
  <2> QED
    BY <2>1, <2>3 DEF BenchTyped, LearnedIsObserved, RulesAreRules, ApprovalsAreGrants
<1>4. ASSUME Loads PROVE BenchTyped'
  <2>1. PICK ruleset, records :
          /\ Load(ruleset, records)
          /\ IsFiniteSet(ruleset) /\ \A r \in ruleset : IsRule(r)
          /\ records \in Seq(Grants)
    BY <1>4 DEF Loads
  <2>2. rules' = ruleset /\ approvals' = records /\ learned' = learned
    BY <2>1, Zenon DEF Load
  <2> QED
    BY <2>1, <2>2 DEF BenchTyped, LearnedIsObserved, RulesAreRules, ApprovalsAreGrants
<1> QED
  <2>1. RulesAreRules /\ ApprovalsAreGrants
    BY DEF BenchTyped
  <2> QED
    BY <1>1, <1>2, <1>3, <1>4, <2>1, EditsKeepTypes, Zenon DEF BenchNext

(* Window and history are observations, rules are rules and finitely many, *)
(* approvals were granted (Workbench), whatever is ingested, learned,      *)
(* granted and edited.                                                     *)
THEOREM BenchIsTyped == BenchSpec => []BenchTyped
<1>1. BenchInit => BenchTyped
  <2> SUFFICES ASSUME BenchInit PROVE BenchTyped
    OBVIOUS
  <2>1. window = <<>> /\ learned = Past /\ rules = FirstRules /\ approvals = <<>>
    BY DEF BenchInit
  <2>2. /\ Past \in Seq(Observations) /\ IsFiniteSet(FirstRules)
        /\ \A r \in FirstRules : IsRule(r)
    BY WorkbenchAssumption
  <2> QED
    BY <2>1, <2>2 DEF BenchTyped, WindowIsObserved, LearnedIsObserved, RulesAreRules, ApprovalsAreGrants
<1>2. BenchTyped /\ WindowIsObserved' /\ [BenchNext]_benchVars => BenchTyped'
  BY BenchStaysTyped
<1> QED
  BY <1>1, <1>2, WindowsAreObserved, PTL DEF BenchSpec

(* What a scoring is given, as far as its arithmetic reads it.             *)
GivenTyped(given) ==
  /\ Remembered(given.baseline)
  /\ \A a \in DOMAIN given.indicators : given.indicators[a] \in 0..100
  /\ given.multiplier \in Nat
  /\ Boosting(given.rules)
  /\ given.approvals \in Seq(Grants)

LEMMA GivenIsTyped ==
  ASSUME BenchTyped, HabitsAreLearned
  PROVE  GivenTyped(Given(baseline, rules, approvals))
<1> DEFINE given == Given(baseline, rules, approvals)
<1>1. /\ given.baseline = baseline /\ given.indicators = Indicators
      /\ given.multiplier = Multiplier /\ given.rules = rules /\ given.approvals = approvals
  BY DEF Given
<1>2. Remembered(baseline)
  BY BuildRemembers DEF BenchTyped, LearnedIsObserved, HabitsAreLearned
<1>3. Boosting(rules)
  BY DEF BenchTyped, RulesAreRules, IsRule, Boosting
<1>4. approvals \in Seq(Grants)
  BY DEF BenchTyped, ApprovalsAreGrants
<1>5. Multiplier \in Nat /\ \A a \in DOMAIN Indicators : Indicators[a] \in 0..100
  BY WorkbenchAssumption
<1> HIDE DEF given
<1> QED
  BY <1>1, <1>2, <1>3, <1>4, <1>5 DEF GivenTyped, given

(* The last place of the loop is that of an event before.                  *)
LEMMA LocatedType ==
  ASSUME NEW history \in Seq(Observations), NEW given
  PROVE  \A k \in 0..Len(history) : Trajectory(history, given)[k].located \in Located
<1> DEFINE n == Len(history)
           t == Trajectory(history, given)
           Good == {k \in 0..n : t[k].located \in Located}
<1>1. n \in Nat /\ \A k \in 1..n : history[k] \in Observations
  OBVIOUS
<1>2. t[0] = Unscored /\ \A k \in 1..n : t[k] = ScoreNext(t[k - 1], history[k], given)
  BY <1>1, TrajectoryRuns
<1> HIDE DEF t
<1>3. 0 \in Good
  BY <1>1, <1>2 DEF Unscored, Located
<1>4. ASSUME NEW k \in 1..n, k - 1 \in Good PROVE k \in Good
  <2>1. \A s, e : ScoreNext(s, e, given).located = IF e.place = Nowhere THEN s.located ELSE <<e>>
    BY ScoreAppends
  <2>2. t[k].located = IF history[k].place = Nowhere THEN t[k - 1].located ELSE <<history[k]>>
    <3>1. t[k] = ScoreNext(t[k - 1], history[k], given)
      BY <1>2
    <3>2. ScoreNext(t[k - 1], history[k], given).located
            = IF history[k].place = Nowhere THEN t[k - 1].located ELSE <<history[k]>>
      BY <2>1, Zenon
    <3> QED
      BY <3>1, <3>2
  <2>3. t[k - 1].located \in Located /\ <<history[k]>> \in Located
    BY <1>1, <1>4 DEF Located
  <2> QED
    BY <2>2, <2>3
<1>5. 0..n \subseteq Good
  <2> HIDE DEF Good, n
  <2> QED
    BY <1>1, <1>3, <1>4, HandedOn
<1> QED
  BY <1>5 DEF t

(* Each event of a window has scores for vectors.                          *)
LEMMA EventVectors ==
  ASSUME NEW history \in Seq(Observations), NEW given, GivenTyped(given), NEW k \in 1..Len(history)
  PROVE  VectorsNext(Trajectory(history, given)[k - 1], history[k], given) \in VectorSet
<1> DEFINE n == Len(history)
           s == Trajectory(history, given)[k - 1]
           e == history[k]
           past == [j \in DOMAIN s.scored |-> s.scored[j].event]
           known == [j \in 1..k - 1 |-> history[j]]
           today == {j \in DOMAIN past : Day(past[j]) = Day(e)}
           amounts == [j \in DOMAIN past |-> IF j \in today THEN past[j].bytes ELSE 0]
           bytes == e.bytes + Total(amounts)
<1>1. n \in Nat /\ k \in 1..n /\ \A j \in 1..n : history[j] \in Observations
  OBVIOUS
<1>2. past = known
  <2>1. k - 1 \in 0..Len(history)
    BY <1>1
  <2> QED
    BY <1>1, <2>1, PastIsKnown
<1>3. VectorsNext(s, e, given)
        = Vectors(e, given.baseline, given.who, given.cohort, s.located,
                  Cardinality(today) + 1, bytes, given.indicators)
  BY Zenon DEF VectorsNext
<1>4. s.located \in Located
  <2>1. k - 1 \in 0..Len(history)
    BY <1>1
  <2> QED
    BY <2>1, LocatedType
<1>5. DOMAIN past = 1..k - 1 /\ \A j \in 1..k - 1 : past[j] \in Observations
  <2> HIDE DEF past
  <2> QED
    BY <1>1, <1>2
<1>6. e.bytes \in Nat /\ \A j \in 1..k - 1 : past[j].bytes \in Nat
  BY <1>1, <1>5 DEF Observations
<1> HIDE DEF past, s
<1>7. Cardinality(today) \in Nat
  <2>1. today \in SUBSET (1..k - 1) /\ k - 1 \in Nat
    BY <1>1, <1>5
  <2> HIDE DEF today
  <2> QED
    BY <2>1, PlacesCount
<1>8. bytes \in Nat
  <2>1. amounts \in [1..k - 1 -> Nat] /\ k - 1 \in Nat
    BY <1>1, <1>5, <1>6
  <2> HIDE DEF amounts
  <2>2. Total(amounts) \in Nat
    BY <2>1, TotalBounds
  <2> HIDE DEF e
  <2> QED
    BY <1>6, <2>2
<1> HIDE DEF bytes, today
<1>9. Cardinality(today) + 1 \in Nat
  BY <1>7
<1>10. Vectors(e, given.baseline, given.who, given.cohort, s.located,
               Cardinality(today) + 1, bytes, given.indicators) \in VectorSet
  <2>1. e \in Observations
    BY <1>1
  <2> HIDE DEF e
  <2> QED
    BY <1>4, <1>8, <1>9, <2>1, VectorsType DEF GivenTyped
<1> QED
  BY <1>3, <1>10 DEF s

(* One more rule never lowers a score: the rules that hit are among those  *)
(* that hit with it, and the boosts of more rules are no less.             *)
LEMMA MoreRulesScoreMore ==
  ASSUME NEW history \in Seq(Observations), NEW k \in 1..Len(history), NEW given, NEW other,
         GivenTyped(given), GivenTyped(other), SameHabits(given, other),
         given.approvals = other.approvals, given.multiplier = other.multiplier,
         RiskBlind(given.rules),
         {r \in given.rules : r.enabled} \subseteq {r \in other.rules : r.enabled}
  PROVE  LET was == Trajectory(history, given)[Len(history)].scored[k]
             is == Trajectory(history, other)[Len(history)].scored[k]
         IN  is.score >= was.score
<1> DEFINE e == history[k]
           v == VectorsNext(Trajectory(history, given)[k - 1], e, given)
           w == VectorsNext(Trajectory(history, other)[k - 1], e, other)
           was == Trajectory(history, given)[Len(history)].scored[k]
           is == Trajectory(history, other)[Len(history)].scored[k]
           c == Covered(e, given)
           fused == Fused(v, given.multiplier)
           Few(risk) == Match(given.rules, FactsAt(e, v, given, risk), c)
           Many(risk) == Match(other.rules, FactsAt(e, v, given, risk), c)
<1>0. Len(history) \in Nat
  OBVIOUS
<1>1. v = w
  BY <1>0, SameVectors
<1>2. PICK x : MadeBy(was, v, given, Few(x))
  BY <1>0, ScoredByHits
<1>3. PICK y : MadeBy(is, w, other, Match(other.rules, FactsAt(e, w, other, y), Covered(e, other)))
  BY <1>0, ScoredByHits
<1>4. v \in VectorSet
  BY EventVectors
<1> HIDE DEF was, is, v, w, e
<1>5. /\ FactsAt(e, w, other, y) = FactsAt(e, v, given, y)
      /\ Fused(w, other.multiplier) = fused
      /\ Covered(e, other) = c
  BY <1>1, Zenon DEF FactsAt, Covered
<1>6. fused \in 0..100
  BY <1>4, FusedType DEF GivenTyped
<1> HIDE DEF fused, c
<1>7. /\ was.score = Smaller(100, fused + TotalBoost(Few(x)))
      /\ is.score = Smaller(100, fused + TotalBoost(Many(y)))
  BY <1>2, <1>3, <1>5, Zenon DEF MadeBy, fused
<1>8. Few(x) \subseteq Many(y)
  <2>1. AgreeButRisk(FactsAt(e, v, given, x), FactsAt(e, v, given, y))
    BY FactsButRisk DEF FactsAt
  <2>2. \A r \in given.rules :
          Evaluate(r.conditions, FactsAt(e, v, given, x)) = Evaluate(r.conditions, FactsAt(e, v, given, y))
    BY <2>1, BlindEvaluates DEF RiskBlind
  <2>3. \A r \in given.rules : r.enabled => r \in other.rules
    OBVIOUS
  <2> QED
    BY <2>2, <2>3, Zenon DEF Match, Evaluated
<1>9. Boosting(Many(y))
  <2>1. Many(y) \in SUBSET other.rules
    BY DEF Match, Evaluated
  <2> HIDE DEF Many
  <2> QED
    BY <2>1, FS_Subset DEF GivenTyped, Boosting
<1> HIDE DEF Few, Many
<1>10. /\ TotalBoost(Few(x)) \in 0..BoostCap /\ TotalBoost(Many(y)) \in 0..BoostCap
       /\ TotalBoost(Few(x)) <= TotalBoost(Many(y))
  BY <1>8, <1>9, BoostsOnlyAdd
<1>11. is.score >= was.score
  <2> DEFINE a == TotalBoost(Few(x))
             b == TotalBoost(Many(y))
  <2>1. a \in Nat /\ b \in Nat /\ a <= b /\ fused \in Nat
    <3>1. a \in 0..BoostCap /\ b \in 0..BoostCap /\ a <= b
      BY <1>10
    <3> HIDE DEF a, b
    <3> QED
      BY <1>6, <3>1 DEF BoostCap
  <2>2. was.score = Smaller(100, fused + a) /\ is.score = Smaller(100, fused + b)
    BY <1>7
  <2> HIDE DEF a, b
  <2>3. Smaller(100, fused + b) >= Smaller(100, fused + a)
    BY <2>1 DEF Smaller
  <2> QED
    BY <2>2, <2>3
<1> QED
  BY <1>11 DEF was, is

(* One more rule, or one switched on, never lowers the score of an event   *)
(* (RuleEngine.match and total_boost, engine/rules.py), however many hit   *)
(* already and in whatever order they count, as long as no rule asks for   *)
(* the risk so far.                                                        *)
THEOREM RulesNeverLower == BenchSpec => RulesOnlyAdd
<1> DEFINE More == /\ Same(window, learned) /\ approvals' = approvals
                   /\ Works(report) /\ Works(report')
                   /\ RiskBlind(rules)
                   /\ {r \in rules : r.enabled} \subseteq {r \in rules' : r.enabled}
           NoLower == \A k \in DOMAIN window :
                        report'.result.scored[k].score >= report.result.scored[k].score
<1>1. ASSUME ReportIsCurrent, ReportIsCurrent', HabitsAreLearned, HabitsAreLearned',
             BenchTyped, BenchTyped', More
      PROVE  NoLower
  <2> DEFINE given == Given(baseline, rules, approvals)
             other == Given(baseline, rules', approvals)
             n == Len(window)
  <2>1. window' = window /\ learned' = learned /\ approvals' = approvals
    BY <1>1 DEF Same
  <2>2. baseline' = baseline
    BY <1>1, <2>1 DEF HabitsAreLearned
  <2>3. window \in Seq(Observations) /\ DOMAIN window = 1..n
    BY <1>1, ObservedHistory DEF BenchTyped, WindowIsObserved
  <2>4. report.result.scored = Trajectory(window, given)[n].scored
    BY <1>1, ReportHas DEF ReportIsCurrent
  <2>5. report'.result.scored = Trajectory(window, other)[n].scored
    <3>1. report' = Report(window, baseline, rules', approvals)
      BY <1>1, <2>1, <2>2 DEF ReportIsCurrent
    <3> QED
      BY <3>1, ReportHas
  <2>6. /\ SameHabits(given, other) /\ given.multiplier = other.multiplier
        /\ given.rules = rules /\ other.rules = rules' /\ given.approvals = other.approvals
    BY DEF Given, SameHabits
  <2>7. GivenTyped(given)
    BY <1>1, GivenIsTyped
  <2>8. GivenTyped(other)
    <3>1. /\ other.baseline = given.baseline /\ other.indicators = given.indicators
          /\ other.multiplier = given.multiplier /\ other.approvals = given.approvals
      BY DEF Given
    <3>2. Boosting(rules')
      BY <1>1 DEF BenchTyped, RulesAreRules, IsRule, Boosting
    <3> HIDE DEF given, other
    <3> QED
      BY <2>6, <2>7, <3>1, <3>2 DEF GivenTyped
  <2> HIDE DEF given, other
  <2> SUFFICES ASSUME NEW k \in 1..n
               PROVE  report'.result.scored[k].score >= report.result.scored[k].score
    BY <2>3
  <2>9. Trajectory(window, other)[n].scored[k].score >= Trajectory(window, given)[n].scored[k].score
    <3>1. RiskBlind(given.rules) /\ {r \in given.rules : r.enabled} \subseteq {r \in other.rules : r.enabled}
      BY <1>1, <2>6
    <3> QED
      BY <2>3, <2>6, <2>7, <2>8, <3>1, MoreRulesScoreMore DEF n
  <2> QED
    BY <2>4, <2>5, <2>9
<1>2. ReportIsCurrent /\ ReportIsCurrent' /\ HabitsAreLearned /\ HabitsAreLearned'
        /\ BenchTyped /\ BenchTyped'
      => [More => NoLower]_benchVars
  BY <1>1
<1>3. [][More => NoLower]_benchVars => RulesOnlyAdd
  BY PTL DEF RulesOnlyAdd
<1> QED
  BY <1>2, <1>3, ReportsAreCurrent, BenchIsTyped, HabitsStay, PTL

(* The turn an event takes, in terms of what the loop has seen.            *)
GapAt(s, e) == IF s.scored = <<>> THEN 0 ELSE e.at - Last(s.scored).event.at

LEMMA JudgeTurns ==
  ASSUME NEW s, NEW e, NEW given, NEW vectors
  PROVE  LET judged == Judge(s, e, given, vectors)
         IN  /\ judged.turn = [gap |-> GapAt(s, e), score |-> judged.turn.score, tier |-> e.tier,
                               approval |-> BestFactor(given.approvals, e), tamper |-> Tampers(e)]
             /\ judged.vectors = vectors
BY DEF Judge, GapAt

(* An approval fits by none, or by one to three points.                    *)
LEMMA SpecificityType ==
  ASSUME NEW a, NEW e
  PROVE  Specificity(a, e) \in 0..3
<1> DEFINE rest == IF a.actions # {} /\ e.action \notin a.actions THEN 0
                   ELSE IF a.targets = {} THEN 1
                   ELSE IF \E t \in a.targets : Has(e.resource, t) \/ Has(t, e.resource) THEN 2 ELSE 0
           named == a.ticket # "" /\ a.ticket \in e.tags
<1>1. Specificity(a, e) = CASE named -> 3 [] OTHER -> rest
  BY Zenon DEF Specificity
<1>2. rest \in 0..3
  OBVIOUS
<1> HIDE DEF rest, named
<1>3. (CASE named -> 3 [] OTHER -> rest) \in 0..3
  BY <1>2
<1> QED
  BY <1>1, <1>3

(* The factor of the approval that fits best (engine/context.py), if any.  *)
LEMMA BestFactorType ==
  ASSUME NEW records \in Seq(Grants), NEW e
  PROVE  /\ BestFactor(records, e) \in Factors \cup {NoApproval}
         /\ BestFactor(records, e) # NoApproval => records # <<>>
<1> DEFINE n == Len(records)
           fits(k) == IF Covers(records[k], e) THEN Specificity(records[k], e) ELSE 0
           fit == {fits(k) : k \in DOMAIN records}
           best == Max({0} \cup fit)
           fitting == {k \in DOMAIN records : fits(k) = best}
           a == records[Min(fitting)]
           factor == Larger(10, Smaller(95, a.factor))
<1>1. n \in Nat /\ DOMAIN records = 1..n /\ \A k \in 1..n : records[k] \in Grants
  OBVIOUS
<1>2. BestFactor(records, e) = IF best = 0 THEN NoApproval
                               ELSE IF best = 1 THEN Smaller(95, factor + 25) ELSE factor
  BY Zenon DEF BestFactor
<1>3. \A k \in DOMAIN records : fits(k) \in 0..3
  BY SpecificityType
<1>4. best \in {0} \cup fit
  <2>1. {0} \cup fit \in SUBSET (0..3) /\ {0} \cup fit # {}
    BY <1>3
  <2> HIDE DEF fit
  <2>2. 3 \in Nat
    OBVIOUS
  <2> QED
    BY <2>1, <2>2, MaxIsGreatest
<1>5. CASE best = 0
  BY <1>2, <1>5
<1>6. CASE best # 0
  <2>1. best \in fit
    BY <1>4, <1>6
  <2>2. PICK k \in 1..n : fits(k) = best
    <3> HIDE DEF fits, best
    <3> QED
      BY <1>1, <2>1
  <2>3. fitting \in SUBSET (1..n) /\ fitting # {}
    <3> HIDE DEF fits, best
    <3> QED
      BY <1>1, <2>2
  <2> HIDE DEF fitting
  <2>4. IsFiniteSet(fitting) /\ fitting \in SUBSET Nat
    BY <1>1, <2>3, PlacesCount
  <2>5. Min(fitting) \in fitting
    BY <2>3, <2>4, MinIsLeast
  <2>6. a \in Grants
    BY <1>1, <2>3, <2>5
  <2>7. a.factor \in Int
    BY <2>6, WorkbenchAssumption
  <2> HIDE DEF a
  <2>8. factor \in 10..95
    <3> DEFINE x == a.factor
    <3>1. x \in Int
      BY <2>7
    <3> HIDE DEF x
    <3>2. Larger(10, Smaller(95, x)) \in 10..95
      BY <3>1 DEF Larger, Smaller
    <3> QED
      BY <3>2 DEF x
  <2> HIDE DEF factor, best
  <2>9. BestFactor(records, e) \in 10..95
    BY <1>2, <1>6, <2>8 DEF Smaller
  <2>10. records # <<>>
    BY <1>1, <2>2
  <2> QED
    BY <2>9, <2>10, TurnAssumption
<1> QED
  BY <1>5, <1>6

(* Two events of a window are as far apart as the decay is known for.      *)
LEMMA GapType ==
  ASSUME NEW history \in Seq(Observed), NEW given, NEW k \in 1..Len(history)
  PROVE  GapAt(Trajectory(history, given)[k - 1], history[k]) \in Gaps
<1> DEFINE t == Trajectory(history, given)
           n == Len(history)
           scored == t[k - 1].scored
<1>1. n \in Nat /\ k \in 1..n /\ \A j \in 1..n : history[j] \in Observed
  OBVIOUS
<1>2. \A e \in Observed : e.at \in Instants
  <2> TAKE e \in Observed
  <2>1. PICK form \in Forms, u \in Instants : e = Occurring(form, u)
    BY DEF Observed
  <2>2. e \in Observations
    BY ObservedAreObservations
  <2>3. e = [form EXCEPT !.at = u] /\ "at" \in DOMAIN e
    BY <2>1, <2>2 DEF Occurring, Observations
  <2>4. e.at = u
    BY <2>3
  <2> QED
    BY <2>4
<1>3. CASE scored = <<>>
  BY <1>3, TurnAssumption DEF GapAt
<1>4. CASE scored # <<>>
  <2>1. k # 1
    <3>1. t[0] = Unscored
      BY <1>1, TrajectoryRuns
    <3> HIDE DEF t
    <3> QED
      BY <1>4, <3>1 DEF Unscored
  <2>2. k - 1 \in 1..n /\ k - 1 \in 0..n /\ k - 1 \in 1..k - 1
    BY <1>1, <2>1
  <2>3. Len(scored) = k - 1
    BY <1>1, <2>2, ScoredAtOwnTurn
  <2>4. scored[k - 1] = ScoredAs(history[k - 1], Judged(t[(k - 1) - 1], history[k - 1], given), t[k - 1].acc)
    BY <1>1, <2>2, ScoredAtOwnTurn
  <2>5. \A e, judged, after : ScoredAs(e, judged, after).event = e
    BY DEF ScoredAs
  <2> HIDE DEF t, scored
  <2>6. Last(scored).event = history[k - 1]
    BY <2>3, <2>4, <2>5 DEF Last
  <2>7. history[k].at \in Instants /\ history[k - 1].at \in Instants
    BY <1>1, <1>2, <2>2
  <2>8. GapAt(t[k - 1], history[k]) = history[k].at - history[k - 1].at
    BY <1>4, <2>6 DEF GapAt, scored
  <2> QED
    BY <2>7, <2>8, TurnAssumption DEF t
<1> QED
  BY <1>3, <1>4

(* The event as the accumulator sees it is an event of the accumulator.    *)
LEMMA JudgedIsEvent ==
  ASSUME NEW history \in Seq(Observed), NEW given, GivenTyped(given), NEW k \in 1..Len(history)
  PROVE  LET turn == Judged(Trajectory(history, given)[k - 1], history[k], given).turn
         IN  /\ turn \in Event
             /\ turn.tamper = Tampers(history[k])
             /\ turn.approval # NoApproval => given.approvals # <<>>
<1> DEFINE s == Trajectory(history, given)[k - 1]
           e == history[k]
           v == VectorsNext(s, e, given)
           judged == Judge(s, e, given, v)
           Hits(risk) == Match(given.rules, FactsAt(e, v, given, risk), Covered(e, given))
<1>1. history \in Seq(Observations) /\ e \in Observations
  BY ObservedHistory, ObservedAreObservations
<1>2. v \in VectorSet
  BY <1>1, EventVectors
<1>3. GapAt(s, e) \in Gaps
  BY GapType
<1>4. judged.turn = [gap |-> GapAt(s, e), score |-> judged.turn.score, tier |-> e.tier,
                     approval |-> BestFactor(given.approvals, e), tamper |-> Tampers(e)]
  BY JudgeTurns
<1>5. PICK risk : JudgedBy(judged, e, v, given, Hits(risk))
  BY JudgeHas
<1> HIDE DEF judged, v, s, e
<1>6. judged.turn.score = Smaller(100, Fused(v, given.multiplier) + TotalBoost(Hits(risk)))
  BY <1>5, Zenon DEF JudgedBy
<1>7. Fused(v, given.multiplier) \in 0..100
  BY <1>2, FusedType DEF GivenTyped
<1>8. TotalBoost(Hits(risk)) \in 0..BoostCap
  <2>1. Hits(risk) \in SUBSET given.rules
    BY DEF Match, Evaluated
  <2> HIDE DEF Hits
  <2>2. Boosting(Hits(risk))
    BY <2>1, FS_Subset DEF GivenTyped, Boosting
  <2> QED
    BY <2>2, BoostsOnlyAdd
<1>9. judged.turn.score \in Scores
  <2> DEFINE a == Fused(v, given.multiplier)
             b == TotalBoost(Hits(risk))
  <2>1. a \in 0..100 /\ b \in 0..BoostCap
    BY <1>7, <1>8
  <2> HIDE DEF a, b
  <2>2. Smaller(100, a + b) \in 0..100
    BY <2>1 DEF Smaller, BoostCap
  <2> QED
    BY <1>6, <2>2, TurnAssumption DEF a, b
<1>10. e.tier \in Tiers /\ Tampers(e) \in BOOLEAN
  BY <1>1, TurnAssumption DEF Observations, Tampers
<1>11. /\ BestFactor(given.approvals, e) \in Factors \cup {NoApproval}
       /\ BestFactor(given.approvals, e) # NoApproval => given.approvals # <<>>
  BY BestFactorType DEF GivenTyped
<1> DEFINE turn == judged.turn
<1>12. turn = [gap |-> GapAt(s, e), score |-> turn.score, tier |-> e.tier,
               approval |-> BestFactor(given.approvals, e), tamper |-> Tampers(e)]
  BY <1>4
<1>13. turn.score \in Scores
  BY <1>9
<1> HIDE DEF turn
<1>14. turn \in Event
  BY <1>3, <1>10, <1>11, <1>12, <1>13 DEF Event
<1>15. turn.tamper = Tampers(e) /\ turn.approval = BestFactor(given.approvals, e)
  BY <1>12
<1> QED
  BY <1>11, <1>14, <1>15 DEF turn, judged, v, s, e, Judged

(* What the alert modules are promised of an engine that has scored these  *)
(* events under these approvals.                                           *)
KindsOf(history) == {IF Tampers(history[k]) THEN "tamper" ELSE "ordinary" : k \in DOMAIN history}

AsPromised(acc0, history, n, given) ==
  /\ acc0 \in Accumulator
  /\ acc0.risk <= acc0.rawRisk
  /\ ~acc0.damped => acc0.risk = acc0.rawRisk
  /\ acc0.tamper <=> \E j \in 1..n : Tampers(history[j])
  /\ acc0.damped => given.approvals # <<>> /\ \E j \in 1..n : ~Tampers(history[j])
  /\ n = 0 => acc0.risk = RiskFloor

LEMMA LoopKeepsPromise ==
  ASSUME NEW history \in Seq(Observed), NEW given, GivenTyped(given)
  PROVE  \A k \in 0..Len(history) : AsPromised(Trajectory(history, given)[k].acc, history, k, given)
<1> DEFINE n == Len(history)
           t == Trajectory(history, given)
           Good == {k \in 0..n : AsPromised(t[k].acc, history, k, given)}
<1>1. n \in Nat
  OBVIOUS
<1>2. t[0] = Unscored /\ \A k \in 1..n : t[k] = ScoreNext(t[k - 1], history[k], given)
  BY <1>1, TrajectoryRuns
<1>3. ASSUME NEW k \in 1..n
      PROVE  LET turn == Judged(t[k - 1], history[k], given).turn
             IN  /\ turn \in Event
                 /\ turn.tamper = Tampers(history[k])
                 /\ turn.approval # NoApproval => given.approvals # <<>>
  BY JudgedIsEvent
<1> HIDE DEF t
<1>4. 0 \in Good
  <2>1. t[0].acc = Nothing
    BY <1>2 DEF Unscored
  <2>2. Nothing \in Accumulator
    BY DEF Nothing, Accumulator, Risk, RiskFloor
  <2>3. AsPromised(Nothing, history, 0, given)
    BY <2>2 DEF AsPromised, Nothing, RiskFloor
  <2> QED
    BY <1>1, <2>1, <2>3
<1>5. ASSUME NEW k \in 1..n, k - 1 \in Good PROVE k \in Good
  <2> DEFINE a == t[k - 1].acc
             b == t[k].acc
             turn == Judged(t[k - 1], history[k], given).turn
  <2>1. AsPromised(a, history, k - 1, given)
    BY <1>5
  <2>2. /\ turn \in Event /\ turn.tamper = Tampers(history[k])
        /\ turn.approval # NoApproval => given.approvals # <<>>
    BY <1>3
  <2>3. b = Turn(a, turn)
    <3>1. t[k] = ScoreNext(t[k - 1], history[k], given)
      BY <1>2
    <3>2. \A s, e, judged : Join(s, e, judged).acc = Turn(s.acc, judged.turn)
      BY DEF Join
    <3>3. \A s, e : ScoreNext(s, e, given) = Join(s, e, Judged(s, e, given))
      BY Zenon DEF ScoreNext, Judged
    <3>4. t[k].acc = Join(t[k - 1], history[k], Judged(t[k - 1], history[k], given)).acc
      BY <3>1, <3>3, Zenon
    <3>5. Join(t[k - 1], history[k], Judged(t[k - 1], history[k], given)).acc
            = Turn(t[k - 1].acc, Judged(t[k - 1], history[k], given).turn)
      BY <3>2, Zenon
    <3> QED
      BY <3>4, <3>5, Zenon DEF a, b, turn
  <2> HIDE DEF a, b, turn
  <2>4. a \in Accumulator /\ a.risk <= a.rawRisk /\ (~a.damped => a.risk = a.rawRisk)
    BY <2>1 DEF AsPromised
  <2>5. b \in Accumulator /\ b.risk <= b.rawRisk
    BY <2>2, <2>3, <2>4, TurnType, TurnOrder
  <2>6. b.damped = (a.damped \/ Damps(turn)) /\ b.tamper = (a.tamper \/ turn.tamper)
    BY <2>3 DEF Turn
  <2>7. a.damped \in BOOLEAN /\ a.tamper \in BOOLEAN /\ turn.tamper \in BOOLEAN
    BY <2>2, <2>4 DEF Accumulator, Event
  <2>8. ~b.damped => b.risk = b.rawRisk
    BY <2>2, <2>3, <2>4, <2>6, <2>7, TurnAgrees, Zenon
  <2>9. \A j : j \in 1..k <=> j \in 1..k - 1 \/ j = k
    OBVIOUS
  <2>10. b.tamper <=> \E j \in 1..k : Tampers(history[j])
    <3>1. a.tamper <=> \E j \in 1..k - 1 : Tampers(history[j])
      BY <2>1 DEF AsPromised
    <3> QED
      BY <2>2, <2>6, <2>7, <2>9, <3>1, Zenon
  <2>11. b.damped => given.approvals # <<>> /\ \E j \in 1..k : ~Tampers(history[j])
    <3>1. a.damped => given.approvals # <<>> /\ \E j \in 1..k - 1 : ~Tampers(history[j])
      BY <2>1 DEF AsPromised
    <3>2. Damps(turn) => ~turn.tamper /\ turn.approval # NoApproval
      BY DEF Damps
    <3> QED
      BY <2>2, <2>6, <2>7, <2>9, <3>1, <3>2, Zenon
  <2>12. k # 0
    OBVIOUS
  <2>13. AsPromised(b, history, k, given)
    BY <2>5, <2>8, <2>10, <2>11, <2>12, Zenon DEF AsPromised
  <2>14. k \in 0..n
    BY <1>1
  <2> QED
    BY <2>13, <2>14 DEF b
<1>6. 0..n \subseteq Good
  <2> HIDE DEF Good, n
  <2> QED
    BY <1>1, <1>4, <1>5, HandedOn
<1> QED
  BY <1>6 DEF t

(* What a report says keeps the promise: its risks are risks, damping only *)
(* lowers, and with its flags it is a result the alert modules allow for.  *)
ReportAsPromised ==
  /\ [risk |-> report.result.risk, tamper |-> report.result.tamper, damped |-> report.result.damped]
       \in Desk!Correlate(KindsOf(window), approvals # <<>>)
  /\ report.result.risk <= report.result.rawRisk
  /\ ~report.result.damped => report.result.risk = report.result.rawRisk

LEMMA SummaryHas ==
  ASSUME NEW history, NEW habits, NEW ruleset, NEW records
  PROVE  LET result == Report(history, habits, ruleset, records).result
             acc0 == Trajectory(history, Given(habits, ruleset, records))[Len(history)].acc
         IN  /\ result.risk = acc0.risk /\ result.rawRisk = acc0.rawRisk
             /\ result.tamper = acc0.tamper /\ result.damped = acc0.damped
<1> DEFINE given == Given(habits, ruleset, records)
           s == Trajectory(history, given)[Len(history)]
           result == Correlate(history, given)
           r == Report(history, habits, ruleset, records)
<1>1. result = Summary(s)
  BY DEF Correlate
<1>2. r = Explained(history, given, result)
  BY DEF Report, Investigate
<1> HIDE DEF given, s, result, r
<1>3. /\ result.risk = s.acc.risk /\ result.rawRisk = s.acc.rawRisk
      /\ result.tamper = s.acc.tamper /\ result.damped = s.acc.damped
  BY <1>1 DEF Summary
<1>4. r.result = result
  BY <1>2 DEF Explained
<1> QED
  BY <1>3, <1>4 DEF r, s, given

(* The engine as a whole keeps the promise the alert modules are built on  *)
(* (correlate, engine/sequence.py): whatever is ingested, learned, granted *)
(* and ruled, what it makes of the window, from vectors to damped risk, is *)
(* a result of AlertTable!Correlate for the events in it, and the damped   *)
(* risk is at most the raw one.                                            *)
THEOREM ReportKeepsPromise == BenchSpec => []ReportAsPromised
<1>1. ReportIsCurrent /\ HabitsAreLearned /\ BenchTyped => ReportAsPromised
  <2> SUFFICES ASSUME ReportIsCurrent, HabitsAreLearned, BenchTyped PROVE ReportAsPromised
    OBVIOUS
  <2> DEFINE given == Given(baseline, rules, approvals)
             n == Len(window)
             acc0 == Trajectory(window, given)[n].acc
             result == report.result
             kinds == KindsOf(window)
  <2>1. window \in Seq(Observed) /\ n \in Nat /\ DOMAIN window = 1..n
    BY DEF BenchTyped, WindowIsObserved
  <2>2. AsPromised(acc0, window, n, given)
    BY <2>1, GivenIsTyped, LoopKeepsPromise
  <2>3. /\ result.risk = acc0.risk /\ result.rawRisk = acc0.rawRisk
        /\ result.tamper = acc0.tamper /\ result.damped = acc0.damped
    BY SummaryHas DEF ReportIsCurrent
  <2>4. given.approvals = approvals
    BY DEF Given
  <2> HIDE DEF given, acc0, result, n
  <2>5. /\ result.risk \in Risk /\ result.tamper \in BOOLEAN /\ result.damped \in BOOLEAN
        /\ result.risk <= result.rawRisk
        /\ ~result.damped => result.risk = result.rawRisk
    BY <2>2, <2>3 DEF AsPromised, Accumulator
  <2>6. result.tamper <=> "tamper" \in kinds
    <3>1. ("tamper" \in kinds) <=> \E j \in 1..n : Tampers(window[j])
      BY <2>1 DEF KindsOf
    <3> QED
      BY <2>2, <2>3, <3>1 DEF AsPromised
  <2>7. result.damped => approvals # <<>> /\ "ordinary" \in kinds
    <3>1. (\E j \in 1..n : ~Tampers(window[j])) => "ordinary" \in kinds
      BY <2>1 DEF KindsOf
    <3> QED
      BY <2>2, <2>3, <2>4, <3>1 DEF AsPromised
  <2>8. kinds = {} => result.risk = RiskFloor
    <3>1. n # 0 => 1 \in DOMAIN window
      BY <2>1
    <3>2. 1 \in DOMAIN window => kinds # {}
      BY Zenon DEF KindsOf
    <3>3. kinds = {} => n = 0
      BY <3>1, <3>2
    <3> QED
      BY <2>2, <2>3, <3>3 DEF AsPromised
  <2> HIDE DEF kinds
  <2>9. [risk |-> result.risk, tamper |-> result.tamper, damped |-> result.damped]
          \in Desk!Correlate(kinds, approvals # <<>>)
    BY <2>5, <2>6, <2>7, <2>8 DEF Desk!Correlate, Desk!Result, RiskFloor
  <2> QED
    BY <2>5, <2>9 DEF ReportAsPromised, result, kinds
<1> QED
  BY <1>1, ReportsAreCurrent, HabitsStay, BenchIsTyped, PTL

(* Verdict, stance and recommended actions agree (explain.py, copilot.py), *)
(* whatever the events, rules and approvals, if the critical threshold is  *)
(* at least the 30 below which damping makes a verdict; the API accepts    *)
(* thresholds from 20.                                                     *)
THEOREM AdviceIsConsistent == Critical >= 30 => (BenchSpec => []AdviceAgrees)
<1> SUFFICES ASSUME Critical >= 30 PROVE BenchSpec => []AdviceAgrees
  OBVIOUS
<1>1. ReportIsCurrent /\ ReportAsPromised => AdviceAgrees
  <2> SUFFICES ASSUME ReportIsCurrent, ReportAsPromised PROVE AdviceAgrees
    OBVIOUS
  <2>1. /\ report.result.state = State(report.result.risk)
        /\ report.explanation.verdict = Verdict(report.result)
        /\ report.explanation.actions = RecommendedActions(report.result)
    BY ReportHas DEF ReportIsCurrent
  <2>2. Answer({"is_malicious"}, report.explanation, report.blast).says
          = Stance(Verdict(report.result))
    BY <2>1, SaidIsStance
  <2>3. Advised = {a[1] : a \in RecommendedActions(report.result)}
    BY <2>1 DEF Advised
  <2>4. report.result.risk \in Int
    <3> DEFINE r == [risk |-> report.result.risk, tamper |-> report.result.tamper,
                     damped |-> report.result.damped]
    <3>1. r \in Desk!Result
      BY DEF ReportAsPromised, Desk!Correlate
    <3>2. r.risk \in Risk
      BY <3>1, Zenon DEF Desk!Result
    <3> QED
      BY <3>2 DEF Risk, RiskFloor
  <2> QED
    BY <2>1, <2>2, <2>3, <2>4, VerdictMeetsActions DEF AdviceAgrees
<1> QED
  BY <1>1, ReportsAreCurrent, ReportKeepsPromise, PTL

-----------------------------------------------------------------------------
(* A quotient whose cross product is no larger is no larger.               *)
LEMMA QuotientGrows ==
  ASSUME NEW a \in Nat, NEW b \in Nat \ {0}, NEW c \in Nat, NEW d \in Nat \ {0},
         a * d <= c * b
  PROVE  a \div b <= c \div d
<1> DEFINE q == a \div b
           p == c \div d
<1>1. q \in Nat /\ p \in Nat
  BY QuotientType
<1>2. b * q <= a
  OBVIOUS
<1>3. c < d * (p + 1)
  OBVIOUS
<1> HIDE DEF q, p
<1>4. ASSUME q >= p + 1 PROVE FALSE
  <2>1. (b * q) * d <= a * d
    BY <1>1, <1>2, Z3
  <2>2. b * (p + 1) <= b * q
    BY <1>1, <1>4, Z3
  <2>3. (b * (p + 1)) * d <= (b * q) * d
    BY <1>1, <2>2, Z3
  <2>4. c * b < (d * (p + 1)) * b
    BY <1>1, <1>3, Z3
  <2>5. (b * (p + 1)) * d = (d * (p + 1)) * b
    BY <1>1, Z3
  <2> DEFINE x1 == (b * q) * d
             x2 == a * d
             x3 == (b * (p + 1)) * d
             x4 == c * b
  <2>6. x1 \in Int /\ x2 \in Int /\ x3 \in Int /\ x4 \in Int
    BY <1>1
  <2>7. x1 <= x2 /\ x3 <= x1 /\ x4 < x3 /\ x2 <= x4
    BY <2>1, <2>3, <2>4, <2>5
  <2> HIDE DEF x1, x2, x3, x4
  <2> QED
    BY <2>6, <2>7
<1> QED
  BY <1>1, <1>4 DEF q, p

(* The places that have a trait, one place later.                          *)
LEMMA PlaceAdded ==
  ASSUME NEW n \in Nat, NEW places \in SUBSET (1..n), NEW more \in SUBSET (1..n + 1),
         \A k \in 1..n : k \in more <=> k \in places
  PROVE  /\ n + 1 \in more => Cardinality(more) = Cardinality(places) + 1
         /\ n + 1 \notin more => more = places
<1>1. IsFiniteSet(places) /\ n + 1 \notin places
  BY PlacesCount
<1>2. \A k : k \in more => k \in places \/ k = n + 1
  <2>1. \A k \in 1..n + 1 : k \in 1..n \/ k = n + 1
    OBVIOUS
  <2> QED
    BY <2>1
<1>3. places \subseteq more
  OBVIOUS
<1>4. ASSUME n + 1 \in more PROVE Cardinality(more) = Cardinality(places) + 1
  <2>1. more = places \cup {n + 1}
    BY <1>2, <1>3, <1>4
  <2> QED
    BY <1>1, <2>1, FS_AddElement
<1>5. ASSUME n + 1 \notin more PROVE more = places
  BY <1>2, <1>3, <1>5
<1> QED
  BY <1>4, <1>5

(* What is kept of the resources of a history, by how often each occurs.   *)
Occurs(history, r) == Cardinality({k \in DOMAIN history : history[k].resource = r})
FirstOf(history, r) ==
  CHOOSE k \in DOMAIN history : history[k].resource = r /\ \A j \in 1..k - 1 : history[j].resource # r
Ahead(history, r) ==
  {q \in {history[k].resource : k \in DOMAIN history} :
     \/ Occurs(history, q) > Occurs(history, r)
     \/ Occurs(history, q) = Occurs(history, r) /\ FirstOf(history, q) < FirstOf(history, r)}

LEMMA MostCommonHas ==
  ASSUME NEW history \in Seq(Observations), NEW n
  PROVE  MostCommon(history, n) = {r \in {history[k].resource : k \in DOMAIN history} :
                                     Cardinality(Ahead(history, r)) < n}
<1> DEFINE of == [k \in DOMAIN history |-> history[k].resource]
           named == {of[k] : k \in DOMAIN of}
           count == [r \in named |-> Count(history, LAMBDA e : e.resource = r)]
           first == [r \in named |-> CHOOSE k \in DOMAIN of : of[k] = r /\ \A j \in 1..k - 1 : of[j] # r]
           Before(q, r) == count[q] > count[r] \/ (count[q] = count[r] /\ first[q] < first[r])
<1>1. MostCommon(history, n) = {r \in named : Cardinality({q \in named : Before(q, r)}) < n}
  BY DEF MostCommon
<1>2. named = {history[k].resource : k \in DOMAIN history}
  OBVIOUS
<1>3. \A r \in named : count[r] = Occurs(history, r)
  BY DEF Count, Occurs
<1>4. \A r \in named : first[r] = FirstOf(history, r)
  <2>1. \A k \in DOMAIN history : 1..k - 1 \subseteq DOMAIN history
    OBVIOUS
  <2>2. DOMAIN of = DOMAIN history /\ \A k \in DOMAIN history : of[k] = history[k].resource
    OBVIOUS
  <2>3. ASSUME NEW r \in named, NEW k \in DOMAIN history
        PROVE  (of[k] = r /\ \A j \in 1..k - 1 : of[j] # r)
                 <=> (history[k].resource = r /\ \A j \in 1..k - 1 : history[j].resource # r)
    BY <2>1, <2>2
  <2>4. ASSUME NEW r \in named
        PROVE  (CHOOSE k \in DOMAIN of : of[k] = r /\ \A j \in 1..k - 1 : of[j] # r)
                 = (CHOOSE k \in DOMAIN history : history[k].resource = r
                                                  /\ \A j \in 1..k - 1 : history[j].resource # r)
    <3> HIDE DEF of, named
    <3> QED
      BY <2>2, <2>3, Zenon
  <2> QED
    BY <2>4 DEF FirstOf
<1> HIDE DEF named, count, first
<1>5. ASSUME NEW r \in named PROVE {q \in named : Before(q, r)} = Ahead(history, r)
  BY <1>2, <1>3, <1>4 DEF Ahead
<1> QED
  BY <1>1, <1>2, <1>5

(* A resource that occurs is first somewhere.                              *)
LEMMA FirstOfType ==
  ASSUME NEW history \in Seq(Observations), NEW k \in DOMAIN history
  PROVE  FirstOf(history, history[k].resource) \in Nat
<1> DEFINE r == history[k].resource
           places == {j \in DOMAIN history : history[j].resource = r}
           n == Len(history)
<1>1. n \in Nat /\ DOMAIN history = 1..n
  OBVIOUS
<1>2. IsFiniteSet(places) /\ places \in SUBSET Nat /\ places # {}
  <2>1. places \in SUBSET (1..n)
    BY <1>1
  <2>2. k \in places
    OBVIOUS
  <2> HIDE DEF places, n
  <2>3. IsFiniteSet(places)
    BY <1>1, <2>1, PlacesCount
  <2> QED
    BY <1>1, <2>1, <2>2, <2>3
<1>3. PICK m \in places : \A j \in places : m <= j
  <2> HIDE DEF places
  <2> QED
    BY <1>2, MinIsLeast
<1>4. \E f \in DOMAIN history : history[f].resource = r /\ \A j \in 1..f - 1 : history[j].resource # r
  <2>1. m \in DOMAIN history /\ history[m].resource = r
    OBVIOUS
  <2>2. \A j \in 1..m - 1 : j \in DOMAIN history /\ ~(m <= j)
    BY <1>1, <2>1
  <2>3. \A j \in 1..m - 1 : history[j].resource # r
    BY <1>3, <2>2
  <2> QED
    BY <2>1, <2>3
<1> HIDE DEF r
<1>5. FirstOf(history, r) \in DOMAIN history
  BY <1>4 DEF FirstOf
<1> QED
  BY <1>1, <1>5 DEF r

(* A history that goes on with one more event.                             *)
LEMMA OneMore ==
  ASSUME NEW before \in Seq(Observations), NEW e \in Observations
  PROVE  LET after == Append(before, e)
             n == Len(before)
         IN  /\ n \in Nat /\ DOMAIN before = 1..n /\ DOMAIN after = 1..n + 1
             /\ after \in Seq(Observations) /\ Len(after) = n + 1
             /\ after[n + 1] = e /\ \A k \in 1..n : after[k] = before[k]
  OBVIOUS

(* How often a resource occurs, after one more event.                      *)
LEMMA OccursOnce ==
  ASSUME NEW before \in Seq(Observations), NEW e \in Observations
  PROVE  LET after == Append(before, e)
         IN  /\ \A r : Occurs(before, r) \in Nat /\ Occurs(after, r) \in Nat
             /\ Occurs(after, e.resource) = Occurs(before, e.resource) + 1
             /\ \A r : r # e.resource => Occurs(after, r) = Occurs(before, r)
<1> DEFINE after == Append(before, e)
           n == Len(before)
           P(r) == {k \in DOMAIN before : before[k].resource = r}
           Q(r) == {k \in DOMAIN after : after[k].resource = r}
<1>1. /\ n \in Nat /\ DOMAIN before = 1..n /\ DOMAIN after = 1..n + 1
      /\ after[n + 1] = e /\ \A k \in 1..n : after[k] = before[k]
  BY OneMore
<1> HIDE DEF n, after
<1>2. ASSUME NEW r
      PROVE  /\ P(r) \in SUBSET (1..n) /\ Q(r) \in SUBSET (1..n + 1)
             /\ \A k \in 1..n : k \in Q(r) <=> k \in P(r)
             /\ n + 1 \in Q(r) <=> r = e.resource
  <2>1. \A k \in 1..n : k \in 1..n + 1
    BY <1>1
  <2>2. n + 1 \in 1..n + 1
    BY <1>1
  <2> QED
    BY <1>1, <2>1, <2>2
<1>3. \A r : Occurs(before, r) = Cardinality(P(r)) /\ Occurs(after, r) = Cardinality(Q(r))
  BY DEF Occurs
<1> HIDE DEF P, Q
<1>4. n + 1 \in Nat
  BY <1>1
<1>5. ASSUME NEW r
      PROVE  /\ Occurs(before, r) \in Nat /\ Occurs(after, r) \in Nat
             /\ r = e.resource => Occurs(after, r) = Occurs(before, r) + 1
             /\ r # e.resource => Occurs(after, r) = Occurs(before, r)
  <2>1. Cardinality(P(r)) \in Nat /\ Cardinality(Q(r)) \in Nat
    BY <1>1, <1>2, <1>4, PlacesCount
  <2>2. /\ n + 1 \in Q(r) => Cardinality(Q(r)) = Cardinality(P(r)) + 1
        /\ n + 1 \notin Q(r) => Q(r) = P(r)
    BY <1>1, <1>2, PlaceAdded
  <2> QED
    BY <1>2, <1>3, <2>1, <2>2
<1> QED
  BY <1>5 DEF after

(* What is among the most common resources stays there when it occurs once *)
(* more: nothing new comes ahead of it.                                    *)
LEMMA CommonStays ==
  ASSUME NEW before \in Seq(Observations), NEW e \in Observations, NEW n \in Nat,
         e.resource \in MostCommon(before, n)
  PROVE  e.resource \in MostCommon(Append(before, e), n)
<1> DEFINE after == Append(before, e)
           m == Len(before)
           r == e.resource
           was == {before[k].resource : k \in DOMAIN before}
           is == {after[k].resource : k \in DOMAIN after}
<1>1. /\ m \in Nat /\ DOMAIN before = 1..m /\ DOMAIN after = 1..m + 1 /\ after \in Seq(Observations)
      /\ after[m + 1] = e /\ \A k \in 1..m : after[k] = before[k]
  BY OneMore
<1>2. r \in was /\ Cardinality(Ahead(before, r)) < n
  BY MostCommonHas
<1>3. /\ \A q : Occurs(before, q) \in Nat /\ Occurs(after, q) \in Nat
      /\ Occurs(after, r) = Occurs(before, r) + 1
      /\ \A q : q # r => Occurs(after, q) = Occurs(before, q)
  BY OccursOnce
<1> HIDE DEF after, m
<1>4. m + 1 \in DOMAIN after
  BY <1>1
<1>5. r \in is
  BY <1>1, <1>4
<1>6. \A q \in is : q \in was \/ q = r
  <2>1. \A k \in DOMAIN after : k \in DOMAIN before \/ k = m + 1
    BY <1>1
  <2> QED
    BY <1>1, <2>1
<1>7. FirstOf(after, r) \in Nat
  <2>1. after[m + 1].resource = r
    BY <1>1
  <2> QED
    BY <1>1, <1>4, <2>1, FirstOfType
<1>8. Ahead(after, r) \subseteq Ahead(before, r)
  <2> SUFFICES ASSUME NEW q \in Ahead(after, r) PROVE q \in Ahead(before, r)
    OBVIOUS
  <2>1. /\ q \in is
        /\ \/ Occurs(after, q) > Occurs(after, r)
           \/ Occurs(after, q) = Occurs(after, r) /\ FirstOf(after, q) < FirstOf(after, r)
    BY DEF Ahead
  <2> HIDE DEF r, was, is
  <2>2. q # r
    BY <1>3, <1>7, <2>1
  <2>3. Occurs(before, q) > Occurs(before, r) /\ q \in was
    BY <1>3, <1>6, <2>1, <2>2
  <2> QED
    BY <2>3 DEF Ahead, was
<1>9. IsFiniteSet(Ahead(before, r))
  <2>1. IsFiniteSet(was)
    <3> DEFINE of == [k \in 1..m |-> before[k].resource]
    <3>1. IsFiniteSet({of[k] : k \in 1..m})
      BY <1>1, ValuesAreFinite
    <3>2. {of[k] : k \in 1..m} = was
      BY <1>1
    <3> QED
      BY <3>1, <3>2
  <2>2. Ahead(before, r) \subseteq was
    BY DEF Ahead
  <2> HIDE DEF was, r
  <2> QED
    BY <2>1, <2>2, FS_Subset
<1>10. Cardinality(Ahead(after, r)) \in Nat /\ Cardinality(Ahead(before, r)) \in Nat
       /\ Cardinality(Ahead(after, r)) <= Cardinality(Ahead(before, r))
  BY <1>8, <1>9, FS_Subset, FS_CardinalityType
<1>11. Cardinality(Ahead(after, r)) < n
  BY <1>2, <1>10
<1> QED
  BY <1>1, <1>5, <1>11, MostCommonHas DEF after

(* An event above the new ceiling was as far above the old one.            *)
LEMMA CeilingFollows ==
  ASSUME NEW before \in Seq(Observations), NEW e \in Observations
  PROVE  LET after == Append(before, e)
         IN  e.tier > Ceiling(after) => Ceiling(before) <= Ceiling(after)
<1> DEFINE after == Append(before, e)
           n == Len(before)
           L == Ceiling(after)
<1>1. /\ n \in Nat /\ DOMAIN before = 1..n /\ DOMAIN after = 1..n + 1
      /\ after \in Seq(Observations) /\ Len(after) = n + 1
      /\ after[n + 1] = e /\ \A k \in 1..n : after[k] = before[k]
  BY OneMore
<1> SUFFICES ASSUME e.tier > L PROVE Ceiling(before) <= L
  OBVIOUS
<1>2. after # <<>>
  BY <1>1
<1>3. /\ L \in {after[k].tier : k \in DOMAIN after}
      /\ Cardinality(UpTo(after, L)) >= CeilingPlace(n + 1)
  BY <1>1, <1>2, CeilingType
<1>4. L \in Sensitivity /\ Ceiling(before) \in Sensitivity /\ e.tier \in Sensitivity
  BY <1>1, CeilingType DEF Observations
<1> HIDE DEF L, n, after
<1>5. PICK j \in 1..n + 1 : after[j].tier = L
  BY <1>1, <1>3
<1>6. j \in 1..n /\ before[j].tier = L
  <2>1. j # n + 1
    BY <1>1, <1>4, <1>5 DEF Sensitivity
  <2>2. j \in 1..n
    BY <1>1, <2>1
  <2> QED
    BY <1>1, <1>5, <2>2
<1>7. UpTo(after, L) = UpTo(before, L)
  <2>1. \A k \in 1..n + 1 : k \in 1..n \/ k = n + 1
    BY <1>1
  <2>2. \A k \in 1..n : k \in 1..n + 1
    BY <1>1
  <2>3. ~(e.tier <= L)
    BY <1>4 DEF Sensitivity
  <2> QED
    BY <1>1, <2>1, <2>2, <2>3 DEF UpTo
<1>8. CeilingPlace(n) <= CeilingPlace(n + 1) /\ CeilingPlace(n) \in Int /\ CeilingPlace(n + 1) \in Int
  BY <1>1 DEF CeilingPlace, Least
<1>9. Cardinality(UpTo(before, L)) \in Nat
  <2>1. UpTo(before, L) \in SUBSET (1..n)
    BY <1>1 DEF UpTo
  <2> QED
    BY <1>1, <2>1, PlacesCount
<1>10. Cardinality(UpTo(before, L)) >= CeilingPlace(n)
  BY <1>3, <1>7, <1>8, <1>9
<1>11. before # <<>>
  BY <1>1, <1>6 DEF n
<1> QED
  <2> DEFINE levels == {level \in {before[k].tier : k \in DOMAIN before} :
                          Cardinality(UpTo(before, level)) >= CeilingPlace(Len(before))}
  <2>1. L \in levels
    BY <1>1, <1>6, <1>10 DEF n
  <2>2. \A level \in levels : Ceiling(before) <= level
    BY <1>11, CeilingType
  <2> HIDE DEF levels
  <2> QED
    BY <2>1, <2>2

(* What is learned from one event (BaselineEngine.build).                  *)
Teaches(b, c, e) ==
  /\ c.total = b.total + 1
  /\ c.hours[Hour(e)] = b.hours[Hour(e)] + 1
  /\ c.weekdays[Weekday(e)] = b.weekdays[Weekday(e)] + 1
  /\ e.offHours => c.offHours = b.offHours + 1
  /\ Times(c.actions, e.action) = Times(b.actions, e.action) + 1
  /\ e.resource \in DOMAIN b.frequency =>
       /\ e.resource \in DOMAIN c.frequency
       /\ c.frequency[e.resource] = b.frequency[e.resource] + 1
  /\ e.resource \in b.common => e.resource \in c.common
  /\ e.net \in c.nets /\ (e.country # "" => e.country \in c.countries)
  /\ e.device # "" => e.device \in c.devices
  /\ e.tier > c.ceiling => b.ceiling <= c.ceiling

LEMMA EventTeaches ==
  ASSUME NEW before \in Seq(Observations), NEW e \in Observations
  PROVE  Teaches(Build(before), Build(Append(before, e)), e)
<1> DEFINE after == Append(before, e)
           n == Len(before)
           b == Build(before)
           c == Build(after)
<1>1. /\ n \in Nat /\ DOMAIN before = 1..n /\ DOMAIN after = 1..n + 1
      /\ Len(after) = n + 1 /\ after \in Seq(Observations)
      /\ after[n + 1] = e /\ \A k \in 1..n : after[k] = before[k]
  BY OneMore
<1>2. n + 1 \in DOMAIN after /\ \A k \in 1..n : k \in 1..n + 1
  BY <1>1
<1>3. Counted(b, before) /\ Counted(c, after)
  BY BuildHas, Zenon
<1>4. /\ \A r : Cardinality({k \in DOMAIN before : before[k].resource = r}) = Occurs(before, r)
      /\ \A r : Cardinality({k \in DOMAIN after : after[k].resource = r}) = Occurs(after, r)
  BY DEF Occurs
<1>5. Hour(e) \in 0..23 /\ Weekday(e) \in 0..6
  BY HourType
<1>6. e.tier > c.ceiling => b.ceiling <= c.ceiling
  <2>1. b.ceiling = Ceiling(before) /\ c.ceiling = Ceiling(after)
    <3> HIDE DEF b, c, after
    <3> QED
      BY <1>3 DEF Counted
  <2> HIDE DEF b, c
  <2> QED
    BY <2>1, CeilingFollows
<1>7. /\ e.resource \in DOMAIN b.frequency =>
           /\ e.resource \in DOMAIN c.frequency
           /\ c.frequency[e.resource] = b.frequency[e.resource] + 1
      /\ e.resource \in b.common => e.resource \in c.common
  <2>1. FrequentKept \in Nat /\ CommonKept \in Nat
    BY BaselineAssumption
  <2>2. /\ e.resource \in MostCommon(before, FrequentKept) => e.resource \in MostCommon(after, FrequentKept)
        /\ e.resource \in MostCommon(before, CommonKept) => e.resource \in MostCommon(after, CommonKept)
    BY <2>1, CommonStays
  <2>3. Occurs(after, e.resource) = Occurs(before, e.resource) + 1
    BY OccursOnce
  <2> HIDE DEF after, b, c
  <2>4. /\ b.frequency = [r \in MostCommon(before, FrequentKept) |->
                            Cardinality({k \in DOMAIN before : before[k].resource = r})]
        /\ c.frequency = [r \in MostCommon(after, FrequentKept) |->
                            Cardinality({k \in DOMAIN after : after[k].resource = r})]
    BY <1>3, Zenon DEF Counted
  <2>5. b.common = MostCommon(before, CommonKept) /\ c.common = MostCommon(after, CommonKept)
    BY <1>3 DEF Counted
  <2> QED
    BY <1>4, <2>2, <2>3, <2>4, <2>5
<1> HIDE DEF b, c, after, n
<1>8. /\ e.net \in c.nets /\ (e.country # "" => e.country \in c.countries)
      /\ e.device # "" => e.device \in c.devices
  BY <1>1, <1>2, <1>3 DEF Counted
<1>9. ASSUME NEW P, NEW Q,
             P \in SUBSET (1..n), Q \in SUBSET (1..n + 1), n + 1 \in Q,
             \A k \in 1..n : k \in Q <=> k \in P
      PROVE  Cardinality(Q) = Cardinality(P) + 1
  BY <1>1, <1>9, PlaceAdded
<1>10. c.hours[Hour(e)] = b.hours[Hour(e)] + 1
  <2> DEFINE P == {k \in DOMAIN before : Hour(before[k]) = Hour(e)}
             Q == {k \in DOMAIN after : Hour(after[k]) = Hour(e)}
  <2>1. P \in SUBSET (1..n) /\ Q \in SUBSET (1..n + 1) /\ n + 1 \in Q
        /\ \A k \in 1..n : k \in Q <=> k \in P
    BY <1>1, <1>2
  <2>2. b.hours[Hour(e)] = Cardinality(P) /\ c.hours[Hour(e)] = Cardinality(Q)
    BY <1>3, <1>5 DEF Counted
  <2> HIDE DEF P, Q
  <2> QED
    BY <1>9, <2>1, <2>2
<1>11. c.weekdays[Weekday(e)] = b.weekdays[Weekday(e)] + 1
  <2> DEFINE P == {k \in DOMAIN before : Weekday(before[k]) = Weekday(e)}
             Q == {k \in DOMAIN after : Weekday(after[k]) = Weekday(e)}
  <2>1. P \in SUBSET (1..n) /\ Q \in SUBSET (1..n + 1) /\ n + 1 \in Q
        /\ \A k \in 1..n : k \in Q <=> k \in P
    BY <1>1, <1>2
  <2>2. b.weekdays[Weekday(e)] = Cardinality(P) /\ c.weekdays[Weekday(e)] = Cardinality(Q)
    BY <1>3, <1>5 DEF Counted
  <2> HIDE DEF P, Q
  <2> QED
    BY <1>9, <2>1, <2>2
<1>12. e.offHours => c.offHours = b.offHours + 1
  <2> SUFFICES ASSUME e.offHours PROVE c.offHours = b.offHours + 1
    OBVIOUS
  <2> DEFINE P == {k \in DOMAIN before :
                     \/ before[k].offHours
                     \/ Hour(before[k]) < 7 \/ Hour(before[k]) > 20}
             Q == {k \in DOMAIN after :
                     \/ after[k].offHours
                     \/ Hour(after[k]) < 7 \/ Hour(after[k]) > 20}
  <2>1. P \in SUBSET (1..n) /\ Q \in SUBSET (1..n + 1) /\ n + 1 \in Q
        /\ \A k \in 1..n : k \in Q <=> k \in P
    BY <1>1, <1>2
  <2>2. b.offHours = Cardinality(P) /\ c.offHours = Cardinality(Q)
    BY <1>3 DEF Counted
  <2> HIDE DEF P, Q
  <2> QED
    BY <1>9, <2>1, <2>2
<1>13. Times(c.actions, e.action) = Times(b.actions, e.action) + 1
  <2> DEFINE P == {k \in DOMAIN before : before[k].action = e.action}
             Q == {k \in DOMAIN after : after[k].action = e.action}
             was == {before[k].action : k \in DOMAIN before}
             is == {after[k].action : k \in DOMAIN after}
  <2>1. P \in SUBSET (1..n) /\ Q \in SUBSET (1..n + 1) /\ n + 1 \in Q
        /\ \A k \in 1..n : k \in Q <=> k \in P
    BY <1>1, <1>2
  <2>2. e.action \in is
    BY <1>1, <1>2
  <2>3. e.action \notin was => P = {}
    OBVIOUS
  <2>4. /\ Times(c.actions, e.action) = IF e.action \in is THEN Cardinality(Q) ELSE 0
        /\ Times(b.actions, e.action) = IF e.action \in was THEN Cardinality(P) ELSE 0
    BY <1>3 DEF Times, Counted
  <2> HIDE DEF P, Q, was, is
  <2>5. Cardinality(Q) = Cardinality(P) + 1
    BY <1>9, <2>1
  <2>6. P = {} => Cardinality(P) = 0
    BY FS_EmptySet
  <2> QED
    BY <2>2, <2>3, <2>4, <2>5, <2>6
<1>14. c.total = b.total + 1
  BY <1>1, <1>3 DEF Counted, n
<1> QED
  BY <1>6, <1>7, <1>8, <1>10, <1>11, <1>12, <1>13, <1>14, Zenon DEF Teaches, b, c, after

(* The largest of some scores is no larger, if none of them is larger than *)
(* each of others.                                                         *)
LEMMA LargestFollows ==
  ASSUME NEW S \in SUBSET (0..100), NEW T \in SUBSET (0..100), S # {},
         \A x \in S : \E y \in T : x <= y
  PROVE  Max(S) <= Max(T)
<1>1. 100 \in Nat /\ T # {}
  OBVIOUS
<1>2. Max(S) \in S /\ Max(T) \in T /\ \A y \in T : y <= Max(T)
  BY <1>1, MaxIsGreatest
<1>3. PICK y \in T : Max(S) <= y
  BY <1>2
<1>4. y <= Max(T)
  BY <1>2
<1> DEFINE s == Max(S)
           t == Max(T)
<1>5. s \in 0..100 /\ t \in 0..100 /\ y \in 0..100
  BY <1>2
<1> HIDE DEF s, t
<1>6. s <= y /\ y <= t
  BY <1>3, <1>4 DEF s, t
<1>7. s <= t
  BY <1>5, <1>6
<1> QED
  BY <1>7 DEF s, t

(* An hour that was seen once more is no rarer, nor are a weekend and      *)
(* events out of hours.                                                    *)
LEMMA TemporalCalms ==
  ASSUME NEW e \in Observations, NEW b, NEW c, Remembered(b), Remembered(c), Teaches(b, c, e)
  PROVE  Temporal(e, c) <= Temporal(e, b)
<1> DEFINE h == b.hours[Hour(e)]
           t == b.total
           w == b.weekdays[Weekday(e)]
           o == b.offHours
           lost == (600 * (2 * h + 1)) \div (t + 12)
           lostNow == (600 * (2 * (h + 1) + 1)) \div (t + 1 + 12)
           rarity == Greatest(0, 100 - lost)
           rarityNow == Greatest(0, 100 - lostNow)
           weekend == Weekday(e) >= 5 /\ 100 * (2 * w + 1) < 8 * (2 * t + 7)
           weekendNow == Weekday(e) >= 5 /\ 100 * (2 * (w + 1) + 1) < 8 * (2 * (t + 1) + 7)
           never == OffHoursRatio(b) < 10
           neverNow == OffHoursRatio(c) < 10
           T == {rarity} \cup (IF e.offHours THEN {72} ELSE {})
                  \cup (IF weekend THEN {68} ELSE {})
                  \cup (IF e.offHours /\ never THEN {85} ELSE {})
           S == {rarityNow} \cup (IF e.offHours THEN {72} ELSE {})
                  \cup (IF weekendNow THEN {68} ELSE {})
                  \cup (IF e.offHours /\ neverNow THEN {85} ELSE {})
<1>1. t \in Nat /\ h \in 0..t /\ w \in 0..t /\ o \in 0..t
  BY HourType DEF Remembered
<1>2. /\ c.total = t + 1 /\ c.hours[Hour(e)] = h + 1 /\ c.weekdays[Weekday(e)] = w + 1
      /\ e.offHours => c.offHours = o + 1
  BY DEF Teaches
<1>3. Temporal(e, b) = Max(T)
  <2> HIDE DEF h, t, w
  <2> QED
    BY Zenon DEF Temporal, h, t, w
<1>4. Temporal(e, c) = Max(S)
  <2> DEFINE r0 == Greatest(0, 100 - (600 * (2 * c.hours[Hour(e)] + 1)) \div (c.total + 12))
             w0 == IF Weekday(e) >= 5
                        /\ 100 * (2 * c.weekdays[Weekday(e)] + 1) < 8 * (2 * c.total + 7)
                   THEN {68} ELSE {}
             w1 == IF weekendNow THEN {68} ELSE {}
             o0 == IF e.offHours THEN {72} ELSE {}
             n0 == IF e.offHours /\ neverNow THEN {85} ELSE {}
  <2>1. Temporal(e, c) = Max({r0} \cup o0 \cup w0 \cup n0)
    BY Zenon DEF Temporal
  <2> HIDE DEF h, t, w
  <2>2. r0 = rarityNow
    BY <1>2, Zenon
  <2>3. w0 = w1
    BY <1>2, Zenon
  <2>4. S = {rarityNow} \cup o0 \cup w1 \cup n0
    BY Zenon
  <2> HIDE DEF S, rarityNow, r0, w0, w1, o0, n0
  <2> QED
    BY <2>1, <2>2, <2>3, <2>4, Zenon
<1> HIDE DEF h, t, w, o
<1>5. lost \in Nat /\ lostNow \in Nat /\ lost <= lostNow
  <2> DEFINE p == 600 * (2 * h + 1)
             q == 600 * (2 * (h + 1) + 1)
             d == t + 12
             f == t + 1 + 12
  <2>1. p \in Nat /\ q \in Nat /\ d \in Nat \ {0} /\ f \in Nat \ {0}
    BY <1>1
  <2>2. p * f <= q * d
    <3> DEFINE m == h * t
    <3>1. m \in Nat
      BY <1>1
    <3>2. p * f = 1200 * m + 15600 * h + 600 * t + 7800
      BY <1>1
    <3>3. q * d = 1200 * m + 14400 * h + 1800 * t + 21600
      BY <1>1
    <3> HIDE DEF m
    <3> QED
      BY <1>1, <3>1, <3>2, <3>3
  <2> HIDE DEF p, q, d, f
  <2>3. p \div d \in Nat /\ q \div f \in Nat /\ p \div d <= q \div f
    BY <2>1, <2>2, QuotientType, QuotientGrows
  <2> QED
    BY <2>3 DEF p, q, d, f
<1>6. rarity \in 0..100 /\ rarityNow \in 0..100 /\ rarityNow <= rarity
  <2> HIDE DEF lost, lostNow
  <2> QED
    BY <1>5 DEF Greatest
<1>7. weekendNow => weekend
  BY <1>1
<1>8. e.offHours /\ neverNow => never
  <2> SUFFICES ASSUME e.offHours, neverNow PROVE never
    OBVIOUS
  <2>1. OffHoursRatio(c) = (1000 * (o + 1)) \div (t + 1)
    BY <1>1, <1>2 DEF OffHoursRatio
  <2>2. b.total = t /\ b.offHours = o
    BY DEF t, o
  <2>3. CASE t = 0
    <3>1. o = 0 /\ (1000 * (o + 1)) \div (t + 1) = 1000
      BY <1>1, <2>3
    <3> QED
      BY <2>1, <3>1
  <2>4. CASE t # 0
    <3> DEFINE p == 1000 * o
               q == 1000 * (o + 1)
               f == t + 1
    <3>1. p \in Nat /\ q \in Nat /\ t \in Nat \ {0} /\ f \in Nat \ {0}
      BY <1>1, <2>4
    <3>2. p * f <= q * t
      <4> DEFINE m == o * t
      <4>1. m \in Nat
        BY <1>1
      <4>2. p * f = 1000 * m + 1000 * o
        BY <1>1
      <4>3. q * t = 1000 * m + 1000 * t
        BY <1>1
      <4> HIDE DEF m
      <4> QED
        BY <1>1, <4>1, <4>2, <4>3
    <3>3. OffHoursRatio(b) = p \div t
      BY <2>2, <2>4 DEF OffHoursRatio
    <3>4. OffHoursRatio(c) = q \div f
      BY <2>1
    <3> HIDE DEF p, q, f
    <3>5. p \div t \in Nat /\ q \div f \in Nat /\ p \div t <= q \div f
      BY <3>1, <3>2, QuotientType, QuotientGrows
    <3> QED
      BY <3>3, <3>4, <3>5
  <2> QED
    BY <2>3, <2>4
<1> HIDE DEF rarity, rarityNow, weekend, weekendNow, never, neverNow
<1>9. S \in SUBSET (0..100) /\ T \in SUBSET (0..100) /\ S # {}
  BY <1>6
<1>10. \A x \in S : \E y \in T : x <= y
  <2> SUFFICES ASSUME NEW x \in S PROVE \E y \in T : x <= y
    OBVIOUS
  <2>1. x \in 0..100
    BY <1>9
  <2>2. rarity \in T
    OBVIOUS
  <2>3. x = rarityNow \/ x \in T
    BY <1>7, <1>8
  <2> QED
    BY <1>6, <2>1, <2>2, <2>3
<1> HIDE DEF S, T
<1> QED
  BY <1>3, <1>4, <1>9, <1>10, LargestFollows

(* A resource that was seen once more is no less familiar, and no further  *)
(* above the ceiling.                                                      *)
LEMMA ResourceCalms ==
  ASSUME NEW e \in Observations, NEW b, NEW c, Remembered(b), Remembered(c), Teaches(b, c, e)
  PROVE  ResourceScore(e, c) <= ResourceScore(e, b)
<1> DEFINE known(x) == e.resource \in DOMAIN x.frequency
           times(x) == Times(x.frequency, e.resource)
           novelty(x) == CASE times(x) >= 5 -> 8
                           [] known(x) /\ times(x) < 5 -> 28
                           [] ~known(x) -> 68
           above(x) == e.tier - x.ceiling
           sensitivity(x) == IF above(x) > 0 THEN Least(100, 38 + 22 * above(x)) ELSE 10
           gem == Words[e.resource] \cap HighValueKeywords # {}
           extra(x) == IF gem /\ ~known(x) THEN 18 ELSE 0
           sum(x) == (novelty(x) * 42 + sensitivity(x) * 58) \div 100 + extra(x)
<1>1. \A x : ResourceScore(e, x) = Least(100, sum(x))
  BY DEF ResourceScore
<1>2. /\ times(b) \in Nat /\ times(c) \in Nat
      /\ ~known(b) => times(b) = 0
      /\ known(b) => known(c) /\ times(c) = times(b) + 1
      /\ ~known(c) => times(c) = 0
  BY DEF Remembered, Teaches, Times
<1>3. known(b) \in BOOLEAN /\ known(c) \in BOOLEAN
  OBVIOUS
<1>4. e.tier \in 1..5 /\ b.ceiling \in 1..5 /\ c.ceiling \in 1..5
      /\ (e.tier > c.ceiling => b.ceiling <= c.ceiling)
  BY DEF Observations, Remembered, Teaches, Sensitivity
<1> HIDE DEF known, times
<1>5. novelty(b) \in {8, 28, 68} /\ novelty(c) \in {8, 28, 68} /\ novelty(c) <= novelty(b)
  BY <1>2
<1>6. sensitivity(b) \in 0..126 /\ sensitivity(c) \in 0..126 /\ sensitivity(c) <= sensitivity(b)
  BY <1>4 DEF Least
<1>7. extra(b) \in {0, 18} /\ extra(c) \in {0, 18} /\ extra(c) <= extra(b)
  BY <1>2
<1> HIDE DEF novelty, sensitivity, extra
<1>8. sum(b) \in Int /\ sum(c) \in Int /\ sum(c) <= sum(b)
  <2> DEFINE x == novelty(b)
             y == novelty(c)
             z == sensitivity(b)
             w == sensitivity(c)
             p == x * 42 + z * 58
             q == y * 42 + w * 58
  <2>0. /\ x \in Nat /\ y \in Nat /\ y <= x
        /\ z \in Nat /\ w \in Nat /\ w <= z
    BY <1>5, <1>6
  <2> HIDE DEF x, y, z, w
  <2>1. p \in Nat /\ q \in Nat /\ q <= p
    BY <2>0
  <2> HIDE DEF p, q
  <2>2. p \div 100 \in Nat /\ q \div 100 \in Nat /\ q \div 100 <= p \div 100
    BY <2>1
  <2> DEFINE u == p \div 100
             v == q \div 100
  <2>3. sum(b) = u + extra(b) /\ sum(c) = v + extra(c)
    BY Zenon DEF p, q, x, y, z, w
  <2> HIDE DEF u, v, sum
  <2>4. u \in Nat /\ v \in Nat /\ v <= u
    BY <2>2 DEF u, v
  <2> QED
    BY <1>7, <2>3, <2>4
<1> HIDE DEF sum
<1> QED
  BY <1>1, <1>8 DEF Least

(* An action that was seen once more is no less usual.                     *)
LEMMA PrivilegeCalms ==
  ASSUME NEW e \in Observations, NEW b, NEW c, Remembered(b), Remembered(c), Teaches(b, c, e)
  PROVE  Privilege(e, c) <= Privilege(e, b)
<1> DEFINE weight == CASE e.action \in PrivilegedActions -> 88
                       [] e.action \in {"write", "delete", "export", "query_bulk", "download", "share_external"} -> 52
                       [] e.action \in {"read", "query", "list", "view", "login"} -> 12
                       [] OTHER -> 26
           used(x) == Times(x.actions, e.action)
           base(x) == CASE used(x) >= 10 -> (weight * 45) \div 100
                        [] used(x) \in 3..9 -> (weight * 70) \div 100
                        [] used(x) < 3 -> weight
<1>1. \A x : Privilege(e, x) = IF Tampers(e) THEN 100
                               ELSE base(x) + (IF Denied(e) /\ base(x) >= 50 THEN 10 ELSE 0)
  BY DEF Privilege
<1>2. weight \in {88, 52, 12, 26}
  <2> DEFINE p == e.action \in PrivilegedActions
             q == e.action \in {"write", "delete", "export", "query_bulk", "download", "share_external"}
             r == e.action \in {"read", "query", "list", "view", "login"}
  <2>1. weight = CASE p -> 88 [] q -> 52 [] r -> 12 [] OTHER -> 26
    OBVIOUS
  <2> HIDE DEF p, q, r, weight
  <2> QED
    BY <2>1
<1>3. used(b) \in Nat /\ used(c) = used(b) + 1
  BY DEF Remembered, Teaches, Times
<1> HIDE DEF weight, used
<1>4. base(b) \in Nat /\ base(c) \in Nat /\ base(c) <= base(b)
  BY <1>2, <1>3
<1> HIDE DEF base
<1> QED
  BY <1>1, <1>4

(* A network and a country that were seen are known.                       *)
LEMMA GeovelocityCalms ==
  ASSUME NEW e \in Observations, NEW b, NEW c, Teaches(b, c, e)
  PROVE  Geovelocity(e, c, <<>>) <= Geovelocity(e, b, <<>>)
<1>1. (e.country # "" => e.country \in c.countries) /\ e.net \in c.nets
  BY DEF Teaches
<1>2. Geovelocity(e, c, <<>>) = Max({0})
  <2> DEFINE A == IF e.country # "" /\ c.countries # {} /\ e.country \notin c.countries THEN {62} ELSE {}
             B == IF c.nets # {} /\ e.net \notin c.nets THEN {45} ELSE {}
  <2>1. A = {} /\ B = {}
    BY Zenon, <1>1
  <2> HIDE DEF A, B
  <2>2. Geovelocity(e, c, <<>>) = Max({0} \cup A \cup B \cup {} \cup {})
    BY DEF Geovelocity, ImpossibleTravel, A, B
  <2>3. {0} \cup {} \cup {} \cup {} \cup {} = {0}
    OBVIOUS
  <2> QED
    BY Zenon, <2>1, <2>2, <2>3
<1>3. Max({0}) = 0
  <2>1. {0} \in SUBSET (0..0) /\ {0} # {} /\ 0 \in Nat
    OBVIOUS
  <2>2. Max({0}) \in {0}
    BY <2>1, MaxIsGreatest
  <2> QED
    BY <2>2
<1> DEFINE was == Geovelocity(e, b, <<>>)
           is == Geovelocity(e, c, <<>>)
<1>4. was \in 0..100
  BY GeovelocityType DEF Located
<1>5. is = 0
  BY <1>2, <1>3
<1> HIDE DEF was, is
<1>6. is <= was
  BY <1>4, <1>5
<1> QED
  BY <1>6 DEF was, is

(* So is a device.                                                         *)
LEMMA DeviceCalms ==
  ASSUME NEW e \in Observations, NEW b, NEW c, Teaches(b, c, e)
  PROVE  Device(e, c) <= Device(e, b)
<1>1. e.device # "" => e.device \in c.devices
  BY DEF Teaches
<1>2. Device(e, c) = 0
  BY <1>1 DEF Device
<1>3. Device(e, b) \in 0..100
  BY DeviceType
<1> QED
  BY <1>2, <1>3

(* The identity as a member of its own cohort (PeerEngine.build_cohorts).  *)
SelfOf(b) ==
  [name |-> Who.name, department |-> Who.department, role |-> Who.role, risk |-> RiskFloor,
   ceiling |-> b.ceiling, resources |-> b.common]

LEMMA KnownHas ==
  ASSUME NEW history
  PROVE  /\ Known(history).baseline = Build(history)
         /\ Known(history).cohort = CohortOf(Who, Peers \cup {SelfOf(Build(history))})
  BY Zenon DEF Known, Given, SelfOf

LEMMA SelfIsNoPeer ==
  ASSUME NEW b
  PROVE  SelfOf(b) \notin Peers
<1>1. SelfOf(b).name = Who.name
  BY DEF SelfOf
<1>2. \A m \in Peers : m.name # Who.name
  BY WorkbenchAssumption
<1> QED
  BY <1>1, <1>2

(* Whoever is in its cohort, the identity is, and it is as large whatever  *)
(* its history.                                                            *)
LEMMA CohortOfPeers ==
  ASSUME NEW b, NEW c
  PROVE  \E group \in SUBSET Peers :
           /\ CohortOf(Who, Peers \cup {SelfOf(b)}) = Aggregate(group \cup {SelfOf(b)})
           /\ CohortOf(Who, Peers \cup {SelfOf(c)}) = Aggregate(group \cup {SelfOf(c)})
<1> DEFINE G == {m \in Peers : CohortKey(m) = CohortKey(Who)}
           D == {m \in Peers : m.department = Who.department}
           Group(x) == {m \in Peers \cup {SelfOf(x)} : CohortKey(m) = CohortKey(Who)}
           Dept(x) == {m \in Peers \cup {SelfOf(x)} : m.department = Who.department}
<1>1. ASSUME NEW x
      PROVE  /\ Group(x) = G \cup {SelfOf(x)} /\ Dept(x) = D \cup {SelfOf(x)}
             /\ Cardinality(Group(x)) = Cardinality(G) + 1
             /\ Cardinality(Dept(x)) = Cardinality(D) + 1
  <2>1. SelfOf(x).department = Who.department /\ SelfOf(x).role = Who.role
    BY DEF SelfOf
  <2>2. CohortKey(SelfOf(x)) = CohortKey(Who)
    BY <2>1 DEF CohortKey
  <2>3. Group(x) = G \cup {SelfOf(x)}
    BY <2>2
  <2>4. Dept(x) = D \cup {SelfOf(x)}
    BY <2>1
  <2>5. IsFiniteSet(G) /\ IsFiniteSet(D)
    <3>1. G \subseteq Peers /\ D \subseteq Peers /\ IsFiniteSet(Peers)
      BY WorkbenchAssumption
    <3> HIDE DEF G, D
    <3> QED
      BY <3>1, FS_Subset
  <2>6. SelfOf(x) \notin G /\ SelfOf(x) \notin D
    BY SelfIsNoPeer
  <2> HIDE DEF G, D, Group, Dept
  <2> QED
    BY <2>3, <2>4, <2>5, <2>6, FS_AddElement
<1>2. ASSUME NEW x
      PROVE  CohortOf(Who, Peers \cup {SelfOf(x)})
               = IF Cardinality(G) + 1 >= MinCohort THEN Aggregate(G \cup {SelfOf(x)})
                 ELSE IF Cardinality(D) + 1 >= MinCohort THEN Aggregate(D \cup {SelfOf(x)})
                 ELSE Aggregate(G \cup {SelfOf(x)})
  <2>1. CohortOf(Who, Peers \cup {SelfOf(x)})
          = CASE Group(x) = {} -> NoCohort
              [] Cardinality(Group(x)) >= MinCohort -> Aggregate(Group(x))
              [] Group(x) # {} /\ Cardinality(Group(x)) < MinCohort ->
                   IF Cardinality(Dept(x)) >= MinCohort THEN Aggregate(Dept(x)) ELSE Aggregate(Group(x))
    BY Zenon DEF CohortOf
  <2>2. Group(x) # {}
    BY <1>1
  <2>3. Cardinality(G) \in Nat /\ Cardinality(D) \in Nat
    <3>1. G \subseteq Peers /\ D \subseteq Peers /\ IsFiniteSet(Peers)
      BY WorkbenchAssumption
    <3> HIDE DEF G, D
    <3> QED
      BY <3>1, FS_Subset, FS_CardinalityType
  <2> DEFINE p == Cardinality(G) + 1
             q == Cardinality(D) + 1
             A == Aggregate(Group(x))
             B == Aggregate(Dept(x))
             few == Group(x) = {}
  <2>4. CohortOf(Who, Peers \cup {SelfOf(x)})
          = CASE few -> NoCohort [] p >= MinCohort -> A
              [] ~few /\ p < MinCohort -> IF q >= MinCohort THEN B ELSE A
    <3>1. Cardinality(Group(x)) = p /\ Cardinality(Dept(x)) = q
      BY <1>1
    <3> HIDE DEF p, q, Group, Dept, G, D
    <3> QED
      BY <2>1, <3>1, Zenon
  <2>5. p \in Nat /\ q \in Nat
    BY <2>3
  <2>6. A = Aggregate(G \cup {SelfOf(x)}) /\ B = Aggregate(D \cup {SelfOf(x)})
    BY <1>1, Zenon
  <2>7. ~few
    BY <2>2
  <2> HIDE DEF p, q, A, B, few, Group, Dept
  <2>8. CohortOf(Who, Peers \cup {SelfOf(x)})
          = IF p >= MinCohort THEN A ELSE IF q >= MinCohort THEN B ELSE A
    BY <2>4, <2>5, <2>7 DEF MinCohort
  <2> QED
    BY <2>6, <2>8, Zenon DEF p, q
<1>3. G \in SUBSET Peers /\ D \in SUBSET Peers
  OBVIOUS
<1> HIDE DEF G, D
<1> QED
  BY <1>2, <1>3, Zenon

(* What a cohort shares, and its mean ceiling.                             *)
Shares(group, r) == {m \in group : r \in m.resources}

LEMMA AggregateHas ==
  ASSUME NEW group \in SUBSET Peers, NEW b, Remembered(b)
  PROVE  LET cohort == Aggregate(group \cup {SelfOf(b)})
         IN  /\ cohort.shared = {r \in UNION {m.resources : m \in group \cup {SelfOf(b)}} :
                                   Cardinality(Shares(group \cup {SelfOf(b)}, r))
                                     >= Greatest(1, ((Cardinality(group) + 1) * 40) \div 100)}
             /\ cohort.meanCeiling \in Nat
             /\ Cardinality(group) \in Nat /\ IsFiniteSet(group)
<1> DEFINE all == group \cup {SelfOf(b)}
           order == SetToSeq(all)
           n == Cardinality(all)
           ceilings == [k \in DOMAIN order |-> order[k].ceiling]
<1>1. IsFiniteSet(group) /\ SelfOf(b) \notin group
  BY SelfIsNoPeer, WorkbenchAssumption, FS_Subset
<1>2. IsFiniteSet(all) /\ n = Cardinality(group) + 1 /\ Cardinality(group) \in Nat
  BY <1>1, FS_AddElement, FS_CardinalityType
<1>3. \A m \in all : m.ceiling \in 1..5
  <2>1. SelfOf(b).ceiling \in 1..5
    BY DEF SelfOf, Remembered, Sensitivity
  <2>2. \A m \in group : m.ceiling \in 1..5
    BY WorkbenchAssumption DEF Sensitivity
  <2> QED
    BY <2>1, <2>2
<1>4. Aggregate(all).shared = {r \in UNION {m.resources : m \in all} :
                                 Cardinality(Shares(all, r)) >= Greatest(1, (n * 40) \div 100)}
  <2>1. \A r : Shares(all, r) = {m \in all : r \in m.resources}
    BY DEF Shares
  <2> HIDE DEF all
  <2>2. Aggregate(all).shared = {r \in UNION {m.resources : m \in all} :
                                  Cardinality({m \in all : r \in m.resources})
                                    >= Greatest(1, (n * 40) \div 100)}
    BY DEF Aggregate
  <2> QED
    BY <2>1, <2>2, Zenon
<1>5. Aggregate(all).meanCeiling = (100 * Total(ceilings)) \div Len(order)
  <2> HIDE DEF all
  <2> QED
    BY DEF Aggregate
<1> HIDE DEF all
<1>6. order \in [1..n -> all] /\ n \in Nat \ {0}
  BY <1>2, OrderedSet
<1>7. DOMAIN order = 1..n
  BY <1>6
<1>8. ceilings \in [1..n -> Nat]
  BY <1>3, <1>6, <1>7
<1>9. Len(order) = n
  BY <1>6, <1>7
<1> HIDE DEF order, n, ceilings
<1>10. Total(ceilings) \in Nat
  BY <1>6, <1>8, TotalBounds
<1>11. (100 * Total(ceilings)) \div n \in Nat
  <2>1. 100 * Total(ceilings) \in Nat
    BY <1>10
  <2> QED
    BY <1>6, <2>1, QuotientType
<1> QED
  BY <1>1, <1>2, <1>4, <1>5, <1>9, <1>11, Zenon DEF all

(* A resource the cohort shares stays shared when the identity uses it.    *)
LEMMA SharedStays ==
  ASSUME NEW group \in SUBSET Peers, NEW b, NEW c, Remembered(b), Remembered(c),
         NEW r, r \in b.common => r \in c.common,
         r \in Aggregate(group \cup {SelfOf(b)}).shared
  PROVE  r \in Aggregate(group \cup {SelfOf(c)}).shared
<1> DEFINE N == Greatest(1, ((Cardinality(group) + 1) * 40) \div 100)
           H == Shares(group, r)
           x == SelfOf(b)
           y == SelfOf(c)
           was == Shares(group \cup {x}, r)
           is == Shares(group \cup {y}, r)
<1>1. Cardinality(group) \in Nat /\ IsFiniteSet(group)
  BY AggregateHas
<1>2. N \in Nat /\ N >= 1
  BY <1>1 DEF Greatest
<1>3. Cardinality(was) >= N
  BY AggregateHas
<1>4. x \notin H /\ y \notin H /\ IsFiniteSet(H)
  <2>1. H \subseteq group /\ x \notin group /\ y \notin group
    BY SelfIsNoPeer DEF Shares
  <2> HIDE DEF H, x, y
  <2> QED
    BY <1>1, <2>1, FS_Subset
<1>5. x.resources = b.common /\ y.resources = c.common
  BY DEF SelfOf
<1>6. was = (IF r \in b.common THEN H \cup {x} ELSE H) /\ is = (IF r \in c.common THEN H \cup {y} ELSE H)
  <2> HIDE DEF x, y
  <2> QED
    BY <1>5 DEF Shares
<1>7. Cardinality(is) \in Nat /\ Cardinality(was) \in Nat /\ Cardinality(was) <= Cardinality(is)
  <2> HIDE DEF H, x, y, was, is
  <2>1. /\ Cardinality(H) \in Nat
        /\ Cardinality(H \cup {x}) = Cardinality(H) + 1
        /\ Cardinality(H \cup {y}) = Cardinality(H) + 1
    BY <1>4, FS_AddElement, FS_CardinalityType
  <2> QED
    BY <1>6, <2>1
<1>8. Cardinality(is) >= N
  <2> HIDE DEF N, was, is
  <2> QED
    BY <1>2, <1>3, <1>7
<1>9. r \in UNION {m.resources : m \in group \cup {y}}
  <2>1. is # {}
    <3> HIDE DEF is, N
    <3>1. Cardinality(is) # 0
      BY <1>2, <1>7, <1>8
    <3> QED
      BY <3>1, FS_EmptySet
  <2>2. PICK m \in group \cup {y} : r \in m.resources
    <3> HIDE DEF y
    <3> QED
      BY <2>1 DEF Shares
  <2> QED
    BY <2>2
<1>10. Aggregate(group \cup {y}).shared = {q \in UNION {m.resources : m \in group \cup {y}} :
                                              Cardinality(Shares(group \cup {y}, q)) >= N}
  BY AggregateHas
<1> HIDE DEF N, y
<1> QED
  BY <1>8, <1>9, <1>10 DEF y

(* Used once more, a resource diverges no more from the cohort, unless the *)
(* identity has lowered the mean ceiling or given the cohort the first     *)
(* resource it shares.                                                     *)
LEMMA PeerCalms ==
  ASSUME NEW e \in Observations, NEW b, NEW c, Remembered(b), Remembered(c), Teaches(b, c, e)
  PROVE  LET cohort == CohortOf(Who, Peers \cup {SelfOf(b)})
             later == CohortOf(Who, Peers \cup {SelfOf(c)})
         IN  cohort.shared # {} /\ later.meanCeiling >= cohort.meanCeiling
               => PeerDivergence(e, c, Who, later) <= PeerDivergence(e, b, Who, cohort)
<1> DEFINE cohort == CohortOf(Who, Peers \cup {SelfOf(b)})
           later == CohortOf(Who, Peers \cup {SelfOf(c)})
           forbidden == IF Words[e.resource] \cap Forbidden(Who.department) # {} THEN 62 ELSE 0
           privileged == IF e.action \in PrivilegedActions /\ ~Who.engineer THEN 18 ELSE 0
           alone(x) == IF e.resource \notin x.shared THEN 22 ELSE 0
           above(x) == IF 100 * e.tier > x.meanCeiling + 100 THEN 24 ELSE 0
           strange(h, x) == IF x.shared # {} THEN alone(x) + above(x)
                            ELSE (IF e.resource \notin h.common THEN 16 ELSE 0)
<1> SUFFICES ASSUME cohort.shared # {}, later.meanCeiling >= cohort.meanCeiling
             PROVE  PeerDivergence(e, c, Who, later) <= PeerDivergence(e, b, Who, cohort)
  OBVIOUS
<1>1. PICK group \in SUBSET Peers : /\ cohort = Aggregate(group \cup {SelfOf(b)})
                                    /\ later = Aggregate(group \cup {SelfOf(c)})
  BY CohortOfPeers
<1>2. \A h, x : PeerDivergence(e, h, Who, x) = Least(100, 14 + forbidden + strange(h, x) + privileged)
  BY Zenon DEF PeerDivergence
<1> HIDE DEF cohort, later
<1>3. cohort.meanCeiling \in Nat /\ later.meanCeiling \in Nat
  BY <1>1, AggregateHas
<1>4. e.resource \in cohort.shared => e.resource \in later.shared
  BY <1>1, SharedStays DEF Teaches
<1>5. e.tier \in 1..5
  BY DEF Observations, Sensitivity
<1>6. above(later) \in {0, 24} /\ above(cohort) \in {0, 24} /\ above(later) <= above(cohort)
  BY <1>3, <1>5
<1>7. alone(later) \in {0, 22} /\ alone(cohort) \in {0, 22} /\ alone(later) <= alone(cohort)
  BY <1>4
<1>8. strange(b, cohort) = alone(cohort) + above(cohort)
  OBVIOUS
<1>9. strange(c, later) \in 0..46 /\ strange(c, later) <= strange(b, cohort)
  <2>1. CASE later.shared # {}
    <3>1. strange(c, later) = alone(later) + above(later)
      BY <2>1
    <3> HIDE DEF strange, alone, above
    <3> QED
      BY <1>6, <1>7, <1>8, <3>1
  <2>2. CASE later.shared = {}
    <3>1. alone(cohort) = 22
      BY <1>4, <2>2
    <3>2. strange(c, later) \in {0, 16}
      BY <2>2
    <3> HIDE DEF strange, alone, above
    <3> QED
      BY <1>6, <1>8, <3>1, <3>2
  <2> QED
    BY <2>1, <2>2
<1>10. strange(b, cohort) \in 0..46 /\ forbidden \in {0, 62} /\ privileged \in {0, 18}
  <2>1. forbidden \in {0, 62} /\ privileged \in {0, 18}
    OBVIOUS
  <2> HIDE DEF strange, alone, above
  <2> QED
    BY <1>6, <1>7, <1>8, <2>1
<1> HIDE DEF forbidden, privileged, strange
<1> QED
  BY <1>2, <1>9, <1>10 DEF Least

(* An event that is learned once more scores no higher against what was    *)
(* learned.                                                                *)
LEMMA RepetitionReassures ==
  ASSUME NEW e \in Observations, NEW before \in Seq(Observations)
  PROVE  Reassures(e, before)
<1> DEFINE after == Append(before, e)
           b == Build(before)
           c == Build(after)
           cohort == Known(before).cohort
           later == Known(after).cohort
           was == ScoresOf(e, before)
           is == ScoresOf(e, after)
<1>1. after \in Seq(Observations)
  BY OneMore
<1>2. Remembered(b) /\ Remembered(c) /\ Teaches(b, c, e)
  BY <1>1, BuildRemembers, EventTeaches
<1>3. /\ cohort = CohortOf(Who, Peers \cup {SelfOf(b)})
      /\ later = CohortOf(Who, Peers \cup {SelfOf(c)})
      /\ was = Vectors(e, b, Who, cohort, <<>>, 1, 0, Indicators)
      /\ is = Vectors(e, c, Who, later, <<>>, 1, 0, Indicators)
  BY KnownHas, Zenon DEF ScoresOf
<1>4. Reassures(e, before) =
        ( /\ \A v \in Habits : is[v] <= was[v]
          /\ cohort.shared # {} /\ later.meanCeiling >= cohort.meanCeiling
               => is.peer_divergence <= was.peer_divergence )
  BY Zenon DEF Reassures
<1> HIDE DEF b, c, cohort, later, was, is, after
<1>5. /\ was["temporal"] = Temporal(e, b) /\ is["temporal"] = Temporal(e, c)
      /\ was["resource"] = ResourceScore(e, b) /\ is["resource"] = ResourceScore(e, c)
      /\ was["privilege"] = Privilege(e, b) /\ is["privilege"] = Privilege(e, c)
      /\ was["geovelocity"] = Geovelocity(e, b, <<>>) /\ is["geovelocity"] = Geovelocity(e, c, <<>>)
      /\ was["device"] = Device(e, b) /\ is["device"] = Device(e, c)
      /\ was.peer_divergence = PeerDivergence(e, b, Who, cohort)
      /\ is.peer_divergence = PeerDivergence(e, c, Who, later)
  BY <1>3 DEF Vectors
<1>6. \A v \in Habits : is[v] <= was[v]
  <2>1. /\ Temporal(e, c) <= Temporal(e, b)
        /\ ResourceScore(e, c) <= ResourceScore(e, b)
        /\ Privilege(e, c) <= Privilege(e, b)
        /\ Geovelocity(e, c, <<>>) <= Geovelocity(e, b, <<>>)
        /\ Device(e, c) <= Device(e, b)
    BY <1>2, TemporalCalms, ResourceCalms, PrivilegeCalms, GeovelocityCalms, DeviceCalms
  <2>2. \A v \in Habits : v = "temporal" \/ v = "resource" \/ v = "privilege"
                            \/ v = "geovelocity" \/ v = "device"
    BY DEF Habits
  <2> QED
    BY <1>5, <2>1, <2>2, Zenon
<1>7. cohort.shared # {} /\ later.meanCeiling >= cohort.meanCeiling
        => is.peer_divergence <= was.peer_divergence
  <2>1. cohort.shared # {} /\ later.meanCeiling >= cohort.meanCeiling
          => PeerDivergence(e, c, Who, later) <= PeerDivergence(e, b, Who, cohort)
    BY <1>2, <1>3, PeerCalms
  <2> QED
    BY <1>5, <2>1, Zenon
<1> QED
  BY <1>4, <1>6, <1>7, Zenon

(* What is learned reassures (BaselineEngine.build and score_event,        *)
(* engine/baseline.py): whatever was learned before, an event learned once *)
(* more scores no higher on any vector that compares it with habits, nor,  *)
(* as far as the identity has not moved its own cohort, with its peers.    *)
THEOREM LearnedReassures == BenchSpec => []LearningReassures
<1>1. BenchTyped => LearningReassures
  <2> SUFFICES ASSUME BenchTyped, NEW k \in DOMAIN window, NEW n \in Repetitions
               PROVE  Reassures(window[k], learned \o [j \in 1..n |-> window[k]])
    BY DEF LearningReassures
  <2>1. window \in Seq(Observations) /\ learned \in Seq(Observations) /\ n \in Nat
    BY ObservedHistory DEF BenchTyped, WindowIsObserved, LearnedIsObserved, Repetitions
  <2> DEFINE e == window[k]
             more == [j \in 1..n |-> e]
  <2>2. e \in Observations
    BY <2>1
  <2>3. more \in Seq(Observations)
    <3> HIDE DEF e
    <3> QED
      BY <2>1, <2>2
  <2>4. learned \o more \in Seq(Observations)
    <3> HIDE DEF more
    <3> QED
      BY <2>1, <2>3
  <2> HIDE DEF e, more
  <2>5. Reassures(e, learned \o more)
    BY <2>2, <2>4, RepetitionReassures
  <2> QED
    BY <2>5 DEF e, more
<1> QED
  BY <1>1, BenchIsTyped, PTL

(* How one event should be scored: with vectors and scores between 0 and   *)
(* 100; damping never raises a score above the floor, leaves alone what it *)
(* does not mark, and needs an approval and an event that is not tampering.*)
WellScored(x, e) ==
  /\ x.event = e /\ x.tamper = Tampers(e)
  /\ x.vectors \in VectorSet
  /\ x.score \in 0..100 /\ x.damped \in 0..100
  /\ x.damped <= Larger(DampingFloor, x.score)
  /\ ~x.isDamped => x.damped = x.score
  /\ x.isDamped => ~Tampers(e) /\ approvals # <<>>

ReportScoresAll ==
  /\ Len(report.result.scored) = Len(window)
  /\ \A k \in DOMAIN window : WellScored(report.result.scored[k], window[k])

(* The vectors an event is judged by are those of VectorsNext.             *)
LEMMA JudgedVectors ==
  ASSUME NEW s, NEW e, NEW given
  PROVE  Judged(s, e, given).vectors = VectorsNext(s, e, given)
<1> DEFINE v == VectorsNext(s, e, given)
<1>1. Judged(s, e, given) = Judge(s, e, given, v)
  BY DEF Judged
<1> HIDE DEF v
<1>2. Judge(s, e, given, v).vectors = v
  BY DEF Judge
<1> QED
  BY <1>1, <1>2 DEF v

(* Every event of the window is scored once, in its place and within these *)
(* bounds (engine/sequence.py, correlate), whatever the baseline, rules,   *)
(* approvals and indicators.                                               *)
THEOREM EveryEventIsScored == BenchSpec => []ReportScoresAll
<1>1. ReportIsCurrent /\ HabitsAreLearned /\ BenchTyped => ReportScoresAll
  <2> SUFFICES ASSUME ReportIsCurrent, HabitsAreLearned, BenchTyped PROVE ReportScoresAll
    OBVIOUS
  <2> DEFINE given == Given(baseline, rules, approvals)
             n == Len(window)
             t == Trajectory(window, given)
             scored == report.result.scored
  <2>1. window \in Seq(Observed) /\ window \in Seq(Observations) /\ n \in Nat /\ DOMAIN window = 1..n
    BY ObservedHistory DEF BenchTyped, WindowIsObserved
  <2>2. scored = t[n].scored
    BY ReportHas DEF ReportIsCurrent
  <2>3. GivenTyped(given) /\ given.approvals = approvals
    BY GivenIsTyped DEF Given
  <2>4. /\ Len(t[n].scored) = n
        /\ \A k \in 1..n : t[n].scored[k] = ScoredAs(window[k], Judged(t[k - 1], window[k], given), t[k].acc)
    <3>1. n \in 0..n
      BY <2>1
    <3>2. Len(t[n].scored) = n /\ \A k \in 1..n : t[n].scored[k] = t[k].scored[k]
      BY <2>1, <3>1, ScoredAtOwnTurn
    <3>3. \A k \in 1..n : t[k].scored[k] = ScoredAs(window[k], Judged(t[k - 1], window[k], given), t[k].acc)
      BY <2>1, ScoredAtOwnTurn
    <3> QED
      BY <3>2, <3>3
  <2>5. ASSUME NEW k \in 1..n PROVE WellScored(t[n].scored[k], window[k])
    <3> DEFINE judged == Judged(t[k - 1], window[k], given)
               turn == judged.turn
               x == t[n].scored[k]
    <3>1. turn \in Event /\ turn.tamper = Tampers(window[k]) /\ (turn.approval # NoApproval => approvals # <<>>)
      BY <2>1, <2>3, JudgedIsEvent
    <3>2. judged.vectors \in VectorSet
      BY <2>1, <2>3, EventVectors, JudgedVectors
    <3>3. x = ScoredAs(window[k], judged, t[k].acc)
      BY <2>4
    <3> HIDE DEF judged
    <3>4. /\ x.event = window[k] /\ x.vectors = judged.vectors
          /\ x.score = turn.score /\ x.damped = DampedScore(turn)
          /\ x.isDamped = Damps(turn) /\ x.tamper = turn.tamper
      BY <3>3 DEF ScoredAs
    <3> HIDE DEF turn, x
    <3>5. turn.score \in 0..100
      BY <3>1, AccumulatorAssumption DEF Event
    <3>6. /\ DampedScore(turn) \in 0..100 /\ DampedScore(turn) <= Larger(DampingFloor, turn.score)
          /\ ~Damps(turn) => DampedScore(turn) = turn.score
      BY <3>1, DampedScoreBounds
    <3>7. Damps(turn) => ~Tampers(window[k]) /\ approvals # <<>>
      BY <3>1 DEF Damps
    <3>8. WellScored(x, window[k])
      BY <3>1, <3>2, <3>4, <3>5, <3>6, <3>7, Zenon DEF WellScored
    <3> QED
      BY <3>8 DEF x
  <2> HIDE DEF scored, t, given
  <2> QED
    BY <2>1, <2>2, <2>4, <2>5 DEF ReportScoresAll, scored
<1> QED
  BY <1>1, ReportsAreCurrent, HabitsStay, BenchIsTyped, PTL
=============================================================================
