------------------------------ MODULE Scoring ------------------------------
(***************************************************************************)
(* SequenceEngine.correlate with everything it calls: the vectors of each  *)
(* event of a window, their fusion, the boosts of rules, the approval that *)
(* fits best, and the accumulator (RiskAccumulator!Turn) they feed.        *)
(***************************************************************************)
EXTENDS RiskAccumulator, Rules

CONSTANTS
  Weight,       (* config.vector_weights, normalised, in percent            *)
  ElevatedAt,   (* config.synergy_elevated_at                               *)
  Fade,         (* Fade[g]: percent left of an attribution after a gap      *)
  EarlyDrift,   (* config.threshold_early_drift                             *)
  Escalating,   (* config.threshold_escalating                              *)
  Critical      (* config.threshold_critical                                *)

(* update_hyperparameters accepts strictly rising thresholds only, each    *)
(* within the bounds of the schema.                                        *)
ASSUME ScoringAssumption ==
  /\ Fade \in [Gaps -> 0..100]
  /\ EarlyDrift \in 5..95 /\ Escalating \in 10..98 /\ Critical \in 20..100
  /\ EarlyDrift < Escalating /\ Escalating < Critical

VectorNames == {"temporal", "resource", "privilege", "peer_divergence",
                "geovelocity", "volume", "device", "intel"}

(* It accepts no negative weight, and not all of them zero.                *)
ASSUME WeightAssumption ==
  /\ Weight \in [VectorNames -> 0..100] /\ \E v \in VectorNames : Weight[v] > 0
  /\ ElevatedAt \in 10..95
-----------------------------------------------------------------------------
(* Several vectors that fire at once weigh more, in percent.               *)
Synergy(vectors) ==
  LET elevated == Cardinality({v \in DOMAIN vectors : vectors[v] >= ElevatedAt})
  IN  CASE elevated >= 4 -> 145
        [] elevated = 3 -> 130
        [] elevated = 2 -> 114
        [] elevated < 2 -> 100

(* multiplier: of the active watchlists, in percent.                       *)
Fused(vectors, multiplier) ==
  LET of(v) == Weight[v] * vectors[v]
      fused == (of("temporal") + of("resource") + of("privilege") + of("peer_divergence")
                  + of("geovelocity") + of("volume") + of("device") + of("intel")) * Synergy(vectors)
  IN  Smaller(100, ((fused \div 100) * multiplier) \div 10000)
-----------------------------------------------------------------------------
(* An approval: window, factor in percent, target resources, allowed       *)
(* actions, ticket ("" for none), is_active.                               *)
Covers(a, e) == a.active /\ a.from <= e.at /\ e.at <= a.until

(* _match_specificity: a ticket named by the event passes even an approval *)
(* whose actions do not include the event's.                               *)
Specificity(a, e) ==
  CASE a.ticket # "" /\ a.ticket \in e.tags -> 3
    [] OTHER -> IF a.actions # {} /\ e.action \notin a.actions THEN 0
                ELSE IF a.targets = {} THEN 1
                ELSE IF \E t \in a.targets : Has(e.resource, t) \/ Has(t, e.resource) THEN 2 ELSE 0

(* The most specific of the approvals that cover the event, of equals the  *)
(* first; its factor, clamped, a blanket approval's weakened.              *)
BestFactor(approvals, e) ==
  LET fits(k) == IF Covers(approvals[k], e) THEN Specificity(approvals[k], e) ELSE 0
      best == Max({0} \cup {fits(k) : k \in DOMAIN approvals})
      a == approvals[Min({k \in DOMAIN approvals : fits(k) = best})]
      factor == Larger(10, Smaller(95, a.factor))
  IN  IF best = 0 THEN NoApproval
      ELSE IF best = 1 THEN Smaller(95, factor + 25) ELSE factor
-----------------------------------------------------------------------------
State(risk) ==
  CASE risk >= Critical -> "CRITICAL_TRANSITION"
    [] risk \in Escalating..Critical - 1 -> "ESCALATING"
    [] risk \in EarlyDrift..Escalating - 1 -> "EARLY_DRIFT"
    [] OTHER -> "STABLE"

(* What an anomalous event adds to the attribution of the risk, in parts   *)
(* per thousand.                                                           *)
Influence(score) == (1000 * (score - NormalThreshold)) \div (100 - NormalThreshold)

Attributed(attribution, e, vectors, score, gap) ==
  IF score <= NormalThreshold THEN attribution
  ELSE [weight |-> (attribution.weight * Fade[gap]) \div 100 + Influence(score),
        of |-> [v \in DOMAIN vectors |->
                  (attribution.of[v] * Fade[gap]) \div 100 + vectors[v] * Influence(score)]]

Unscored ==
  [acc |-> Nothing, scored |-> <<>>, located |-> <<>>, crashed |-> FALSE,
   attribution |-> [weight |-> 0, of |-> [v \in DOMAIN Weight |-> 0]]]

(* given: the baseline, the identity, its cohort, indicators, rules,       *)
(* approvals and multiplier the events are scored with.                    *)
VectorsNext(s, e, given) ==
  LET past == [k \in DOMAIN s.scored |-> s.scored[k].event]
      today == {k \in DOMAIN past : Day(past[k]) = Day(e)}
      bytes == e.bytes + Total([k \in DOMAIN past |-> IF k \in today THEN past[k].bytes ELSE 0])
  IN  Vectors(e, given.baseline, given.who, given.cohort, s.located,
              Cardinality(today) + 1, bytes, given.indicators)

(* What the loop makes of an event: the turn it takes, the rules that hit. *)
(* Rules see the risk as it has decayed until the event, without its turn. *)
Judge(s, e, given, vectors) ==
  LET gap == IF s.scored = <<>> THEN 0 ELSE e.at - Last(s.scored).event.at
      fused == Fused(vectors, given.multiplier)
      covered == \E k \in DOMAIN given.approvals : Covers(given.approvals[k], e)
      facts == Facts(e, vectors, fused, Larger(RiskFloor, Decay[gap][s.acc.risk]))
      hits == Match(given.rules, facts, covered)
  IN  [turn |-> [gap |-> gap, score |-> Smaller(100, fused + TotalBoost(hits)), tier |-> e.tier,
                 approval |-> BestFactor(given.approvals, e), tamper |-> Tampers(e)],
       vectors |-> vectors, rules |-> {r.slug : r \in hits},
       crashes |-> Crashes(given.rules, facts, covered)]

(* An event as it was scored, and the risk it left.                        *)
ScoredAs(e, judged, acc) ==
  LET turn == judged.turn
  IN  [event |-> e, vectors |-> judged.vectors, score |-> turn.score,
       damped |-> DampedScore(turn), isDamped |-> Damps(turn), tamper |-> turn.tamper,
       rules |-> judged.rules, risk |-> acc.risk, rawRisk |-> acc.rawRisk]

(* The accumulator takes its turn, and the event joins the trajectory.     *)
Join(s, e, judged) ==
  LET turn == judged.turn
      acc == Turn(s.acc, turn)
  IN  [acc |-> acc,
       located |-> IF e.place = Nowhere THEN s.located ELSE <<e>>,
       crashed |-> s.crashed \/ judged.crashes,
       attribution |-> Attributed(s.attribution, e, judged.vectors, turn.score, turn.gap),
       scored |-> Append(s.scored, ScoredAs(e, judged, acc))]

ScoreNext(s, e, given) == Join(s, e, Judge(s, e, given, VectorsNext(s, e, given)))

(* _velocity: risk gained per day over the last day of the window, or over *)
(* its last six events.                                                    *)
Velocity(scored) ==
  LET lastDay == SelectSeq(scored, LAMBDA x : x.event.at >= Last(scored).event.at - 1440)
      span == IF Len(lastDay) >= 2 THEN lastDay ELSE LastOf(scored, 6)
      minutes == Larger(60, Last(span).event.at - Head(span).event.at)
  IN  IF Len(scored) < 2 THEN 0
      ELSE ((Last(span).risk - Head(span).risk) * 1440) \div minutes

(* What the pass says once it has seen all events.                         *)
Summary(s) ==
  [risk |-> s.acc.risk, rawRisk |-> s.acc.rawRisk, tamper |-> s.acc.tamper,
   damped |-> s.acc.damped, state |-> State(s.acc.risk), scored |-> s.scored,
   velocity |-> Velocity(s.scored), crashed |-> s.crashed,
   vectors |-> [v \in DOMAIN Weight |->
                  Smaller(100, s.attribution.of[v] \div Larger(1, s.attribution.weight))],
   rules |-> UNION {s.scored[k].rules : k \in DOMAIN s.scored}]

(* The loop after each of the first n events; ScoreOnce names what is      *)
(* scored on so that TLC evaluates it once.                                *)
ScoreOnce(s, e, given) == CHOOSE t \in {ScoreNext(x, e, given) : x \in {s}} : TRUE

Trajectory(window, given) ==
  LET after[k \in 0..Len(window)] ==
        IF k = 0 THEN Unscored ELSE ScoreOnce(after[k - 1], window[k], given)
  IN  after

Correlate(window, given) == Summary(Trajectory(window, given)[Len(window)])
=============================================================================
