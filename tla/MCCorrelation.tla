--------------------------- MODULE MCCorrelation ---------------------------
(* Values for TLC.  A gap is counted in days, half a half-life each.  The   *)
(* gain of score s for the normal threshold t = 28 is                       *)
(* ((s - t) / (100 - t))^1.18 * 26, rounded down, of the next lower of a    *)
(* few scores.                                                              *)
EXTENDS Correlation

HalfLife == [g \in Gaps |-> [x \in Risk |->
  Larger(RiskFloor, CASE g = 0 -> x [] g = 1 -> (x * 707) \div 1000 [] g = 2 -> x \div 2)]]

Gain28 == [s \in 0..100 |->
  CASE s >= 95 -> 23 [] s >= 80 -> 17 [] s >= 70 -> 13 [] s >= 45 -> 4 [] s >= 38 -> 2 [] OTHER -> 0]
=============================================================================
