--------------------------- MODULE MCRiskWindow ---------------------------
(* Values for TLC.  A tick is two days, one half-life, so the window has    *)
(* seven; scores of 60 stay below the severity floors, scores of 95 reach   *)
(* the highest.                                                             *)
EXTENDS RiskWindow

MCGaps == 0..Window

HalfLives == [g \in MCGaps |-> [x \in Risk |-> Larger(RiskFloor, x \div (2 ^ g))]]

MCGain == [s \in 0..100 |->
  CASE s >= 95 -> 23 [] s >= 60 -> 9 [] s >= 38 -> 2 [] OTHER -> 0]

Kind(score, tier, tamper) == [score |-> score, tier |-> tier, tamper |-> tamper]

Mixed == {Kind(3, 1, FALSE), Kind(60, 1, FALSE), Kind(95, 1, TRUE)}
=============================================================================
