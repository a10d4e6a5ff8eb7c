------------------------- MODULE MCAlertSessions -------------------------
(* Instances of AlertSessions for TLC.                                     *)
EXTENDS AlertSessions, TLC

CONSTANTS s1, s2

(* The risk has decayed; it drifts; it drifts but is damped below 30.      *)
Decayed == [risk |-> 5, tamper |-> FALSE, damped |-> FALSE]
Drifting == [risk |-> 60, tamper |-> FALSE, damped |-> FALSE]
Damped == [risk |-> 29, tamper |-> FALSE, damped |-> TRUE]

Outcomes == {Decayed, Drifting, Damped}
Undamped == {Decayed, Drifting}

Symm == Permutations(Sessions)
=============================================================================
