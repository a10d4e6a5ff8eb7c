------------------------- MODULE MCAlertLifecycle -------------------------
(* Values for TLC: one identity with one context record.                   *)
EXTENDS AlertLifecycle

CONSTANTS i1, c1

OwnContext == [c \in Contexts |-> i1]

(* A score below the drift threshold, one between it and 30, one above.    *)
Scores == {5, 29, 60}
=============================================================================
