----------------------------- MODULE MCSeeding ------------------------------
(* A small instance of Seeding for the model checker.                      *)
EXTENDS Seeding
=============================================================================
