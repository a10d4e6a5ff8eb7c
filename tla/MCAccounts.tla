----------------------------- MODULE MCAccounts -----------------------------
(* Small instances of Accounts for the model checker.                      *)
EXTENDS Accounts, TLC

CONSTANTS root, eve

MCSeeded == [p \in {root} |-> "admin"]

Symmetry == Permutations(Requests)
=============================================================================
