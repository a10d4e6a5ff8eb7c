---------------------------- MODULE MCLiveFeed ----------------------------
(* Values for TLC: one connection, to the first of two replicas.            *)
EXTENDS LiveFeed

CONSTANTS r1, r2, c1

HomeOfOne == c1 :> r1
=============================================================================
