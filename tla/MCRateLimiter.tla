---------------------------- MODULE MCRateLimiter ---------------------------
(* A small instance of RateLimiter for the model checker.                  *)
EXTENDS RateLimiter

MCLimit == [k \in Kinds |-> IF k = "ordinary" THEN 2 ELSE 3]
=============================================================================
