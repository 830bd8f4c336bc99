--------------------------- MODULE MCRateLimiter ---------------------------
(* Instances of RateLimiter for TLC. *)
EXTENDS RateLimiter, TLC

(* The requests of one key are interchangeable. *)
Symmetry == Permutations(Request)
=============================================================================
