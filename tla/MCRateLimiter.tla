---------------------------- MODULE MCRateLimiter ----------------------------
(* Instances of module RateLimiter for TLC. *)
EXTENDS RateLimiter, TLC

\* Requests are interchangeable.
Symmetry == Permutations(Requests)
=============================================================================
