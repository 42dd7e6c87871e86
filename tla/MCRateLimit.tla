---------------------------- MODULE MCRateLimit ----------------------------
(* A small instance of the rate limiter for TLC.                           *)
EXTENDS RateLimit, TLC

CONSTANTS a1, a2

Symmetry == Permutations(Addrs)
=============================================================================
