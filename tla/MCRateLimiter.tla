---------------------------- MODULE MCRateLimiter ----------------------------
(* Instances of the rate limiter for TLC. *)
EXTENDS RateLimiter, TLC

SomeAmounts == {0, 2}
SomePeriods == {-2, 0, 2}

Alike == Permutations(Workers)
=============================================================================
