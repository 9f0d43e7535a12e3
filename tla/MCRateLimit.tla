---------------------------- MODULE MCRateLimit ----------------------------
(* Instances of RateLimit for TLC: three requests of one subject, one over the limit. *)
EXTENDS RateLimit, TLC

CONSTANTS r1, r2, r3, s1

ThreeRequests == {r1, r2, r3}
OneSubject == {s1}

Symmetry == Permutations(Request)
=============================================================================
