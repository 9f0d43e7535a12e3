---------------------------- MODULE MCAdminAuth ----------------------------
(* Instance of AdminAuth for TLC: two servers and two keys, one rotated to the other. *)
EXTENDS AdminAuth, TLC

CONSTANTS s1, s2, k1, k2

TwoServers == {s1, s2}
TwoKeys == {k1, k2}

Symmetry == Permutations(TwoServers) \cup Permutations(TwoKeys)
=============================================================================
