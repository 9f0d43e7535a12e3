----------------------------- MODULE MCRegistry -----------------------------
(* Instances of Registry for TLC: few agents and requests, all alike. *)
EXTENDS Registry, TLC

CONSTANTS r1, r2, r3, a1, a2, o1, o2, m1, m2

ThreeRequests == {r1, r2, r3}
TwoRequests == {r1, r2}
TwoAgents == {a1, a2}
OneAgent == {a1}
OneOrg == {o1}
TwoOrgs == {o1, o2}
TwoManifests == {m1, m2}
OneManifest == {m1}

\* One agent is enrolled and the others are not, so they are not interchangeable.
Symmetry == Permutations(Request) \cup Permutations(Manifest) \cup Permutations(Org)
=============================================================================
