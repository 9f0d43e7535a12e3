--------------------------- MODULE MCReplayGuard ---------------------------
(* Instances of ReplayGuard for TLC: two tokens of one agent with one nonce *)
(* and timestamps in the middle of the run; and a single token on a scale   *)
(* of seconds.                                                              *)
EXTENDS ReplayGuard, TLC

CONSTANTS r1, r2, t1, t2, k1, k2

TwoRequests == {r1, r2}
OneToken == {t1}
TwoTokens == {t1, t2}
OneKey == {k1}
TwoKeys == {k1, k2}
TwoStamps == {3, 4}
Minute == {60}

SameNonce == [t \in Token |-> k1]
TokenTime == [t \in Token |-> IF t = t1 THEN 3 ELSE 4]
AtMinute == [t \in Token |-> 60]

Symmetry == Permutations(Request)
=============================================================================
