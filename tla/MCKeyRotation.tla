---------------------------- MODULE MCKeyRotation ----------------------------
(* Instance of KeyRotation for TLC: one issuer, the server's own, whose key *)
(* is generated anew and exported, and no bundles.                          *)
EXTENDS KeyRotation

CONSTANTS self, k1, k2

OwnIssuer == {self}
OwnKeys == {k1, k2}
Nothing == {}
=============================================================================
