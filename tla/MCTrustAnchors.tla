-------------------------- MODULE MCTrustAnchors --------------------------
(* Instances of TrustAnchors for TLC: the server's own issuer, one that     *)
(* bundles bring, and one whose id starts with a dot.                       *)
EXTENDS TrustAnchors

CONSTANTS self, other, dot, k1, k2, rsa

ThreeIssuers == {self, other, dot}
Dotted == {dot}
Keys == {k1, k2, rsa}
OwnKeys == {k1, k2}
RSAKeys == {rsa}

For(i, f, k) == [issuer |-> i, format |-> f, key |-> k]

\* A bundle with an issuer that is passed over, and one with another key for the
\* server's own id, in a format that is not that of the export.
Bundles == {<<For(dot, "json", k1), For(other, "json", k1)>>, <<For(self, "pem", k2)>>}
=============================================================================
