-------------------------- MODULE MCTrustBundles --------------------------
(* Instances of TrustBundles for TLC: a bundle of two versions that drops an *)
(* issuer and changes a key, and one that shares an issuer with it.          *)
EXTENDS TrustBundles, TLC

CONSTANTS i1, i2, i3, i4, k1, k2, n1, n2, eu, us

FourIssuers == {i1, i2, i3, i4}
TwoKeys == {k1, k2}
TwoNames == {n1, n2}

Versions == {[name |-> n1, keys |-> i1 :> k1 @@ i2 :> k1 @@ i4 :> k1],
             [name |-> n1, keys |-> i1 :> k2 @@ i4 :> k1]}
Bundles == Versions \cup {[name |-> n2, keys |-> i3 :> k1 @@ i4 :> k2]}

TwoJurisdictions == {eu, us}

\* One key comes with metadata, the other with a jurisdiction only.
MetadataOfKeys ==
  k1 :> [assuranceLevel |-> 2, jurisdiction |-> eu] @@ k2 :> [assuranceLevel |-> None, jurisdiction |-> us]

Policies ==
  [minimumAssuranceLevel : {None, 0, 2, 3}, allowedJurisdictions : SUBSET TwoJurisdictions,
   requireRevocationCheck : BOOLEAN]
=============================================================================
