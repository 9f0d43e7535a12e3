---------------------------- MODULE PolicyEngine ----------------------------
(***************************************************************************)
(* The verdict of a verifier's policy on an issuer's metadata and on       *)
(* whether a certificate's revocation was checked (PolicyEngineSimple of   *)
(* the protocol package).                                                  *)
(***************************************************************************)
EXTENDS Integers

CONSTANTS Jurisdiction,
          None  \* a level or a jurisdiction that is not given, and whatever is not there

\* PolicyConfig; a list of jurisdictions that is empty asks for none.
PolicyRecord ==
  [minimumAssuranceLevel : Nat \cup {None}, allowedJurisdictions : SUBSET Jurisdiction,
   requireRevocationCheck : BOOLEAN]

MetadataRecord == [assuranceLevel : Nat \cup {None}, jurisdiction : Jurisdiction \cup {None}]
NoMetadata == [assuranceLevel |-> None, jurisdiction |-> None]

\* An issuer without a level has 0.
Level(metadata) == IF metadata.assuranceLevel = None THEN 0 ELSE metadata.assuranceLevel

\* Without a jurisdiction it is in none of a list.
Meets(policy, metadata) ==
  /\ policy.minimumAssuranceLevel # None => Level(metadata) >= policy.minimumAssuranceLevel
  /\ policy.allowedJurisdictions # {} => metadata.jurisdiction \in policy.allowedJurisdictions

\* Mutant: whether the revocation check is missing is asked first.
evaluateRevocationFirst(policy, metadata, checked) ==
  IF policy.requireRevocationCheck /\ ~checked THEN "CONDITIONAL"
  ELSE IF Meets(policy, metadata) THEN "PASS" ELSE "FAIL"

evaluate(policy, metadata, checked) ==
  IF ~Meets(policy, metadata) THEN "FAIL"
  ELSE IF policy.requireRevocationCheck /\ ~checked THEN "CONDITIONAL" ELSE "PASS"

-----------------------------------------------------------------------------
Rank == [FAIL |-> 0, CONDITIONAL |-> 1, PASS |-> 2]

\* v is no better a verdict than w.
AtMost(v, w) == Rank[v] <= Rank[w]

\* q asks for all that p asks for.  An empty list of jurisdictions asks for less
\* than any other, so taking the last entry out of a list makes it no stricter.
Stricter(q, p) ==
  /\ p.minimumAssuranceLevel # None =>
       q.minimumAssuranceLevel # None /\ q.minimumAssuranceLevel >= p.minimumAssuranceLevel
  /\ p.allowedJurisdictions # {} =>
       q.allowedJurisdictions # {} /\ q.allowedJurisdictions \subseteq p.allowedJurisdictions
  /\ p.requireRevocationCheck => q.requireRevocationCheck
=============================================================================
