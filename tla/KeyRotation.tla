----------------------------- MODULE KeyRotation -----------------------------
(***************************************************************************)
(* TrustAnchors with two more history variables, for what the documents    *)
(* say of the rotation of an issuer's key.  They guard no step.            *)
(***************************************************************************)
EXTENDS TrustAnchors

VARIABLES
  installed,  \* the keys installed as Self's anchor since it was last removed
  issued      \* the keys that servers have signed certificates with

RotationInit == Init /\ installed = {} /\ issued = {}

RotationNext ==
  /\ Next
  /\ installed' = IF latest'[Self] = None THEN {} ELSE installed \cup {latest'[Self]}
  /\ issued' = issued \cup ({signing'} \cap Key)

RotationSpec == RotationInit /\ [][RotationNext]_<<vars, installed, issued>>

-----------------------------------------------------------------------------
\* What docs/security.md:34 says of the rotation of an issuer's key, "Old certificates
\* remain valid until expiry": an undisturbed server finds a certificate valid that was
\* signed with a key installed as Self's anchor, now or before, and has not expired.
\* The store has room for one key per issuer (addIssuer), so it does not.
OldCertificatesStayValid ==
  phase = "up" /\ course = "calm" =>
    \A k \in (installed \cap issued) \ RSA : Verdict(Self, k, TRUE, None, FALSE) = "valid"
=============================================================================
