---------------------------- MODULE TrustAnchors ----------------------------
(***************************************************************************)
(* How a verifying server comes to trust an issuer: the directory          *)
(* config/trust/anchors, the two scripts that write it (the bundle         *)
(* installer and export-issuer-public), the load of its files into the     *)
(* trust store when the server starts (backend/api/src/trust-store.ts),    *)
(* the server's own signing key, and POST /verify/portable, which holds a  *)
(* certificate against the store.                                          *)
(*                                                                         *)
(* The scripts and the server are separate processes that share the files  *)
(* only.  Scripts write a file by truncating it first, so that it can be   *)
(* found torn, for good if the script stops in between.                    *)
(***************************************************************************)
EXTENDS Sequences

CONSTANTS Issuer,   \* issuer ids
          Self,     \* a2ax-core-protocol, the id under which the server signs
          Hidden,   \* the issuer ids that start with a dot
          Key,      \* key pairs: a key here is its public and its private half
          RSA,      \* those of them that are RSA; the others are Ed25519
          Mint,     \* the keys that the key generator may come up with
          Manifest, \* the lists of issuers of valid manifests, of all versions
          Kms,      \* the key behind KMS_KEY_ARN, or None
          None,     \* nothing there
          Torn      \* not a key: part of a file

Format == {"json", "pem"}
Anchor == Issuer \X Format

\* An issuer of a manifest, with its public key in one of the two formats.
Entry == [issuer : Issuer, format : Format, key : Key]
FileOf(e) == <<e.issuer, e.format>>

ASSUME AnchorsAssumption ==
  /\ Self \in Issuer \ Hidden /\ Hidden \subseteq Issuer
  /\ RSA \subseteq Key /\ Mint \subseteq Key \ RSA /\ Kms \in RSA \cup {None}
  /\ Manifest \subseteq Seq(Entry)
  /\ None \notin Key \cup {Torn, "active", "revoked"} /\ Torn \notin Key

VARIABLES
  anchor,   \* the content of each file of the directory, None if it is not there
  writing,  \* what the running script has left to write
  opened,   \* whether it has truncated the first of these files
  phase,    \* of the server
  pending,  \* files listed by readdir and not yet read
  store,    \* trustStoreInstance: the key of each trusted issuer
  secret,   \* the content of secrets/issuer_private_jwk.json
  signing,  \* keyPromise of the signer, Torn when it was rejected
  course,   \* history: of the load of this server: "calm" as long as all files were
            \* whole at its start and files and secret are as they were,
            \* "stopped" if it stopped at a file, else "disturbed"
  latest    \* history: the key last installed for each issuer since it was removed

files == <<anchor, writing, opened, latest>>
server == <<phase, pending, store, signing>>
vars == <<files, server, secret, course>>

TypeOK ==
  /\ anchor \in [Anchor -> Key \cup {None, Torn}]
  /\ writing \in Seq(Entry)
  /\ opened \in BOOLEAN
  /\ opened => writing # <<>>
  /\ phase \in {"down", "loading", "up"}
  /\ pending \subseteq Anchor
  /\ store \in [Issuer -> Key \cup {None, Torn}]
  /\ secret \in Mint \cup {None, Torn}
  /\ signing \in Key \cup {None, Torn}
  /\ course \in {"calm", "disturbed", "stopped"}
  /\ latest \in [Issuer -> Key \cup {None}]

Init ==
  /\ anchor = [a \in Anchor |-> None] /\ writing = <<>> /\ opened = FALSE
  /\ phase = "down" /\ pending = {} /\ signing = None /\ secret = None
  /\ store = [i \in Issuer |-> None]
  /\ course = "calm"
  /\ latest = [i \in Issuer |-> None]

-----------------------------------------------------------------------------
(* The directory and the key file. *)

\* Files or key change under a server that has read them, or is about to.
Disturb == course' = IF course = "calm" /\ phase # "down" THEN "disturbed" ELSE course

\* a2ax trust install: the manifest is read whole and validated first.
Install(m) ==
  /\ writing = <<>> /\ writing' = m
  /\ UNCHANGED <<anchor, opened, latest, server, secret, course>>

\* export-issuer-public: the public half of the key file becomes Self's anchor, if
\* the file is there and whole.
Export ==
  /\ writing = <<>> /\ secret \in Mint
  /\ writing' = <<[issuer |-> Self, format |-> "json", key |-> secret]>>
  /\ UNCHANGED <<anchor, opened, latest, server, secret, course>>

\* writeFileSync, first half: the file is opened and truncated.
OpenFile ==
  /\ writing # <<>> /\ ~opened
  /\ anchor' = [anchor EXCEPT ![FileOf(Head(writing))] = Torn]
  /\ opened' = TRUE
  /\ Disturb
  /\ UNCHANGED <<writing, latest, server, secret>>

\* writeFileSync, second half; to no effect if the file was deleted since.
WriteFile ==
  /\ opened
  /\ LET e == Head(writing) IN
     \/ /\ anchor[FileOf(e)] # None
        /\ anchor' = [anchor EXCEPT ![FileOf(e)] = e.key]
        /\ latest' = [latest EXCEPT ![e.issuer] = e.key]
     \/ /\ anchor[FileOf(e)] = None
        /\ UNCHANGED <<anchor, latest>>
  /\ writing' = Tail(writing) /\ opened' = FALSE
  /\ Disturb
  /\ UNCHANGED <<server, secret>>

\* A write fails and the script exits, or it is killed.
ScriptStops ==
  /\ writing # <<>>
  /\ writing' = <<>> /\ opened' = FALSE
  /\ UNCHANGED <<anchor, latest, server, secret, course>>

\* An operator deletes the anchor files of an issuer.
RemoveAnchors(i) ==
  /\ anchor' = [a \in Anchor |-> IF a[1] = i THEN None ELSE anchor[a]]
  /\ latest' = [latest EXCEPT ![i] = None]
  /\ Disturb
  /\ UNCHANGED <<writing, opened, server, secret>>

\* keygen:issuer truncates the key file, or creates it, and writes a new key.  One
\* that stops in between leaves it torn, as one does that is still running.
KeygenOpen ==
  /\ secret # Torn /\ secret' = Torn
  /\ Disturb
  /\ UNCHANGED <<files, server>>

KeygenWrite(k) ==
  /\ secret = Torn /\ secret' = k
  /\ Disturb
  /\ UNCHANGED <<files, server>>

-----------------------------------------------------------------------------
(* The server. *)

Files == {a \in Anchor : anchor[a] # None}
Whole == Torn \notin {anchor[a] : a \in Anchor}

\* loadTrustAnchors, up to the answer of readdir; it may fail, or no directory be set.
Start ==
  /\ phase = "down" /\ phase' = "loading"
  /\ \/ pending' = Files /\ course' = IF Whole THEN "calm" ELSE "disturbed"
     \/ pending' = {} /\ course' = "stopped"
  /\ UNCHANGED <<files, store, signing, secret>>

\* A file name that starts with a dot is passed over.
SkipFile(a) ==
  /\ phase = "loading" /\ a \in pending /\ a[1] \in Hidden
  /\ pending' = pending \ {a}
  /\ UNCHANGED <<files, phase, store, signing, secret, course>>

\* A torn .json file is one that JSON.parse rejects; a .pem file is not looked
\* into.
Parses(a) == anchor[a] # None /\ (a[2] = "json" => anchor[a] # Torn)

\* Mutant: the issuer's id is the file name with its extension.
LoadFileUnderName(a) ==
  /\ phase = "loading" /\ a \in pending /\ a[1] \notin Hidden
  /\ Parses(a)
  /\ store' = [i \in Issuer \cup {a} |-> IF i = a THEN anchor[a] ELSE store[i]]
  /\ pending' = pending \ {a}
  /\ UNCHANGED <<files, phase, signing, secret, course>>

\* Mutant: the loop returns after a file instead of going on.
LoadFileOnly(a) ==
  /\ phase = "loading" /\ a \in pending /\ a[1] \notin Hidden
  /\ Parses(a)
  /\ store' = [store EXCEPT ![a[1]] = anchor[a]]
  /\ pending' = {}
  /\ UNCHANGED <<files, phase, signing, secret, course>>

\* readFile, JSON.parse and addIssuer, in whichever order readdir listed the files.
LoadFile(a) ==
  /\ phase = "loading" /\ a \in pending /\ a[1] \notin Hidden
  /\ Parses(a)
  /\ store' = [store EXCEPT ![a[1]] = anchor[a]]
  /\ pending' = pending \ {a}
  /\ UNCHANGED <<files, phase, signing, secret, course>>

\* The file is gone, does not parse, or cannot be read: the catch around the loop
\* leaves the rest of the files unread and the error unreported.
LoadStops(a) ==
  /\ phase = "loading" /\ a \in pending /\ a[1] \notin Hidden
  /\ pending' = {} /\ course' = "stopped"
  /\ UNCHANGED <<files, phase, store, signing, secret>>

\* Mutant: a server without anchors does not serve.
ListenTrusting ==
  /\ phase = "loading" /\ pending = {} /\ \E i \in Issuer : store[i] # None
  /\ phase' = "up"
  /\ UNCHANGED <<files, pending, store, signing, secret, course>>

Listen ==
  /\ phase = "loading" /\ pending = {}
  /\ phase' = "up"
  /\ UNCHANGED <<files, pending, store, signing, secret, course>>

\* A shutdown or a crash: store and signer are the process's memory.
Stop ==
  /\ phase # "down" /\ phase' = "down"
  /\ pending' = {} /\ signing' = None
  /\ store' = [i \in Issuer |-> None]
  /\ UNCHANGED <<files, secret, course>>

\* What the signer would sign with if it had to find its key now.
Configured == IF Kms # None THEN Kms ELSE secret

\* signCertificate: the first call looks for the key, and its outcome, a missing
\* or torn file included, is that of all later calls of this process.
Sign ==
  /\ phase = "up" /\ signing = None
  /\ signing' = IF Configured \in Key THEN Configured ELSE Torn
  /\ UNCHANGED <<files, phase, pending, store, secret, course>>

\* Mutant: the certificate is decoded and its signature not checked.
VerdictUnsigned(i, k, live, told, demanded) ==
  IF store[i] = None THEN "issuer_not_trusted"
  ELSE IF demanded /\ told = None THEN "revocation_check_required"
  ELSE IF told = "revoked" THEN "certificate_revoked"
  ELSE IF store[i] = Torn THEN "invalid_issuer_key"
  ELSE IF ~live THEN "certificate_expired"
  ELSE "valid"

\* Mutant: a revocation status is always demanded.
VerdictTold(i, k, live, told, demanded) ==
  IF store[i] = None THEN "issuer_not_trusted"
  ELSE IF told = None THEN "revocation_check_required"
  ELSE IF told = "revoked" THEN "certificate_revoked"
  ELSE IF store[i] = Torn THEN "invalid_issuer_key"
  ELSE IF k \in RSA \/ store[i] # k THEN "not_verified"
  ELSE IF ~live THEN "certificate_expired"
  ELSE "valid"

\* The answer to POST /verify/portable for a certificate that names issuer i and
\* is signed with k; live when it has not expired; with the revocation status that
\* the request tells, if any, and the demand for one.  Certificates signed with an
\* RSA key are RS256, and only EdDSA is let through.
Verdict(i, k, live, told, demanded) ==
  IF store[i] = None THEN "issuer_not_trusted"
  ELSE IF demanded /\ told = None THEN "revocation_check_required"
  ELSE IF told = "revoked" THEN "certificate_revoked"
  ELSE IF store[i] = Torn THEN "invalid_issuer_key"
  ELSE IF k \in RSA \/ store[i] # k THEN "not_verified"
  ELSE IF ~live THEN "certificate_expired"
  ELSE "valid"

\* Some request to POST /verify/portable finds such a certificate valid.
MayBeValid(i, k) ==
  \E live, demanded \in BOOLEAN, told \in {None, "active", "revoked"} :
    Verdict(i, k, live, told, demanded) = "valid"

-----------------------------------------------------------------------------
Load == \E a \in Anchor : SkipFile(a) \/ LoadFile(a) \/ LoadStops(a)

Next ==
  \/ \E m \in Manifest : Install(m)
  \/ Export \/ OpenFile \/ WriteFile \/ ScriptStops
  \/ \E i \in Issuer : RemoveAnchors(i)
  \/ KeygenOpen \/ \E k \in Mint : KeygenWrite(k)
  \/ Start \/ Load \/ Listen \/ Stop \/ Sign

Spec == Init /\ [][Next]_vars

\* Node runs the loop of loadTrustAnchors to its end, and then the rest of main.
FairSpec == Spec /\ WF_vars(Load) /\ WF_vars(Listen)

-----------------------------------------------------------------------------
(* Properties. *)

IsOffered(i, k) ==
  \/ i = Self /\ k \in Mint
  \/ \E m \in Manifest : \E n \in DOMAIN m : m[n].issuer = i /\ m[n].key = k

OneFile(i) == \E f \in Format : \A g \in Format \ {f} : anchor[<<i, g>>] = None

\* Whatever is interrupted, torn, removed or loaded halfway, a certificate is found
\* valid only under a key that a bundle, or the export for Self, named for its issuer
\* (installer, loadTrustAnchors, verifyPortableCertificate).
OnlyOffered ==
  phase = "up" => \A i \in Issuer, k \in Key : MayBeValid(i, k) => IsOffered(i, k)

\* A server whose files were whole when it started and have not changed since trusts
\* each issuer under the key installed last and none before it, and under none if it
\* was removed; an issuer with files of both formats under the key of one of the two
\* (loadTrustAnchors: every file is read, past the skipped ones, in any order).  What
\* docs/security.md:34 says of the keys before it is in KeyRotation.
NewestIsTrusted ==
  phase = "up" /\ course = "calm" =>
    \A i \in Issuer \ Hidden :
      /\ OneFile(i) => store[i] = latest[i]
      /\ ~OneFile(i) => \E f \in Format : store[i] = anchor[<<i, f>>]

\* A server whose own signing key was installed as Self's anchor before it started
\* finds the certificates that it signs valid (issuer-signer against verification).
OwnCertificatesVerify ==
  phase = "up" /\ course = "calm" /\ signing \in Key
    /\ OneFile(Self) /\ latest[Self] = Configured
  => Verdict(Self, signing, TRUE, None, FALSE) = "valid"

\* A server that starts to load its anchors, whatever they are, goes on to serve
\* or is stopped (the catch in loadTrustAnchors).
LoadEnds == phase = "loading" ~> phase # "loading"
=============================================================================
