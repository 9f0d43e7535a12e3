---------------------------- MODULE TrustBundles ----------------------------
(***************************************************************************)
(* Bundles of issuers in a trust store: TrustStoreInMemory and             *)
(* BundleLoaderSimple of the protocol package.  The loader remembers the   *)
(* ids that each bundle brought, by the bundle's name, and takes these out *)
(* of the store when the bundle is unloaded.  The store is also open to    *)
(* addIssuer and removeIssuer.                                             *)
(*                                                                         *)
(* What the store knows of an issuer is what the policy engine judges.     *)
(***************************************************************************)
EXTENDS PolicyEngine, TLAPS

CONSTANTS Issuer, Name,
          Key,      \* public keys, each with the metadata it comes with
          Metadata, \* of a key
          Bundle,   \* the bundles that may be loaded, of all versions
          Policy    \* what verifiers ask for

\* A bundle: its name, and its keys by issuer id.  Of an id that is listed twice
\* the last key counts.
BundleRecord == [name : Name, keys : UNION {[ids -> Key] : ids \in SUBSET Issuer}]

ASSUME BundlesAssumption ==
  /\ Bundle \subseteq BundleRecord /\ None \notin Key /\ None \notin Bundle
  /\ Metadata \in [Key -> MetadataRecord] /\ Policy \subseteq PolicyRecord
  /\ None \notin Jurisdiction

VARIABLES
  issuers,       \* TrustStoreInMemory: the key of each issuer, None where there is none
  loadedBundles, \* BundleLoaderSimple: the ids each bundle brought, {} if not loaded
  current,       \* history: the version of each name that is loaded, or None
  touched        \* history: the issuers that addIssuer or removeIssuer was called for

vars == <<issuers, loadedBundles, current, touched>>

TypeOK ==
  /\ issuers \in [Issuer -> Key \cup {None}]
  /\ loadedBundles \in [Name -> SUBSET Issuer]
  /\ current \in [Name -> Bundle \cup {None}]
  /\ touched \subseteq Issuer

Init ==
  /\ issuers = [i \in Issuer |-> None]
  /\ loadedBundles = [n \in Name |-> {}]
  /\ current = [n \in Name |-> None]
  /\ touched = {}

\* Mutant: the loader keeps the issuers themselves.
LoadBundleKeepKeys(b) ==
  /\ issuers' = [i \in Issuer |-> IF i \in DOMAIN b.keys THEN b.keys[i] ELSE issuers[i]]
  /\ loadedBundles' = [loadedBundles EXCEPT ![b.name] = {b.keys[i] : i \in DOMAIN b.keys}]
  /\ current' = [current EXCEPT ![b.name] = b]
  /\ UNCHANGED touched

\* loadBundle
LoadBundle(b) ==
  /\ issuers' = [i \in Issuer |-> IF i \in DOMAIN b.keys THEN b.keys[i] ELSE issuers[i]]
  /\ loadedBundles' = [loadedBundles EXCEPT ![b.name] = DOMAIN b.keys]
  /\ current' = [current EXCEPT ![b.name] = b]
  /\ UNCHANGED touched

\* Mutant: the bundle is forgotten and its issuers are not.
UnloadBundleKeepIssuers(n) ==
  /\ loadedBundles' = [loadedBundles EXCEPT ![n] = {}]
  /\ current' = [current EXCEPT ![n] = None]
  /\ UNCHANGED <<issuers, touched>>

\* unloadBundle; nothing happens for a name that is not loaded.
UnloadBundle(n) ==
  /\ issuers' = [i \in Issuer |-> IF i \in loadedBundles[n] THEN None ELSE issuers[i]]
  /\ loadedBundles' = [loadedBundles EXCEPT ![n] = {}]
  /\ current' = [current EXCEPT ![n] = None]
  /\ UNCHANGED touched

AddIssuer(i, k) ==
  /\ issuers' = [issuers EXCEPT ![i] = k] /\ touched' = touched \cup {i}
  /\ UNCHANGED <<loadedBundles, current>>

RemoveIssuer(i) ==
  /\ issuers' = [issuers EXCEPT ![i] = None] /\ touched' = touched \cup {i}
  /\ UNCHANGED <<loadedBundles, current>>

Next ==
  \/ \E b \in Bundle : LoadBundle(b)
  \/ \E n \in Name : UnloadBundle(n)
  \/ \E i \in Issuer, k \in Key : AddIssuer(i, k)
  \/ \E i \in Issuer : RemoveIssuer(i)

Spec == Init /\ [][Next]_vars

-----------------------------------------------------------------------------
\* Every version of n lists i, and no other bundle does.
Sponsor(i, n) == \A b \in Bundle : i \in DOMAIN b.keys <=> b.name = n

\* The store is made of the loaded bundles: an issuer that one name sponsors has the
\* key that the loaded version gives it, and is not trusted when none is loaded, unless
\* it was added or removed directly (loadBundle, unloadBundle).
StoreFollowsBundles ==
  \A i \in Issuer \ touched : \A n \in Name : Sponsor(i, n) =>
    issuers[i] = IF current[n] = None THEN None ELSE current[n].keys[i]

\* What a verifier finds in the store about an issuer (listIssuers).
MetadataOf(i) == IF issuers[i] = None THEN NoMetadata ELSE Metadata[issuers[i]]

\* A stricter policy is never the kinder one; an issuer is never judged better for
\* being gone from the store; and a conditional certificate passes as soon as its
\* revocation was checked (PolicyEngineSimple.evaluate).
VerdictIsMonotone ==
  \A p \in Policy, i \in Issuer, checked \in BOOLEAN :
    LET verdict == evaluate(p, MetadataOf(i), checked) IN
    /\ \A q \in Policy : Stricter(q, p) => AtMost(evaluate(q, MetadataOf(i), checked), verdict)
    /\ AtMost(evaluate(p, NoMetadata, checked), verdict)
    /\ verdict = "CONDITIONAL" => evaluate(p, MetadataOf(i), TRUE) = "PASS"

-----------------------------------------------------------------------------
(* Proofs. *)

LEMMA BundleParts ==
  ASSUME NEW b \in Bundle
  PROVE  /\ b.name \in Name /\ DOMAIN b.keys \subseteq Issuer
         /\ \A i \in DOMAIN b.keys : b.keys[i] \in Key
<1>1. b \in BundleRecord
  BY BundlesAssumption
<1>2. PICK ids \in SUBSET Issuer : b.keys \in [ids -> Key]
  BY <1>1 DEF BundleRecord
<1> QED
  BY <1>1, <1>2 DEF BundleRecord

\* Type correctness.
THEOREM TypeCorrect == Spec => []TypeOK
<1>1. Init => TypeOK
  BY DEF Init, TypeOK
<1>2. TypeOK /\ [Next]_vars => TypeOK'
  BY BundleParts DEF Next, LoadBundle, UnloadBundle, AddIssuer, RemoveIssuer, vars, TypeOK
<1> QED
  BY <1>1, <1>2, PTL DEF Spec

\* The ids the loader keeps of a sponsored issuer's bundle.
IdsFollow ==
  \A n \in Name : loadedBundles[n] = IF current[n] = None THEN {} ELSE DOMAIN current[n].keys

Named == \A n \in Name : current[n] # None => current[n].name = n

\* The store follows the bundles for every set of bundles, however they overlap.
THEOREM BundlesDecide == Spec => []StoreFollowsBundles
<1> DEFINE IInv == StoreFollowsBundles /\ IdsFollow /\ Named
<1>1. Init => IInv
  BY DEF Init, StoreFollowsBundles, IdsFollow, Named
<1>2. TypeOK /\ IInv /\ [Next]_vars => IInv'
  <2> SUFFICES ASSUME TypeOK, IInv, [Next]_vars PROVE IInv'
    OBVIOUS
  <2>1. ASSUME NEW b \in Bundle, LoadBundle(b) PROVE IInv'
    <3>1. IdsFollow' /\ Named'
      BY <2>1, BundleParts, BundlesAssumption DEF LoadBundle, TypeOK, IdsFollow, Named
    <3>2. ASSUME NEW i \in Issuer \ touched, NEW n \in Name, Sponsor(i, n)
          PROVE  issuers'[i] = IF current'[n] = None THEN None ELSE current'[n].keys[i]
      <4>1. i \in DOMAIN b.keys <=> b.name = n
        BY <3>2 DEF Sponsor
      <4>2. issuers'[i] = IF b.name = n THEN b.keys[i] ELSE issuers[i]
        BY <2>1, <4>1 DEF LoadBundle
      <4>3. current'[n] = IF b.name = n THEN b ELSE current[n]
        BY <2>1, BundleParts DEF LoadBundle, TypeOK
      <4> QED
        BY <3>2, <4>2, <4>3, BundlesAssumption DEF StoreFollowsBundles
    <3> QED
      BY <2>1, <3>1, <3>2 DEF StoreFollowsBundles, LoadBundle, Sponsor
  <2>2. ASSUME NEW m \in Name, UnloadBundle(m) PROVE IInv'
    <3>1. IdsFollow' /\ Named'
      BY <2>2 DEF UnloadBundle, TypeOK, IdsFollow, Named
    <3>2. ASSUME NEW i \in Issuer \ touched, NEW n \in Name, Sponsor(i, n)
          PROVE  issuers'[i] = IF current'[n] = None THEN None ELSE current'[n].keys[i]
      <4>1. current[m] # None => current[m] \in Bundle /\ current[m].name = m
        BY DEF TypeOK, Named
      <4>2. i \in loadedBundles[m] <=> current[m] # None /\ m = n
        BY <3>2, <4>1 DEF IdsFollow, Sponsor
      <4>3. issuers'[i] = IF current[m] # None /\ m = n THEN None ELSE issuers[i]
        BY <2>2, <4>2 DEF UnloadBundle
      <4>4. current'[n] = IF m = n THEN None ELSE current[n]
        BY <2>2 DEF UnloadBundle, TypeOK
      <4>5. issuers[i] = IF current[n] = None THEN None ELSE current[n].keys[i]
        BY <3>2 DEF StoreFollowsBundles
      <4> QED
        BY <4>3, <4>4, <4>5
    <3> QED
      BY <2>2, <3>1, <3>2 DEF StoreFollowsBundles, UnloadBundle, Sponsor
  <2>3. ASSUME NEW j \in Issuer, NEW k \in Key, AddIssuer(j, k) PROVE IInv'
    BY <2>3 DEF AddIssuer, TypeOK, StoreFollowsBundles, IdsFollow, Named, Sponsor
  <2>4. ASSUME NEW j \in Issuer, RemoveIssuer(j) PROVE IInv'
    BY <2>4 DEF RemoveIssuer, TypeOK, StoreFollowsBundles, IdsFollow, Named, Sponsor
  <2>5. CASE UNCHANGED vars
    BY <2>5 DEF vars, StoreFollowsBundles, IdsFollow, Named, Sponsor
  <2> QED
    BY <2>1, <2>2, <2>3, <2>4, <2>5 DEF Next
<1> QED
  BY <1>1, <1>2, TypeCorrect, PTL DEF Spec

\* The verdicts are monotone for every policy, metadata and content of the store.
THEOREM VerdictsAreMonotone == Spec => []VerdictIsMonotone
<1>1. ASSUME TypeOK PROVE VerdictIsMonotone
  <2>1. SUFFICES ASSUME NEW p \in Policy, NEW i \in Issuer, NEW checked \in BOOLEAN
                 PROVE  /\ \A q \in Policy : Stricter(q, p) =>
                             AtMost(evaluate(q, MetadataOf(i), checked), evaluate(p, MetadataOf(i), checked))
                        /\ AtMost(evaluate(p, NoMetadata, checked), evaluate(p, MetadataOf(i), checked))
                        /\ evaluate(p, MetadataOf(i), checked) = "CONDITIONAL" =>
                             evaluate(p, MetadataOf(i), TRUE) = "PASS"
    BY DEF VerdictIsMonotone
  <2>2. MetadataOf(i) \in MetadataRecord
    BY <1>1, BundlesAssumption DEF TypeOK, MetadataOf, MetadataRecord, NoMetadata
  <2>3. Level(MetadataOf(i)) \in Nat /\ Level(NoMetadata) = 0
    BY <2>2 DEF MetadataRecord, Level, NoMetadata
  <2>4. ASSUME NEW q \in Policy, Stricter(q, p), Meets(q, MetadataOf(i)) PROVE Meets(p, MetadataOf(i))
    BY <2>3, <2>4, BundlesAssumption DEF Stricter, Meets, PolicyRecord
  <2>5. Meets(p, NoMetadata) => Meets(p, MetadataOf(i))
    BY <2>3, BundlesAssumption DEF Meets, PolicyRecord, NoMetadata
  <2>6. p.requireRevocationCheck \in BOOLEAN
    BY BundlesAssumption DEF PolicyRecord
  <2>. QED
    BY <2>4, <2>5, <2>6 DEF evaluate, AtMost, Rank, Stricter
<1> QED
  BY <1>1, TypeCorrect, PTL DEF Spec
=============================================================================
