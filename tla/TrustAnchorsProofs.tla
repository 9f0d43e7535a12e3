------------------------- MODULE TrustAnchorsProofs -------------------------
(***************************************************************************)
(* Theorems about TrustAnchors: where every trusted key comes from, what a *)
(* server trusts whose files were left alone while it loaded them, that it *)
(* finds its own certificates valid when its signer is a key file, and     *)
(* that it never does when it is KMS.                                      *)
(***************************************************************************)
EXTENDS TrustAnchors, SequenceTheorems, TLAPS

\* What a leaf of the type theorem expands.
LEMMA FilesAreAnchors == Files \subseteq Anchor
BY DEF Files

LEMMA HeadAndTail ==
  ASSUME TypeOK, writing # <<>>
  PROVE  /\ Head(writing) \in Entry /\ Tail(writing) \in Seq(Entry)
         /\ FileOf(Head(writing)) \in Anchor
         /\ 1 \in DOMAIN writing /\ Head(writing) = writing[1]
         /\ \A n \in DOMAIN Tail(writing) :
              n + 1 \in DOMAIN writing /\ Tail(writing)[n] = writing[n + 1]
<1>1. /\ Head(writing) \in Entry /\ Tail(writing) \in Seq(Entry)
      /\ Len(writing) \in Nat /\ Len(writing) # 0
      /\ Len(Tail(writing)) = Len(writing) - 1
      /\ \A n \in 1 .. Len(Tail(writing)) : Tail(writing)[n] = writing[n + 1]
      /\ Head(writing) = writing[1]
  BY HeadTailProperties, LenProperties, EmptySeq DEF TypeOK
<1>2. DOMAIN writing = 1 .. Len(writing) /\ DOMAIN Tail(writing) = 1 .. Len(Tail(writing))
  BY <1>1, LenProperties DEF TypeOK
<1>3. FileOf(Head(writing)) \in Anchor
  BY <1>1 DEF Entry, Anchor, FileOf
<1> QED
  BY <1>1, <1>2, <1>3

\* Type correctness.
THEOREM TypeCorrect == Spec => []TypeOK
<1>1. Init => TypeOK
  BY AnchorsAssumption, EmptySeq DEF Init, TypeOK
<1>2. TypeOK /\ [Next]_vars => TypeOK'
  <2> SUFFICES ASSUME TypeOK, [Next]_vars PROVE TypeOK'
    OBVIOUS
  <2>1. ASSUME NEW m \in Manifest, Install(m) PROVE TypeOK'
    BY <2>1, AnchorsAssumption DEF Install, TypeOK, server
  <2>2. CASE Export
    BY <2>2, AnchorsAssumption DEF Export, TypeOK, server, Entry, Format
  <2>3. CASE OpenFile
    BY <2>3, HeadAndTail DEF OpenFile, TypeOK, server, Disturb
  <2>4. CASE WriteFile
    <3>1. writing # <<>>
      BY <2>4 DEF WriteFile, TypeOK
    <3>2. anchor' \in [Anchor -> Key \cup {None, Torn}] /\ latest' \in [Issuer -> Key \cup {None}]
      BY <2>4, <3>1, HeadAndTail DEF WriteFile, TypeOK, Entry
    <3>3. course' \in {"calm", "disturbed", "stopped"}
      BY <2>4 DEF WriteFile, Disturb, TypeOK
    <3> QED
      BY <2>4, <3>1, <3>2, <3>3, HeadAndTail DEF WriteFile, TypeOK, server
  <2>5. CASE ScriptStops
    BY <2>5, EmptySeq DEF ScriptStops, TypeOK, server
  <2>6. ASSUME NEW i \in Issuer, RemoveAnchors(i) PROVE TypeOK'
    BY <2>6 DEF RemoveAnchors, TypeOK, server, Disturb
  <2>7. ASSUME KeygenOpen \/ \E k \in Mint : KeygenWrite(k) PROVE TypeOK'
    BY <2>7 DEF KeygenOpen, KeygenWrite, TypeOK, server, files, Disturb
  <2>8. CASE Start
    BY <2>8, FilesAreAnchors DEF Start, TypeOK, files
  <2>9. ASSUME NEW a \in Anchor, SkipFile(a) \/ LoadFile(a) \/ LoadStops(a) PROVE TypeOK'
    BY <2>9 DEF SkipFile, LoadFile, LoadStops, Parses, TypeOK, files, Anchor
  <2>10. CASE Listen
    BY <2>10 DEF Listen, TypeOK, files
  <2>11. CASE Stop
    BY <2>11 DEF Stop, TypeOK, files
  <2>12. CASE Sign
    BY <2>12, AnchorsAssumption DEF Sign, Configured, TypeOK, files
  <2>13. CASE UNCHANGED vars
    BY <2>13 DEF vars, TypeOK, files, server
  <2> QED
    BY <2>1, <2>2, <2>3, <2>4, <2>5, <2>6, <2>7, <2>8, <2>9, <2>10, <2>11, <2>12, <2>13
    DEF Next, Load
<1> QED
  BY <1>1, <1>2, PTL DEF Spec

-----------------------------------------------------------------------------
(* Where keys come from. *)

\* Every key in a file, on its way to one, or in the store was offered.
Sourced ==
  /\ \A a \in Anchor : anchor[a] \in Key => IsOffered(a[1], anchor[a])
  /\ \A n \in DOMAIN writing : IsOffered(writing[n].issuer, writing[n].key)
  /\ \A i \in Issuer : store[i] \in Key => IsOffered(i, store[i])

LEMMA ManifestIsOffered ==
  ASSUME NEW m \in Manifest, NEW n \in DOMAIN m
  PROVE  IsOffered(m[n].issuer, m[n].key)
BY DEF IsOffered

LEMMA SourcedStep ==
  ASSUME TypeOK, Sourced, [Next]_vars
  PROVE  Sourced'
<1>1. ASSUME NEW m \in Manifest, Install(m) PROVE Sourced'
  BY <1>1, ManifestIsOffered DEF Install, Sourced, server
<1>2. CASE Export
  <2>1. secret \in Mint
    BY <1>2 DEF Export
  <2>2. IsOffered(Self, secret)
    BY <2>1 DEF IsOffered
  <2>3. \A n \in DOMAIN writing' : writing'[n].issuer = Self /\ writing'[n].key = secret
    BY <1>2 DEF Export
  <2> QED
    BY <1>2, <2>2, <2>3 DEF Export, Sourced, server
<1>3. CASE OpenFile
  <2>1. FileOf(Head(writing)) \in Anchor
    BY <1>3, HeadAndTail DEF OpenFile
  <2>2. \A a \in Anchor : anchor'[a] = Torn \/ anchor'[a] = anchor[a]
    BY <1>3, <2>1 DEF OpenFile, TypeOK
  <2> QED
    BY <1>3, <2>2, AnchorsAssumption DEF OpenFile, Sourced, server
<1>4. CASE WriteFile
  <2>1. writing # <<>>
    BY <1>4 DEF WriteFile, TypeOK
  <2>2. IsOffered(Head(writing).issuer, Head(writing).key)
    BY <2>1, HeadAndTail DEF Sourced
  <2>3. \A a \in Anchor : \/ anchor'[a] = anchor[a]
                          \/ (a[1] = Head(writing).issuer /\ anchor'[a] = Head(writing).key)
    BY <1>4, <2>1, HeadAndTail DEF WriteFile, TypeOK, FileOf
  <2>4. \A a \in Anchor : anchor'[a] \in Key => IsOffered(a[1], anchor'[a])
    BY <2>2, <2>3 DEF Sourced
  <2>5. \A n \in DOMAIN writing' : IsOffered(writing'[n].issuer, writing'[n].key)
    BY <1>4, <2>1, HeadAndTail DEF WriteFile, Sourced
  <2> QED
    BY <1>4, <2>4, <2>5 DEF WriteFile, Sourced, server
<1>5. CASE ScriptStops
  BY <1>5 DEF ScriptStops, Sourced, server
<1>6. ASSUME NEW i \in Issuer, RemoveAnchors(i) PROVE Sourced'
  BY <1>6, AnchorsAssumption DEF RemoveAnchors, Sourced, server
<1>7. ASSUME NEW a \in Anchor, SkipFile(a) \/ LoadFile(a) \/ LoadStops(a) PROVE Sourced'
  <2>1. UNCHANGED files
    BY <1>7 DEF SkipFile, LoadFile, LoadStops
  <2>2. \A i \in Issuer : store'[i] = store[i] \/ (i = a[1] /\ store'[i] = anchor[a])
    BY <1>7 DEF SkipFile, LoadFile, LoadStops, TypeOK
  <2> QED
    BY <2>1, <2>2 DEF Sourced, files
<1>8. CASE Stop
  BY <1>8, AnchorsAssumption DEF Stop, Sourced, files
<1>9. ASSUME KeygenOpen \/ \E k \in Mint : KeygenWrite(k) PROVE Sourced'
  BY <1>9 DEF KeygenOpen, KeygenWrite, Sourced, files, server
<1>10. CASE Start \/ Listen \/ Sign \/ UNCHANGED vars
  BY <1>10 DEF Start, Listen, Sign, vars, Sourced, files, server
<1> QED
  BY <1>1, <1>2, <1>3, <1>4, <1>5, <1>6, <1>7, <1>8, <1>9, <1>10 DEF Next, Load

\* Whatever is interrupted or torn, a certificate is found valid only under a key
\* that was offered for its issuer.
THEOREM OnlyOfferedIsTrusted == Spec => []OnlyOffered
<1>1. Init => Sourced
  BY AnchorsAssumption DEF Init, Sourced
<1>2. TypeOK /\ Sourced /\ [Next]_vars => Sourced'
  BY SourcedStep
<1>3. Sourced => OnlyOffered
  <2> SUFFICES ASSUME Sourced, NEW i \in Issuer, NEW k \in Key, MayBeValid(i, k)
               PROVE  IsOffered(i, k)
    BY DEF OnlyOffered
  <2>1. store[i] = k
    BY DEF MayBeValid, Verdict
  <2> QED
    BY <2>1 DEF Sourced
<1> QED
  BY <1>1, <1>2, <1>3, TypeCorrect, PTL DEF Spec

-----------------------------------------------------------------------------
(* What an undisturbed load comes to. *)

\* No file of the other format beside a.
Sole(a) == \A g \in Format \ {a[2]} : anchor[<<a[1], g>>] = None
NoFile(i) == \A f \in Format : anchor[<<i, f>>] = None

\* The only file of an issuer holds, when whole, what was installed last.
Records ==
  /\ \A i \in Issuer : NoFile(i) => latest[i] = None
  /\ \A a \in Anchor : anchor[a] \in Key /\ Sole(a) => latest[a[1]] = anchor[a]

\* The store of a load in progress: what is not pending any more is in it.
Loaded ==
  /\ phase = "down" => \A i \in Issuer : store[i] = None
  /\ phase = "up" => pending = {}
  /\ phase # "down" /\ course = "calm" =>
       /\ Whole
       /\ pending \subseteq Files
       /\ \A i \in Issuer : NoFile(i) => store[i] = None
       /\ \A a \in Files \ pending : a[1] \notin Hidden =>
            /\ Sole(a) => store[a[1]] = anchor[a]
            /\ \E f \in Format : store[a[1]] = anchor[<<a[1], f>>]

\* The signer of an undisturbed server has the key that is configured.
Signer ==
  /\ signing # None => phase = "up"
  /\ course = "calm" /\ signing \in Key => signing = Configured

LEMMA WriteEffect ==
  ASSUME TypeOK, WriteFile
  PROVE  LET e == Head(writing) IN
         /\ FileOf(e) \in Anchor /\ e \in Entry
         /\ \/ anchor' = anchor /\ latest' = latest
            \/ /\ anchor' = [anchor EXCEPT ![FileOf(e)] = e.key]
               /\ latest' = [latest EXCEPT ![e.issuer] = e.key]
<1>1. writing # <<>>
  BY DEF WriteFile, TypeOK
<1> QED
  BY <1>1, HeadAndTail DEF WriteFile

LEMMA RecordsStep ==
  ASSUME TypeOK, Records, [Next]_vars
  PROVE  Records'
<1>1. CASE UNCHANGED <<anchor, latest>>
  BY <1>1 DEF Records, Sole, NoFile
<1>2. CASE OpenFile
  <2>1. FileOf(Head(writing)) \in Anchor
    BY <1>2, HeadAndTail DEF OpenFile
  <2>2. \A a \in Anchor : /\ anchor'[a] = Torn \/ anchor'[a] = anchor[a]
                          /\ anchor'[a] = None => anchor[a] = None
    BY <1>2, <2>1, AnchorsAssumption DEF OpenFile, TypeOK
  <2>3. \A i \in Issuer, f \in Format : <<i, f>> \in Anchor
    BY DEF Anchor
  <2> QED
    BY <1>2, <2>2, <2>3, AnchorsAssumption DEF OpenFile, Records, Sole, NoFile, Anchor
<1>3. CASE WriteFile
  <2> DEFINE e == Head(writing)
  <2>1. CASE anchor' = anchor /\ latest' = latest
    BY <1>1, <2>1
  <2>2. CASE /\ anchor' = [anchor EXCEPT ![FileOf(e)] = e.key]
             /\ latest' = [latest EXCEPT ![e.issuer] = e.key]
    <3>1. /\ e.issuer \in Issuer /\ e.format \in Format /\ e.key \in Key
          /\ FileOf(e) \in Anchor /\ FileOf(e) = <<e.issuer, e.format>>
      BY <1>3, WriteEffect DEF Entry, FileOf
    <3>2. anchor'[FileOf(e)] # None /\ latest'[e.issuer] = e.key
      BY <2>2, <3>1, AnchorsAssumption DEF TypeOK
    <3>3. \A i \in Issuer : i # e.issuer => /\ latest'[i] = latest[i]
                                            /\ \A f \in Format : anchor'[<<i, f>>] = anchor[<<i, f>>]
      BY <2>2, <3>1 DEF TypeOK, Anchor
    <3>4. ASSUME NEW i \in Issuer, NoFile(i)' PROVE latest'[i] = None
      BY <3>1, <3>2, <3>3, <3>4 DEF Records, NoFile
    <3>5. ASSUME NEW a \in Anchor, anchor'[a] \in Key, Sole(a)' PROVE latest'[a[1]] = anchor'[a]
      <4>1. PICK i \in Issuer, f \in Format : a = <<i, f>>
        BY DEF Anchor
      <4>2. CASE i # e.issuer
        BY <3>3, <3>5, <4>1, <4>2 DEF Records, Sole
      <4>3. CASE i = e.issuer
        <5>1. f = e.format
          BY <3>1, <3>2, <3>5, <4>1, <4>3 DEF Sole
        <5> QED
          BY <2>2, <3>1, <3>2, <4>1, <4>3, <5>1 DEF TypeOK
      <4> QED
        BY <4>2, <4>3
    <3> QED
      BY <3>4, <3>5 DEF Records
  <2> QED
    BY <1>3, <2>1, <2>2, WriteEffect
<1>4. ASSUME NEW i \in Issuer, RemoveAnchors(i) PROVE Records'
  <2>1. \A a \in Anchor : anchor'[a] = IF a[1] = i THEN None ELSE anchor[a]
    BY <1>4 DEF RemoveAnchors
  <2>2. \A j \in Issuer : latest'[j] = IF j = i THEN None ELSE latest[j]
    BY <1>4 DEF RemoveAnchors, TypeOK
  <2>3. \A j \in Issuer, f \in Format : <<j, f>> \in Anchor
    BY DEF Anchor
  <2> QED
    BY <2>1, <2>2, <2>3, AnchorsAssumption DEF Records, Sole, NoFile, Anchor
<1> QED
  BY <1>1, <1>2, <1>3, <1>4
  DEF Next, Load, Install, Export, ScriptStops, KeygenOpen, KeygenWrite, Start, SkipFile, LoadFile, LoadStops,
      Listen, Stop, Sign, vars, files

\* Writing, deleting and generating keys end the calm of a server that is not down.
LEMMA Disturbs ==
  ASSUME TypeOK, Loaded, Signer, Disturb, UNCHANGED server
  PROVE  Loaded' /\ Signer'
<1>1. phase = "down" \/ course' # "calm"
  BY DEF Disturb, TypeOK
<1>2. Loaded'
  BY <1>1 DEF Loaded, server
<1>3. phase = "down" => signing = None
  BY DEF Signer
<1> QED
  BY <1>1, <1>2, <1>3, AnchorsAssumption DEF Signer, server

LEMMA LoadedStep ==
  ASSUME TypeOK, Loaded, Signer, [Next]_vars
  PROVE  Loaded' /\ Signer'
<1>1. CASE \/ OpenFile \/ WriteFile \/ \E i \in Issuer : RemoveAnchors(i)
           \/ KeygenOpen \/ \E k \in Mint : KeygenWrite(k)
  BY <1>1, Disturbs DEF OpenFile, WriteFile, RemoveAnchors, KeygenOpen, KeygenWrite
<1>2. CASE UNCHANGED <<anchor, server, secret, course>>
  BY <1>2 DEF Loaded, Signer, Whole, Files, NoFile, Sole, Configured, server
<1>3. CASE Start
  <2>1. signing' = None /\ Signer'
    BY <1>3, AnchorsAssumption DEF Start, Signer, Configured
  <2>2. Loaded'
    <3>1. CASE course' = "calm"
      BY <1>3, <3>1 DEF Start, Loaded, Whole, Files, NoFile, files
    <3>2. CASE course' # "calm"
      BY <1>3, <3>2 DEF Start, Loaded
    <3> QED
      BY <3>1, <3>2
  <2> QED
    BY <2>1, <2>2
<1>4. ASSUME NEW b \in Anchor, SkipFile(b) PROVE Loaded' /\ Signer'
  <2>1. Signer'
    BY <1>4 DEF SkipFile, Signer, Configured
  <2>2. \A a \in Files' \ pending' : a = b \/ a \in Files \ pending
    BY <1>4 DEF SkipFile, Files, files
  <2>3. Loaded'
    BY <1>4, <2>2 DEF SkipFile, Loaded, Whole, Files, NoFile, Sole, files
  <2> QED
    BY <2>1, <2>3
<1>5. ASSUME NEW b \in Anchor, LoadFile(b) PROVE Loaded' /\ Signer'
  <2>1. Signer'
    BY <1>5 DEF LoadFile, Signer, Configured
  <2>2. PICK i \in Issuer, f \in Format : b = <<i, f>>
    BY DEF Anchor
  <2>3. anchor[<<i, f>>] # None /\ ~NoFile(i)
    BY <1>5, <2>2 DEF LoadFile, Parses, NoFile
  <2>4. store'[i] = anchor[b] /\ \A j \in Issuer : j # i => store'[j] = store[j]
    BY <1>5, <2>2 DEF LoadFile, TypeOK
  <2>5. ASSUME NEW a \in Files' \ pending', a[1] \notin Hidden, Sole(a)',
               phase # "down", course = "calm"
        PROVE  store'[a[1]] = anchor'[a]
    <3>1. anchor' = anchor /\ pending' = pending \ {b} /\ a \in Files /\ Sole(a)
      BY <1>5, <2>5 DEF LoadFile, Files, files, Sole
    <3>2. PICK j \in Issuer, g \in Format : a = <<j, g>>
      BY <3>1 DEF Files, Anchor
    <3>3. CASE j = i
      <4>1. g = f
        BY <2>3, <3>1, <3>2, <3>3 DEF Sole
      <4> QED
        BY <2>2, <2>4, <3>1, <3>2, <3>3, <4>1
    <3>4. CASE j # i
      <4>1. a \in Files \ pending
        BY <2>2, <2>5, <3>1, <3>2, <3>4
      <4> QED
        BY <2>4, <2>5, <3>1, <3>2, <3>4, <4>1 DEF Loaded
    <3> QED
      BY <3>3, <3>4
  <2>6. ASSUME NEW a \in Files' \ pending', a[1] \notin Hidden,
               phase # "down", course = "calm"
        PROVE  \E g \in Format : store'[a[1]] = anchor'[<<a[1], g>>]
    <3>1. anchor' = anchor /\ pending' = pending \ {b} /\ a \in Files
      BY <1>5, <2>6 DEF LoadFile, Files, files
    <3>2. PICK j \in Issuer, g \in Format : a = <<j, g>>
      BY <3>1 DEF Files, Anchor
    <3>3. CASE j = i
      BY <2>2, <2>4, <3>1, <3>2, <3>3
    <3>4. CASE j # i
      <4>1. a \in Files \ pending
        BY <2>2, <2>6, <3>1, <3>2, <3>4
      <4> QED
        BY <2>4, <2>6, <3>1, <3>2, <3>4, <4>1 DEF Loaded
    <3> QED
      BY <3>3, <3>4
  <2>7. Loaded'
    BY <1>5, <2>3, <2>4, <2>5, <2>6 DEF LoadFile, Loaded, Whole, Files, NoFile, files
  <2> QED
    BY <2>1, <2>7
<1>6. ASSUME NEW b \in Anchor, LoadStops(b) PROVE Loaded' /\ Signer'
  BY <1>6 DEF LoadStops, Loaded, Signer
<1>7. CASE Listen
  BY <1>7 DEF Listen, Loaded, Signer, Whole, Files, NoFile, Sole, Configured, files
<1>8. CASE Stop
  BY <1>8, AnchorsAssumption DEF Stop, Loaded, Signer
<1>9. CASE Sign
  <2>1. Signer'
    BY <1>9, AnchorsAssumption DEF Sign, Signer, Configured
  <2>2. Loaded'
    BY <1>9 DEF Sign, Loaded, Whole, Files, NoFile, Sole, files
  <2> QED
    BY <2>1, <2>2
<1> QED
  BY <1>1, <1>2, <1>3, <1>4, <1>5, <1>6, <1>7, <1>8, <1>9
  DEF Next, Load, Install, Export, ScriptStops, vars, files

IInv == TypeOK /\ Records /\ Loaded /\ Signer

LEMMA Inductive == Spec => []IInv
<1>1. Init => Records /\ Loaded /\ Signer
  BY AnchorsAssumption DEF Init, Records, Loaded, Signer, NoFile
<1>2. TypeOK /\ Records /\ Loaded /\ Signer /\ [Next]_vars => (Records /\ Loaded /\ Signer)'
  BY RecordsStep, LoadedStep
<1> QED
  BY <1>1, <1>2, TypeCorrect, PTL DEF Spec, IInv

LEMMA NewestFollows ==
  ASSUME IInv, phase = "up", course = "calm", NEW i \in Issuer \ Hidden, OneFile(i)
  PROVE  store[i] = latest[i]
<1>1. PICK f \in Format : \A g \in Format \ {f} : anchor[<<i, g>>] = None
  BY DEF OneFile
<1>2. CASE anchor[<<i, f>>] = None
  BY <1>1, <1>2 DEF IInv, Records, Loaded, NoFile
<1>3. CASE anchor[<<i, f>>] # None
  <2> DEFINE a == <<i, f>>
  <2>1. a \in Anchor /\ a \in Files \ pending /\ Sole(a)
    BY <1>1, <1>3 DEF Anchor, Files, IInv, Loaded, Sole
  <2>2. anchor[a] \in Key
    BY <1>3, <2>1 DEF IInv, TypeOK, Loaded, Whole
  <2> QED
    BY <2>1, <2>2 DEF IInv, Records, Loaded
<1> QED
  BY <1>2, <1>3

LEMMA OneOfTwoFollows ==
  ASSUME IInv, phase = "up", course = "calm", NEW i \in Issuer \ Hidden, ~OneFile(i)
  PROVE  \E f \in Format : store[i] = anchor[<<i, f>>]
<1>1. PICK f \in Format : anchor[<<i, f>>] # None
  BY DEF OneFile, Format
<1>2. <<i, f>> \in Files \ pending
  BY <1>1 DEF Anchor, Files, IInv, Loaded
<1> QED
  BY <1>2 DEF IInv, Loaded

\* A server that loaded its files undisturbed trusts each issuer under the key
\* installed last, and an issuer with files of both formats under one of the two.
THEOREM NewestTrusted == Spec => []NewestIsTrusted
<1>1. IInv => NewestIsTrusted
  BY NewestFollows, OneOfTwoFollows DEF NewestIsTrusted
<1> QED
  BY <1>1, Inductive, PTL

\* With a key file instead of KMS, a server whose signing key was installed before
\* it started finds the certificates that it signs valid.
THEOREM OwnCertificates ==
  ASSUME Kms = None
  PROVE  Spec => []OwnCertificatesVerify
<1>1. IInv => OwnCertificatesVerify
  <2> SUFFICES ASSUME IInv, phase = "up", course = "calm", signing \in Key, OneFile(Self),
                      latest[Self] = Configured
               PROVE  Verdict(Self, signing, TRUE, None, FALSE) = "valid"
    BY DEF OwnCertificatesVerify
  <2>1. signing = secret /\ signing \notin RSA
    BY AnchorsAssumption DEF IInv, Signer, Configured, TypeOK
  <2>2. store[Self] = signing
    BY <2>1, NewestFollows, AnchorsAssumption DEF Configured
  <2> QED
    BY <2>1, <2>2, AnchorsAssumption DEF Verdict
<1> QED
  BY <1>1, Inductive, PTL

\* With KMS it is the other way round: no request finds valid what this server
\* signs, for any issuer, whatever key was installed for it.
THEOREM KmsIsRefused ==
  ASSUME Kms # None
  PROVE  Spec => [](signing \in Key => \A i \in Issuer : ~MayBeValid(i, signing))
<1> DEFINE SignsWithKms == signing \in {None, Torn, Kms}
<1>1. Init => SignsWithKms
  BY DEF Init
<1>2. SignsWithKms /\ [Next]_vars => SignsWithKms'
  BY DEF Next, Load, Install, Export, OpenFile, WriteFile, ScriptStops, RemoveAnchors, KeygenOpen,
         KeygenWrite, Start, SkipFile, LoadFile, LoadStops, Listen, Stop, Sign, Configured,
         vars, files, server
<1>3. SignsWithKms => (signing \in Key => \A i \in Issuer : ~MayBeValid(i, signing))
  BY AnchorsAssumption DEF MayBeValid, Verdict
<1> QED
  BY <1>1, <1>2, <1>3, PTL DEF Spec
=============================================================================
