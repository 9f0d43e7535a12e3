-------------------------- MODULE DecisionsProofs --------------------------
(***************************************************************************)
(* Proofs about Decisions for any scopes, operations, manifests, skew and  *)
(* life of tokens.                                                         *)
(*                                                                         *)
(* evaluateScope allows what the first entry of the name allows and no     *)
(* restriction names (AllowedMeans).  Every property about manifests       *)
(* follows from it; those about tokens need what the SDKs sign (Signed).   *)
(***************************************************************************)
EXTENDS Decisions, WellFoundedInduction, TLAPS

LEMMA Least ==
  ASSUME NEW T, T \subseteq Nat, T # {}
  PROVE  \E x \in T : \A y \in T : x <= y
<1>1. \E x \in T : \A y \in T : ~ (<<y, x>> \in OpToRel(<, Nat))
  BY NatLessThanWellFounded, WFMin, Zenon
<1>2. \A x, y \in Nat : y < x => <<y, x>> \in OpToRel(<, Nat)
  BY Zenon DEF OpToRel
<1>3. \E x \in T : \A y \in T : ~ (y < x)
  BY <1>1, <1>2, Zenon
<1>. QED
  BY <1>3

\* scopes.find returns an entry if there is one of the name.
LEMMA FoundIfThere ==
  ASSUME NEW m \in ManifestRecord, NEW scope, NEW k \in DOMAIN m.scopes, m.scopes[k].name = scope
  PROVE  \E i \in DOMAIN m.scopes : Found(m, scope, i)
<1>. DEFINE T == {i \in DOMAIN m.scopes : m.scopes[i].name = scope}
<1>1. DOMAIN m.scopes = 1 .. Len(m.scopes) /\ Len(m.scopes) \in Nat
  BY DEF ManifestRecord
<1>2. T \subseteq Nat /\ T # {}
  BY <1>1
<1>. HIDE DEF T
<1>3. PICK i \in T : \A j \in T : i <= j
  BY <1>2, Least
<1>4. i \in DOMAIN m.scopes /\ m.scopes[i].name = scope
  BY DEF T
<1>5. ASSUME NEW j \in 1 .. i - 1, m.scopes[j].name = scope PROVE FALSE
  <2>1. j \in T
    BY <1>1, <1>4, <1>5 DEF T
  <2>. QED
    BY <2>1, <1>1, <1>3, <1>4
<1>. QED
  BY <1>4, <1>5 DEF Found

\* It returns one entry.
LEMMA FoundOnce ==
  ASSUME NEW m \in ManifestRecord, NEW scope,
         NEW i \in DOMAIN m.scopes, Found(m, scope, i),
         NEW j \in DOMAIN m.scopes, Found(m, scope, j)
  PROVE  i = j
<1>1. i \in Nat /\ j \in Nat /\ i >= 1 /\ j >= 1
  BY DEF ManifestRecord
<1>. QED
  BY <1>1 DEF Found

\* What evaluateScope allows, without its order.
LEMMA AllowedMeans ==
  ASSUME NEW m \in ManifestRecord, NEW scope, NEW amount, NEW operation
  PROVE  evaluateScope(m, scope, amount, operation) = "allowed" <=>
           /\ ~Restricted(m, scope) /\ ~Restricted(m, operation)
           /\ \E i \in DOMAIN m.scopes :
                /\ Found(m, scope, i)
                /\ ~Over(m.scopes[i], amount) /\ ~Outside(m.scopes[i], operation)
<1>1. ASSUME evaluateScope(m, scope, amount, operation) = "allowed"
      PROVE  /\ ~Restricted(m, scope) /\ ~Restricted(m, operation)
             /\ \E i \in DOMAIN m.scopes :
                  /\ Found(m, scope, i)
                  /\ ~Over(m.scopes[i], amount) /\ ~Outside(m.scopes[i], operation)
  <2>1. /\ ~Restricted(m, scope) /\ ~Restricted(m, operation)
        /\ \E k \in DOMAIN m.scopes : m.scopes[k].name = scope
        /\ \A i \in DOMAIN m.scopes :
             Found(m, scope, i) => ~Over(m.scopes[i], amount) /\ ~Outside(m.scopes[i], operation)
    BY <1>1 DEF evaluateScope
  <2>2. PICK i \in DOMAIN m.scopes : Found(m, scope, i)
    BY <2>1, FoundIfThere
  <2>. QED
    BY <2>1, <2>2
<1>2. ASSUME ~Restricted(m, scope), ~Restricted(m, operation),
             NEW i \in DOMAIN m.scopes, Found(m, scope, i),
             ~Over(m.scopes[i], amount), ~Outside(m.scopes[i], operation)
      PROVE  evaluateScope(m, scope, amount, operation) = "allowed"
  <2>1. \A j \in DOMAIN m.scopes : Found(m, scope, j) => j = i
    BY <1>2, FoundOnce
  <2>2. m.scopes[i].name = scope
    BY <1>2 DEF Found
  <2>. QED
    BY <1>2, <2>1, <2>2 DEF evaluateScope
<1>. QED
  BY <1>1, <1>2

-----------------------------------------------------------------------------
LEMMA InitTypeOK == Init => TypeOK
BY DEF Init, TypeOK

LEMMA PythonIsToken == \A t \in TokenRecord : InPython(t) \in TokenRecord
BY DEF InPython, TokenRecord

LEMMA RequestsAreTokens ==
  ASSUME NEW a \in Agent, NEW scope \in Scope \cup {Absent}, NEW n \in Nonce, NEW clock \in 0 .. Horizon
  PROVE  /\ RequestClaims(a, scope, n, clock) \in TokenRecord
         /\ InPython(RequestClaims(a, scope, n, clock)) \in TokenRecord
<1>1. clock \in Nat /\ clock + RequestExpiry \in Nat
  BY DecisionsAssumption
<1>2. scope \in Scope \cup {Empty, Absent} /\ "1" \in Version
  BY DEF Version
<1>3. RequestClaims(a, scope, n, clock) \in TokenRecord
  BY <1>1, <1>2 DEF RequestClaims, TokenRecord
<1>. QED
  BY <1>3, PythonIsToken

LEMMA HandshakesAreTokens ==
  ASSUME NEW a \in Agent, NEW scopes \in ScopeList, NEW n \in Nonce, NEW clock \in 0 .. Horizon
  PROVE  /\ HandshakeClaims(a, scopes, n, clock) \in TokenRecord
         /\ InPython(HandshakeClaims(a, scopes, n, clock)) \in TokenRecord
<1>1. clock \in Nat /\ clock + HandshakeExpiry \in Nat /\ scopes \in Seq(Scope)
  BY DecisionsAssumption
<1>2. RequestClaims(a, Absent, n, clock) \in TokenRecord
  BY RequestsAreTokens
<1>3. HandshakeClaims(a, scopes, n, clock) \in TokenRecord
  BY <1>1, <1>2 DEF HandshakeClaims, TokenRecord
<1>. QED
  BY <1>3, PythonIsToken

LEMMA NextTypeOK == TypeOK /\ [Next]_vars => TypeOK'
<1>. SUFFICES ASSUME TypeOK, [Next]_vars PROVE TypeOK'
  OBVIOUS
<1>1. ASSUME NEW a \in Agent, NEW n \in Nonce, NEW clock \in 0 .. Horizon, NEW s \in Scope,
             signAgentRequest(a, s, n, clock)
      PROVE  TypeOK'
  BY <1>1, RequestsAreTokens DEF TypeOK, signAgentRequest
<1>2. ASSUME NEW a \in Agent, NEW n \in Nonce, NEW clock \in 0 .. Horizon, NEW ss \in ScopeList,
             buildHandshakeRequest(a, ss, n, clock)
      PROVE  TypeOK'
  BY <1>2, HandshakesAreTokens DEF TypeOK, buildHandshakeRequest
<1>3. CASE SignOtherwise
  BY <1>3, DecisionsAssumption DEF TypeOK, SignOtherwise
<1>4. ASSUME NEW a \in Agent, NEW m \in Manifest, PutCapabilities(a, m) PROVE TypeOK'
  BY <1>4 DEF TypeOK, PutCapabilities
<1>5. CASE Tick
  BY <1>5 DEF TypeOK, Tick
<1>6. CASE UNCHANGED vars
  BY <1>6 DEF TypeOK, vars
<1>. QED
  BY <1>1, <1>2, <1>3, <1>4, <1>5, <1>6 DEF Next

\* Every variable keeps to its type: the SDKs sign tokens, with all their claims.
THEOREM TypeCorrect == Spec => []TypeOK
BY InitTypeOK, NextTypeOK, PTL DEF Spec

-----------------------------------------------------------------------------
LEMMA ManifestIsRecord ==
  ASSUME TypeOK, NEW a \in Agent, manifest[a] # Absent
  PROVE  manifest[a] \in ManifestRecord
BY DecisionsAssumption DEF TypeOK

LEMMA VerifiedSaysWhy ==
  ASSUME NEW body \in Body, Verify(body, token) = "verified"
  PROVE  /\ InWindow(body.timestamp) /\ Authentic(token, body.agent_id)
         /\ checkProtocolVersion(token)
         /\ PayloadMatches(body, token) /\ manifest[body.agent_id] # Absent
         /\ evaluateScope(manifest[body.agent_id], body.scope, body.amount_cents, body.operation) = "allowed"
<1>1. \A m, scope, amount, operation : evaluateScope(m, scope, amount, operation) # "verified"
  BY DEF evaluateScope
<1>. QED
  BY <1>1 DEF Verify

LEMMA AllowedIsGranted ==
  ASSUME NEW m \in ManifestRecord, NEW scope, NEW amount, NEW operation,
         evaluateScope(m, scope, amount, operation) = "allowed",
         amount \in Nat \cup {Absent}
  PROVE  Granted(m, scope, amount, operation)
<1>1. PICK i \in DOMAIN m.scopes :
        /\ Found(m, scope, i)
        /\ ~Over(m.scopes[i], amount) /\ ~Outside(m.scopes[i], operation)
  BY AllowedMeans
<1>2. scope \notin m.restricted /\ operation \notin m.restricted
  BY AllowedMeans DEF Restricted
<1>3. m.scopes[i] \in EntryRecord
  BY DEF ManifestRecord
<1>4. amount # Absent /\ m.scopes[i].max_amount_cents # Absent => amount <= m.scopes[i].max_amount_cents
  <2>1. m.scopes[i].max_amount_cents \in Nat \cup {Absent}
    BY <1>3 DEF EntryRecord
  <2>. QED
    BY <1>1, <2>1 DEF Over
<1>5. operation # Absent /\ m.scopes[i].operations # {} => operation \in m.scopes[i].operations
  BY <1>1 DEF Outside
<1>6. m.scopes[i].name = scope
  BY <1>1 DEF Found
<1>. QED
  BY <1>2, <1>4, <1>5, <1>6 DEF Granted

LEMMA TypeGivesVerified == TypeOK => VerifiedMeansGranted
<1>. SUFFICES ASSUME TypeOK, token # Absent, NEW body \in Body, Verify(body, token) = "verified"
              PROVE  /\ token.key = body.agent_id /\ token.agent_id = body.agent_id
                     /\ token.scope = body.scope /\ token.nonce = body.nonce /\ InWindow(token.ts)
                     /\ manifest[body.agent_id] # Absent
                     /\ Granted(manifest[body.agent_id], body.scope, body.amount_cents, body.operation)
  BY DEF VerifiedMeansGranted
<1>1. body.agent_id \in Agent /\ body.amount_cents \in Nat \cup {Absent}
  BY DecisionsAssumption DEF Body
<1>2. manifest[body.agent_id] \in ManifestRecord
  BY <1>1, VerifiedSaysWhy, ManifestIsRecord
<1>3. Granted(manifest[body.agent_id], body.scope, body.amount_cents, body.operation)
  BY <1>1, <1>2, VerifiedSaysWhy, AllowedIsGranted
<1>. QED
  BY <1>3, VerifiedSaysWhy DEF PayloadMatches, Authentic

\* POST /verify says "verified" only of what the agent signed, within the window,
\* and its manifest grants, whatever entries, restrictions and repeated names it has.
THEOREM OnlyGrantedIsVerified == Spec => []VerifiedMeansGranted
BY TypeCorrect, TypeGivesVerified, PTL

LEMMA TypeGivesLess == TypeOK => LessIsAllowed
<1>. SUFFICES ASSUME TypeOK, NEW a \in Agent, NEW scope \in Scope \cup {Empty},
                     NEW operation \in Operation \cup {Absent}, manifest[a] # Absent,
                     NEW amount \in Amount \cup {Absent},
                     evaluateScope(manifest[a], scope, amount, operation) = "allowed"
              PROVE  /\ evaluateScope(manifest[a], scope, amount, Absent) = "allowed"
                     /\ \A less \in Amount \cup {Absent} :
                          less = Absent \/ (amount # Absent /\ less <= amount) =>
                            evaluateScope(manifest[a], scope, less, operation) = "allowed"
  BY DEF LessIsAllowed
<1>. DEFINE m == manifest[a]
<1>1. m \in ManifestRecord
  BY ManifestIsRecord
<1>. HIDE DEF m
<1>2. evaluateScope(m, scope, amount, operation) = "allowed"
  BY DEF m
<1>3. PICK i \in DOMAIN m.scopes :
        /\ Found(m, scope, i)
        /\ ~Over(m.scopes[i], amount) /\ ~Outside(m.scopes[i], operation)
  BY <1>1, <1>2, AllowedMeans
<1>4. ~Restricted(m, scope) /\ ~Restricted(m, operation)
  BY <1>1, <1>2, AllowedMeans
<1>5. evaluateScope(m, scope, amount, Absent) = "allowed"
  <2>1. ~Restricted(m, Absent)
    BY <1>1, DecisionsAssumption DEF Restricted, ManifestRecord
  <2>2. ~Outside(m.scopes[i], Absent)
    BY DEF Outside
  <2>. QED
    BY <1>1, <1>3, <1>4, <2>1, <2>2, AllowedMeans
<1>6. ASSUME NEW less \in Amount \cup {Absent}, less = Absent \/ (amount # Absent /\ less <= amount)
      PROVE  evaluateScope(m, scope, less, operation) = "allowed"
  <2>1. m.scopes[i].max_amount_cents \in Nat \cup {Absent}
    <3>1. m.scopes[i] \in EntryRecord
      BY <1>1 DEF ManifestRecord
    <3>. QED
      BY <3>1 DEF EntryRecord
  <2>2. ~Over(m.scopes[i], less)
    BY <1>3, <1>6, <2>1, DecisionsAssumption DEF Over
  <2>. QED
    BY <1>1, <1>3, <1>4, <2>2, AllowedMeans
<1>. QED
  BY <1>5, <1>6 DEF m

\* Whoever is allowed an amount or an operation is allowed less, under every manifest.
THEOREM LessAllowed == Spec => []LessIsAllowed
BY TypeCorrect, TypeGivesLess, PTL

LEMMA TypeGivesAgreement == TypeOK => LibraryAgrees
BY DEF LibraryAgrees, validateHandshakePayload, PayloadMatches

\* The protocol package's check of a payload decides as the server's does.
THEOREM LibraryDecidesAlike == Spec => []LibraryAgrees
BY TypeCorrect, TypeGivesAgreement, PTL

LEMMA ExtendedAllows ==
  ASSUME NEW m \in ManifestRecord, NEW n \in ManifestRecord, Extends(m, n),
         NEW scope, NEW amount, NEW operation,
         evaluateScope(m, scope, amount, operation) = "allowed"
  PROVE  evaluateScope(n, scope, amount, operation) = "allowed"
<1>1. PICK i \in DOMAIN m.scopes :
        /\ Found(m, scope, i)
        /\ ~Over(m.scopes[i], amount) /\ ~Outside(m.scopes[i], operation)
  BY AllowedMeans
<1>2. ~Restricted(n, scope) /\ ~Restricted(n, operation)
  BY AllowedMeans DEF Restricted, Extends
<1>3. /\ DOMAIN m.scopes = 1 .. Len(m.scopes) /\ Len(m.scopes) \in Nat
      /\ DOMAIN n.scopes = 1 .. Len(n.scopes) /\ Len(n.scopes) \in Nat
  BY DEF ManifestRecord
<1>4. i \in DOMAIN n.scopes /\ n.scopes[i] = m.scopes[i]
  BY <1>3 DEF Extends
<1>5. \A j \in 1 .. i - 1 : j \in 1 .. Len(m.scopes) /\ n.scopes[j] = m.scopes[j]
  BY <1>3 DEF Extends
<1>6. Found(n, scope, i)
  BY <1>1, <1>4, <1>5 DEF Found
<1>. QED
  BY <1>1, <1>2, <1>4, <1>6, AllowedMeans

LEMMA TypeGivesExtending ==
  ASSUME TypeOK, TypeOK', NEW a \in Agent, manifest[a] # Absent, manifest'[a] # Absent,
         Extends(manifest[a], manifest'[a])
  PROVE  \A scope \in Scope, amount \in Amount \cup {Absent}, operation \in Operation \cup {Absent} :
           evaluateScope(manifest[a], scope, amount, operation) = "allowed" =>
             evaluateScope(manifest'[a], scope, amount, operation) = "allowed"
<1>1. manifest[a] \in ManifestRecord /\ manifest'[a] \in ManifestRecord
  BY DecisionsAssumption DEF TypeOK
<1>. QED
  BY <1>1, ExtendedAllows

\* Entries added at the end of a manifest take no grant away, repeated names or not.
THEOREM ExtendingKeeps == Spec => ExtendingKeepsGrants
<1>1. TypeOK /\ TypeOK' /\ [Next]_vars =>
        [\A a \in Agent :
           /\ manifest'[a] # manifest[a] /\ manifest[a] # Absent /\ manifest'[a] # Absent
           /\ Extends(manifest[a], manifest'[a])
           =>
             \A scope \in Scope, amount \in Amount \cup {Absent}, operation \in Operation \cup {Absent} :
               evaluateScope(manifest[a], scope, amount, operation) = "allowed" =>
                 evaluateScope(manifest'[a], scope, amount, operation) = "allowed"]_vars
  BY TypeGivesExtending
<1>. QED
  BY <1>1, TypeCorrect, PTL DEF Spec, ExtendingKeepsGrants

-----------------------------------------------------------------------------
\* What is known of a token that an SDK signed: whose it is, that it is of one
\* kind, its version and, of the SDK for TypeScript, how long it lives.
Signed(t) ==
  t.sdk # "none" =>
    /\ t.key = t.agent_id
    /\ \/ t.scope \in Scope /\ t.requested_scopes = Absent
       \/ t.scope = Absent /\ t.requested_scopes \in ScopeList
    /\ t.sdk = "typescript" =>
         /\ t.protocol_version = "1"
         /\ t.exp \in {t.ts + RequestExpiry, t.ts + HandshakeExpiry}
    /\ t.sdk = "python" => t.protocol_version = Absent

IInv == TypeOK /\ (token # Absent => Signed(token))

LEMMA RequestsAreSigned ==
  ASSUME NEW a \in Agent, NEW scope \in Scope, NEW n \in Nonce, NEW clock \in 0 .. Horizon
  PROVE  /\ Signed(RequestClaims(a, scope, n, clock))
         /\ Signed(InPython(RequestClaims(a, scope, n, clock)))
BY DEF Signed, RequestClaims, InPython

LEMMA HandshakesAreSigned ==
  ASSUME NEW a \in Agent, NEW scopes \in ScopeList, NEW n \in Nonce, NEW clock \in 0 .. Horizon
  PROVE  /\ Signed(HandshakeClaims(a, scopes, n, clock))
         /\ Signed(InPython(HandshakeClaims(a, scopes, n, clock)))
BY DEF Signed, RequestClaims, HandshakeClaims, InPython

LEMMA InitIInv == Init => IInv
BY InitTypeOK DEF Init, IInv

LEMMA NextIInv == IInv /\ [Next]_vars => IInv'
<1>. SUFFICES ASSUME IInv, [Next]_vars PROVE token' # Absent => Signed(token')
  BY NextTypeOK DEF IInv, Signed
<1>1. ASSUME NEW a \in Agent, NEW n \in Nonce, NEW clock \in 0 .. Horizon, NEW s \in Scope,
             signAgentRequest(a, s, n, clock)
      PROVE  Signed(token')
  BY <1>1, RequestsAreSigned DEF signAgentRequest
<1>2. ASSUME NEW a \in Agent, NEW n \in Nonce, NEW clock \in 0 .. Horizon, NEW ss \in ScopeList,
             buildHandshakeRequest(a, ss, n, clock)
      PROVE  Signed(token')
  BY <1>2, HandshakesAreSigned DEF buildHandshakeRequest
<1>3. SignOtherwise => Signed(token')
  BY DecisionsAssumption DEF SignOtherwise, Signed
<1>4. UNCHANGED token => (token' # Absent => Signed(token'))
  BY DEF IInv
<1>. QED
  BY <1>1, <1>2, <1>3, <1>4 DEF Next, PutCapabilities, Tick, vars

LEMMA Inductive == Spec => []IInv
BY InitIInv, NextIInv, PTL DEF Spec

LEMMA GrantedIsAllowed ==
  ASSUME NEW m \in ManifestRecord, OneEntryEach(m), NEW scope, NEW amount, NEW operation,
         Granted(m, scope, amount, operation), amount \in Nat \cup {Absent}
  PROVE  evaluateScope(m, scope, amount, operation) = "allowed"
<1>1. PICK i \in DOMAIN m.scopes :
        /\ m.scopes[i].name = scope
        /\ amount # Absent /\ m.scopes[i].max_amount_cents # Absent =>
             amount <= m.scopes[i].max_amount_cents
        /\ operation # Absent /\ m.scopes[i].operations # {} =>
             operation \in m.scopes[i].operations
  BY DEF Granted
<1>2. Found(m, scope, i)
  <2>1. DOMAIN m.scopes = 1 .. Len(m.scopes) /\ Len(m.scopes) \in Nat
    BY DEF ManifestRecord
  <2>2. ASSUME NEW j \in 1 .. i - 1 PROVE m.scopes[j].name # scope
    <3>1. j \in DOMAIN m.scopes /\ j # i
      BY <2>1
    <3>. QED
      BY <1>1, <3>1 DEF OneEntryEach
  <2>. QED
    BY <1>1, <2>2 DEF Found
<1>3. ~Over(m.scopes[i], amount) /\ ~Outside(m.scopes[i], operation)
  <2>1. m.scopes[i] \in EntryRecord
    BY DEF ManifestRecord
  <2>2. m.scopes[i].max_amount_cents \in Nat \cup {Absent}
    BY <2>1 DEF EntryRecord
  <2>. QED
    BY <1>1, <2>2 DEF Over, Outside
<1>4. ~Restricted(m, scope) /\ ~Restricted(m, operation)
  BY DEF Granted, Restricted
<1>. QED
  BY <1>2, <1>3, <1>4, AllowedMeans

\* A token that outlives the window, in the window.
LEMMA SignedPasses ==
  ASSUME IInv, token # Absent, token.sdk = "typescript", InWindow(token.ts),
         Skew < RequestExpiry, Skew < HandshakeExpiry
  PROVE  Authentic(token, token.agent_id) /\ checkProtocolVersion(token) /\ token.protocol_version = "1"
<1>1. token.key = token.agent_id /\ token.protocol_version = "1"
      /\ token.exp \in {token.ts + RequestExpiry, token.ts + HandshakeExpiry}
  BY DEF IInv, Signed
<1>2. token.ts \in Nat /\ now \in Nat
  BY DEF IInv, TypeOK, TokenRecord
<1>3. token.exp > now
  BY <1>1, <1>2, DecisionsAssumption DEF InWindow
<1>. QED
  BY <1>1, <1>3, DecisionsAssumption DEF Authentic, checkProtocolVersion, Major, Version

LEMMA InvGivesSdk == IInv /\ Skew < RequestExpiry /\ Skew < HandshakeExpiry => SdkIsVerified
<1>. SUFFICES ASSUME IInv, Skew < RequestExpiry, Skew < HandshakeExpiry,
                     token # Absent, token.sdk = "typescript", InWindow(token.ts)
              PROVE  /\ token.requested_scopes # Absent => VerifyHandshake(HandshakeOf(token), token) = "valid"
                     /\ token.scope # Absent /\ manifest[token.key] # Absent
                          /\ OneEntryEach(manifest[token.key]) =>
                          \A amount \in Amount \cup {Absent}, operation \in Operation \cup {Absent} :
                            Granted(manifest[token.key], token.scope, amount, operation) =>
                              Verify(RequestOf(token, amount, operation), token) = "verified"
  BY DEF SdkIsVerified, Passes
<1>1. Authentic(token, token.agent_id) /\ checkProtocolVersion(token) /\ token.protocol_version = "1"
  BY SignedPasses
<1>2. VerifyHandshake(HandshakeOf(token), token) = "valid"
  BY <1>1 DEF VerifyHandshake, HandshakeOf, SameScopes
<1>3. ASSUME manifest[token.key] # Absent, OneEntryEach(manifest[token.key]),
             NEW amount \in Amount \cup {Absent}, NEW operation \in Operation \cup {Absent},
             Granted(manifest[token.key], token.scope, amount, operation)
      PROVE  Verify(RequestOf(token, amount, operation), token) = "verified"
  <2>1. token.key \in Agent /\ token.agent_id = token.key
    BY DEF IInv, TypeOK, TokenRecord, Signed
  <2>2. amount \in Nat \cup {Absent}
    BY DecisionsAssumption
  <2>3. evaluateScope(manifest[token.agent_id], token.scope, amount, operation) = "allowed"
    BY <1>3, <2>1, <2>2, ManifestIsRecord, GrantedIsAllowed DEF IInv
  <2>4. PayloadMatches(RequestOf(token, amount, operation), token)
    BY DEF PayloadMatches, RequestOf
  <2>. QED
    BY <1>1, <1>3, <2>1, <2>3, <2>4 DEF Verify, RequestOf
<1>. QED
  BY <1>2, <1>3

\* If the SDK's tokens outlive the window, as 2m and 5m do the skew of one minute,
\* what the SDK for TypeScript signs passes all its time in the window.
THEOREM SdkPasses ==
  ASSUME Skew < RequestExpiry, Skew < HandshakeExpiry
  PROVE  Spec => []SdkIsVerified
BY Inductive, InvGivesSdk, PTL

LEMMA InvGivesKinds == IInv => KindsApart
<1>. SUFFICES ASSUME IInv, token # Absent, token.sdk # "none",
                     NEW body \in Body, Verify(body, token) = "verified",
                     NEW handshake \in HandshakeBody,
                     VerifyHandshake(handshake, token) = "valid"
              PROVE  FALSE
  BY DEF KindsApart
<1>1. token.scope # Absent
  BY VerifiedSaysWhy, DecisionsAssumption DEF PayloadMatches, Body
<1>2. token.requested_scopes # Absent
  BY DecisionsAssumption DEF VerifyHandshake, SameScopes, HandshakeBody
<1>. QED
  BY <1>1, <1>2, DecisionsAssumption DEF IInv, Signed

\* What an SDK signs is a request or a handshake, and passes as nothing else.
THEOREM KindsStayApart == Spec => []KindsApart
BY Inductive, InvGivesKinds, PTL

-----------------------------------------------------------------------------
LEMMA ValidSaysWhy ==
  ASSUME NEW handshake \in HandshakeBody, VerifyHandshake(handshake, token) = "valid"
  PROVE  /\ Authentic(token, handshake.agent_id) /\ checkProtocolVersion(token)
         /\ InWindow(handshake.timestamp)
         /\ token.nonce = handshake.nonce /\ token.ts = handshake.timestamp
         /\ token.requested_scopes = handshake.requested_scopes
BY DEF VerifyHandshake, SameScopes

LEMMA TypeGivesBound == TypeOK => HandshakeIsBound
<1>. SUFFICES ASSUME NEW first \in HandshakeBody, NEW again \in HandshakeBody,
                     VerifyHandshake(first, token) = "valid",
                     VerifyHandshake(again, token) = "valid"
              PROVE  /\ first = again
                     /\ first.agent_id = token.key /\ first.nonce = token.nonce
                     /\ first.requested_scopes = token.requested_scopes
                     /\ first.timestamp = token.ts /\ InWindow(token.ts)
  BY DEF HandshakeIsBound
<1>1. /\ first.agent_id = token.key /\ first.nonce = token.nonce
      /\ first.requested_scopes = token.requested_scopes
      /\ first.timestamp = token.ts /\ InWindow(token.ts)
  BY ValidSaysWhy DEF Authentic
<1>2. /\ again.agent_id = token.key /\ again.nonce = token.nonce
      /\ again.requested_scopes = token.requested_scopes /\ again.timestamp = token.ts
  BY ValidSaysWhy DEF Authentic
<1>3. first = again
  BY <1>1, <1>2 DEF HandshakeBody
<1>. QED
  BY <1>1, <1>3

\* A handshake's token is good for one body and within its window, for any lists
\* of scopes: sent again, it proposes nothing that it did not propose before.
THEOREM HandshakeBound == Spec => []HandshakeIsBound
BY TypeCorrect, TypeGivesBound, PTL

\* What the SDK for Python signs is refused.
PythonRefused ==
  token # Absent /\ token.sdk = "python" =>
    /\ \A body \in Body : Verify(body, token) # "verified"
    /\ \A handshake \in HandshakeBody : VerifyHandshake(handshake, token) # "valid"

LEMMA InvGivesRefusal == IInv => PythonRefused
<1>. SUFFICES ASSUME IInv, token # Absent, token.sdk = "python" PROVE ~checkProtocolVersion(token)
  BY VerifiedSaysWhy, ValidSaysWhy DEF PythonRefused
<1>. QED
  BY DEF IInv, Signed, checkProtocolVersion, Major

\* No request and no handshake of the SDK for Python is ever accepted, whatever the
\* manifests, times and bodies are: it signs no version, and 0.0.0 is not served.
THEOREM PythonIsRefused == Spec => []PythonRefused
BY Inductive, InvGivesRefusal, PTL
=============================================================================
