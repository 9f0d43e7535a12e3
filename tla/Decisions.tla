------------------------------ MODULE Decisions ------------------------------
(***************************************************************************)
(* What a request is judged by once its agent is known to be in good       *)
(* standing (Registry) and its nonce to be new (ReplayGuard): the tokens   *)
(* that the SDKs sign, the checks of POST /verify and POST /handshake/     *)
(* verify in their order, evaluateScope over the capability manifest that  *)
(* is there at that moment, and beside them the protocol package's own     *)
(* check of a payload, validateHandshakePayload.                           *)
(*                                                                         *)
(* Judging changes nothing: it is a set of operators over the state.  What *)
(* changes are the server's clock, the manifest and the token under way.   *)
(***************************************************************************)
EXTENDS Integers, Sequences

CONSTANTS Agent,
          Scope,            \* names of scopes, not empty in a manifest
          Operation,
          Manifest,         \* what PUT /agents/:agentId/capabilities is sent
          Amount,           \* the amounts that are asked for
          ScopeList,        \* the lists of scopes that handshakes ask for
          Nonce,
          Foreign,          \* tokens made without an SDK
          Skew,             \* TIMESTAMP_SKEW_MS
          RequestExpiry, HandshakeExpiry,  \* of the SDK's tokens, 2m and 5m
          Horizon,          \* bound: the last tick
          Empty,            \* the empty string, as a scope
          Absent            \* a claim, field or manifest that is not there

\* An empty operation, list of operations or list of restrictions counts as
\* absent: the code tests them for truth, or for members.
EntryRecord == [name : Scope, max_amount_cents : Nat \cup {Absent}, operations : SUBSET Operation]
ManifestRecord == [scopes : Seq(EntryRecord), restricted : SUBSET (Scope \cup Operation)]

\* The major number of protocol_version, NaN, or not a string.
Version == {"0", "1", "2", "NaN", "not a string"}

\* The claims that are looked at; key is the agent whose key signed them, sdk
\* is history.
TokenRecord ==
  [sdk : {"typescript", "python", "none"}, key : Agent, agent_id : Agent,
   scope : Scope \cup {Empty, Absent}, requested_scopes : {Absent} \cup Seq(Scope),
   nonce : Nonce, ts : Nat, protocol_version : Version \cup {Absent}, exp : Nat \cup {Absent}]

ASSUME DecisionsAssumption ==
  /\ Manifest \subseteq ManifestRecord
  /\ Foreign \subseteq {t \in TokenRecord : t.sdk = "none"}
  /\ Skew \in Nat /\ RequestExpiry \in Nat /\ HandshakeExpiry \in Nat /\ Horizon \in Nat
  /\ Amount \subseteq Nat /\ ScopeList \subseteq Seq(Scope)
  /\ Absent \notin Scope \cup Operation /\ Absent \notin Version /\ Absent \notin Manifest
  /\ Absent \notin ScopeList
  /\ Empty \notin Scope /\ Absent # Empty

VARIABLES now,       \* Date.now() of the server
          manifest,  \* the agents' capability manifests, or Absent
          token      \* the token under way, or Absent

vars == <<now, manifest, token>>

TypeOK ==
  /\ now \in Nat
  /\ manifest \in [Agent -> Manifest \cup {Absent}]
  /\ token \in TokenRecord \cup {Absent}

-----------------------------------------------------------------------------
(* evaluateScope *)

Restricted(m, name) == name \in m.restricted

\* Mutant: of several entries of a name the last one counts.
FoundLast(m, scope, i) ==
  /\ i \in DOMAIN m.scopes /\ m.scopes[i].name = scope
  /\ \A j \in i + 1 .. Len(m.scopes) : m.scopes[j].name # scope

\* The i-th entry is the one that scopes.find returns.
Found(m, scope, i) ==
  /\ i \in DOMAIN m.scopes /\ m.scopes[i].name = scope
  /\ \A j \in 1 .. i - 1 : m.scopes[j].name # scope

Over(entry, amount) ==
  /\ amount # Absent /\ entry.max_amount_cents # Absent
  /\ amount > entry.max_amount_cents

\* Mutant: an operation is asked for wherever operations are listed.
OutsideUnnamed(entry, operation) == entry.operations # {} /\ operation \notin entry.operations

Outside(entry, operation) ==
  operation # Absent /\ entry.operations # {} /\ operation \notin entry.operations

\* Mutant: what is restricted is looked up among the scopes alone.
evaluateScopeUnrestricted(m, scope, amount, operation) ==
  IF \A i \in DOMAIN m.scopes : m.scopes[i].name # scope THEN "scope_not_granted"
  ELSE IF \E i \in DOMAIN m.scopes : Found(m, scope, i) /\ Over(m.scopes[i], amount)
       THEN "scope_amount_limit_exceeded"
  ELSE IF \E i \in DOMAIN m.scopes : Found(m, scope, i) /\ Outside(m.scopes[i], operation)
       THEN "operation_not_granted"
  ELSE "allowed"

evaluateScope(m, scope, amount, operation) ==
  IF Restricted(m, scope) THEN "scope_restricted"
  ELSE IF Restricted(m, operation) THEN "operation_restricted"
  ELSE IF \A i \in DOMAIN m.scopes : m.scopes[i].name # scope THEN "scope_not_granted"
  ELSE IF \E i \in DOMAIN m.scopes : Found(m, scope, i) /\ Over(m.scopes[i], amount)
       THEN "scope_amount_limit_exceeded"
  ELSE IF \E i \in DOMAIN m.scopes : Found(m, scope, i) /\ Outside(m.scopes[i], operation)
       THEN "operation_not_granted"
  ELSE "allowed"

-----------------------------------------------------------------------------
(* The two endpoints *)

\* What jwtVerify accepts: the agent's signature, unexpired if it has an expiry.
Authentic(t, agent) == t.key = agent /\ (t.exp # Absent => t.exp > now)

InWindow(timestamp) == now - timestamp \in -Skew .. Skew

\* The major number the server compares with its own, PROTOCOL_VERSION's.
Major(t) == IF t.protocol_version = Absent THEN "0" ELSE t.protocol_version

checkProtocolVersion(t) == Major(t) = "1"

\* Mutant: the timestamp of the body is not compared with the token's.
PayloadMatchesLoosely(body, t) ==
  t.agent_id = body.agent_id /\ t.scope = body.scope /\ t.nonce = body.nonce

PayloadMatches(body, t) ==
  /\ t.agent_id = body.agent_id /\ t.scope = body.scope
  /\ t.nonce = body.nonce /\ t.ts = body.timestamp

\* POST /verify from the window on.  A token that jwtVerify rejects, and one
\* whose version is not a string, end in the error handler.
Verify(body, t) ==
  IF ~InWindow(body.timestamp) THEN "timestamp_out_of_window"
  ELSE IF ~Authentic(t, body.agent_id) \/ t.protocol_version = "not a string" THEN "internal_error"
  ELSE IF ~checkProtocolVersion(t) THEN "protocol_version_mismatch"
  ELSE IF ~PayloadMatches(body, t) THEN "payload_mismatch"
  ELSE IF manifest[body.agent_id] = Absent THEN "capability_manifest_not_found"
  ELSE LET reason == evaluateScope(manifest[body.agent_id], body.scope, body.amount_cents, body.operation)
       IN IF reason = "allowed" THEN "verified" ELSE reason

\* Mutant: a token that asks for no scopes asks for an empty list of them.
SameScopesOrNone(body, t) ==
  (IF t.requested_scopes = Absent THEN <<>> ELSE t.requested_scopes) = body.requested_scopes

\* Mutant: the lengths of the two lists are not compared.
SameScopesSoFar(body, t) ==
  \E n \in 0 .. Len(body.requested_scopes) :
    t.requested_scopes = SubSeq(body.requested_scopes, 1, n)

SameScopes(body, t) == t.requested_scopes = body.requested_scopes

\* POST /handshake/verify from the key on: the token's agent_id is not compared.
VerifyHandshake(body, t) ==
  IF ~Authentic(t, body.agent_id) \/ t.protocol_version = "not a string" THEN "internal_error"
  ELSE IF ~checkProtocolVersion(t) THEN "protocol_version_mismatch"
  ELSE IF /\ InWindow(body.timestamp) /\ t.nonce = body.nonce /\ t.ts = body.timestamp
          /\ SameScopes(body, t)
       THEN "valid"
  ELSE "handshake_invalid"

\* Mutant: the library's check has lost the nonce.
validateWithoutNonce(expected, actual) ==
  /\ actual.agent_id = expected.agent_id
  /\ expected.scope # Empty => actual.scope = expected.scope
  /\ actual.ts = expected.timestamp

\* The protocol package's check of a payload; an empty scope is not compared.
validateHandshakePayload(expected, actual) ==
  /\ actual.agent_id = expected.agent_id
  /\ expected.scope # Empty => actual.scope = expected.scope
  /\ actual.nonce = expected.nonce
  /\ actual.ts = expected.timestamp

-----------------------------------------------------------------------------
(* The machine *)

Init ==
  /\ now = 0
  /\ manifest = [a \in Agent |-> Absent]
  /\ token = Absent

RequestClaims(a, scope, nonce, clock) ==
  [sdk |-> "typescript", key |-> a, agent_id |-> a, scope |-> scope, requested_scopes |-> Absent,
   nonce |-> nonce, ts |-> clock, protocol_version |-> "1", exp |-> clock + RequestExpiry]

\* Mutant: the timestamp is left to the server.
HandshakeClaimsUndated(a, scopes, nonce, clock) ==
  [RequestClaims(a, Absent, nonce, clock) EXCEPT
     !.requested_scopes = scopes, !.exp = clock + HandshakeExpiry, !.ts = Absent]

HandshakeClaims(a, scopes, nonce, clock) ==
  [RequestClaims(a, Absent, nonce, clock) EXCEPT
     !.requested_scopes = scopes, !.exp = clock + HandshakeExpiry]

\* What the SDK for Python leaves out.
InPython(claims) ==
  [claims EXCEPT !.sdk = "python", !.protocol_version = Absent, !.exp = Absent]

\* An agent signs with an SDK, at any reading of its own clock.
signAgentRequest(a, scope, nonce, clock) ==
  /\ \/ token' = RequestClaims(a, scope, nonce, clock)
     \/ token' = InPython(RequestClaims(a, scope, nonce, clock))
  /\ UNCHANGED <<now, manifest>>

buildHandshakeRequest(a, scopes, nonce, clock) ==
  /\ \/ token' = HandshakeClaims(a, scopes, nonce, clock)
     \/ token' = InPython(HandshakeClaims(a, scopes, nonce, clock))
  /\ UNCHANGED <<now, manifest>>

\* Anybody signs anything.
SignOtherwise == token' \in Foreign /\ UNCHANGED <<now, manifest>>

\* PUT /agents/:agentId/capabilities; a registration inserts the first.
PutCapabilities(a, m) ==
  /\ manifest' = [manifest EXCEPT ![a] = m]
  /\ UNCHANGED <<now, token>>

Tick == now < Horizon /\ now' = now + 1 /\ UNCHANGED <<manifest, token>>

Next ==
  \/ \E a \in Agent, n \in Nonce, clock \in 0 .. Horizon :
       \/ \E s \in Scope : signAgentRequest(a, s, n, clock)
       \/ \E ss \in ScopeList : buildHandshakeRequest(a, ss, n, clock)
  \/ SignOtherwise
  \/ \E a \in Agent, m \in Manifest : PutCapabilities(a, m)
  \/ Tick

Spec == Init /\ [][Next]_vars

-----------------------------------------------------------------------------
Body ==
  [agent_id : Agent, scope : Scope \cup {Empty}, nonce : Nonce, timestamp : 0 .. Horizon,
   amount_cents : Amount \cup {Absent}, operation : Operation \cup {Absent}]
HandshakeBody ==
  [agent_id : Agent, requested_scopes : ScopeList, nonce : Nonce, timestamp : 0 .. Horizon]

\* What a manifest says, in no order: some entry allows all of it, and no
\* restriction names any of it.
Granted(m, scope, amount, operation) ==
  /\ {scope, operation} \cap m.restricted = {}
  /\ \E i \in DOMAIN m.scopes :
       /\ m.scopes[i].name = scope
       /\ amount # Absent /\ m.scopes[i].max_amount_cents # Absent =>
            amount <= m.scopes[i].max_amount_cents
       /\ operation # Absent /\ m.scopes[i].operations # {} =>
            operation \in m.scopes[i].operations

\* POST /verify says "verified" only of a request that the agent it names signed
\* with this scope, nonce and time, within the window, and that its manifest grants.
VerifiedMeansGranted ==
  token # Absent =>
    \A body \in Body : Verify(body, token) = "verified" =>
      /\ token.key = body.agent_id /\ token.agent_id = body.agent_id
      /\ token.scope = body.scope /\ token.nonce = body.nonce /\ InWindow(token.ts)
      /\ manifest[body.agent_id] # Absent
      /\ Granted(manifest[body.agent_id], body.scope, body.amount_cents, body.operation)

\* No two entries of one name, which the schema does not ask for.
OneEntryEach(m) ==
  \A i, j \in DOMAIN m.scopes : m.scopes[i].name = m.scopes[j].name => i = j

\* The request that goes with a token of an SDK.
RequestOf(t, amount, operation) ==
  [agent_id |-> t.agent_id, scope |-> t.scope, nonce |-> t.nonce, timestamp |-> t.ts,
   amount_cents |-> amount, operation |-> operation]
HandshakeOf(t) ==
  [agent_id |-> t.agent_id, requested_scopes |-> t.requested_scopes, nonce |-> t.nonce,
   timestamp |-> t.ts]

Passes(t) ==
  InWindow(t.ts) =>
    /\ t.requested_scopes # Absent => VerifyHandshake(HandshakeOf(t), t) = "valid"
    /\ t.scope # Absent /\ manifest[t.key] # Absent /\ OneEntryEach(manifest[t.key]) =>
         \A amount \in Amount \cup {Absent}, operation \in Operation \cup {Absent} :
           Granted(manifest[t.key], t.scope, amount, operation) =>
             Verify(RequestOf(t, amount, operation), t) = "verified"

\* A request or a handshake signed with the SDK for TypeScript passes all its life
\* in the window, the request if the manifest grants it: the token does not expire
\* before the window ends, and no check asks for what the SDK does not sign.
SdkIsVerified == token # Absent /\ token.sdk = "typescript" => Passes(token)

\* A token of an SDK passes as a request or as a handshake, never as both.
KindsApart ==
  token # Absent /\ token.sdk # "none" =>
    \A body \in Body : Verify(body, token) = "verified" =>
      \A handshake \in HandshakeBody : VerifyHandshake(handshake, token) # "valid"

\* POST /handshake/verify says "valid" only while the token's own time is in the
\* window, and of one body: the signer's, with the nonce and the scopes it signed.
\* No nonce is claimed, but a token that is sent again gets the same proposal only.
HandshakeIsBound ==
  token # Absent =>
    \A first, again \in HandshakeBody :
      VerifyHandshake(first, token) = "valid" /\ VerifyHandshake(again, token) = "valid" =>
        /\ first = again
        /\ first.agent_id = token.key /\ first.nonce = token.nonce
        /\ first.requested_scopes = token.requested_scopes
        /\ first.timestamp = token.ts /\ InWindow(token.ts)

\* Who is allowed an amount or an operation is allowed a smaller amount, or to say
\* nothing of either.
LessIsAllowed ==
  \A a \in Agent, scope \in Scope \cup {Empty}, operation \in Operation \cup {Absent} :
    manifest[a] # Absent =>
      \A amount \in Amount \cup {Absent} :
        evaluateScope(manifest[a], scope, amount, operation) = "allowed" =>
          /\ evaluateScope(manifest[a], scope, amount, Absent) = "allowed"
          /\ \A less \in Amount \cup {Absent} :
               less = Absent \/ (amount # Absent /\ less <= amount) =>
                 evaluateScope(manifest[a], scope, less, operation) = "allowed"

\* The entries of m come first in n, and n restricts no more.
Extends(m, n) ==
  /\ Len(m.scopes) <= Len(n.scopes)
  /\ \A i \in 1 .. Len(m.scopes) : n.scopes[i] = m.scopes[i]
  /\ n.restricted \subseteq m.restricted

\* Adding entries at the end of a manifest takes nothing away, not even when they
\* repeat a name with a smaller limit.  (Adding them in front does.)
ExtendingKeepsGrants ==
  [][\A a \in Agent :
       /\ manifest'[a] # manifest[a] /\ manifest[a] # Absent /\ manifest'[a] # Absent
       /\ Extends(manifest[a], manifest'[a])
       =>
         \A scope \in Scope, amount \in Amount \cup {Absent}, operation \in Operation \cup {Absent} :
           evaluateScope(manifest[a], scope, amount, operation) = "allowed" =>
             evaluateScope(manifest'[a], scope, amount, operation) = "allowed"]_vars

\* The library's check of a payload and the server's agree on every request that
\* names a scope.
LibraryAgrees ==
  token # Absent =>
    \A body \in Body : body.scope # Empty =>
      (validateHandshakePayload(body, token) <=> PayloadMatches(body, token))
=============================================================================
