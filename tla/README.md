# A2AX-Core in TLA+

Specifications of the A2AX-Core agent identity backend and protocol package,
checked with TLC and proved with TLAPS. The modules are translated from the
source at the lines that `PROJECT.json` names under `map`; where the documents
and the code say different things the modules follow the code, and a run shows
the difference (see *Findings*).

To check: `tlc -config <cfg> <MC module>` for each run of `PROJECT.json`,
`tlapm <module>` for the modules with theorems.

## 1. The system

One or more API servers (Fastify, `backend/api`) keep their durable state in
PostgreSQL and their short-lived state in Redis; they hold none themselves
except a trust store loaded at start and a cached signing key. A request is run
by one server as a chain of awaited calls to the two stores, without a
transaction, so two requests interleave between any two awaited calls, whether
one server runs them or two, and a handler stops wherever a call rejects or its
process dies. The protocol package (`protocol`) is pure: policies, certificate
and handshake verification, the trust store. A command line tool (`cli`)
installs trust bundles into the directory that the servers load.

| component | state | operations | hard behaviour | correct when |
| --- | --- | --- | --- | --- |
| agent registry (`routes/index.ts`, `001_init.sql`) | tables organizations, agents, agent_keys, agent_certificates, agent_capabilities, revocations, audit_logs | create organization, register, revoke, replace capabilities | no transactions: partial registration and partial revocation, retries, interleaving | an audit row stands for durable effects; a revocation that is acknowledged is in force everywhere |
| revocation lookup (`isRevoked`) | Redis `revoked:<id>` in front of revocations | get, SELECT, set | races with a revocation, Redis restarts | the cache never says more than the table; a revoked agent stays refused without the cache |
| request verification (`POST /verify`) | none of its own | eight checks and an audit row, in order | every read can be stale by the answer | accepts only an agent that was active at one instant of the request |
| replay protection | Redis `nonce:<agent>:<nonce>` | window comparison, `SET EX NX` | two clocks, delay between check and claim, resent calls, lost keys | a token is accepted again only late in its window, and not while its nonce is held; a refusal has a cause |
| rate limiter (`enforceRateLimit`) | Redis `ratelimit:<subject>:<minute>` | `INCR`, `EXPIRE` | shared counters, crash between the two calls, resent calls, minute boundary | at most the limit per minute over all servers; no counter is left behind without a cause |
| handshake | none; session tokens are signed | verify a request, issue a session | window, nonce and scopes compared with the token, none of them claimed; a session refers to no handshake | only what an agent in good standing signed is valid; a request is not a handshake |
| scope policy, version check | none | evaluateScope, checkProtocolVersion | absent fields, boundary amounts, repeated names, restrictions | verified is what the manifest grants and nothing else |
| SDKs (TypeScript, Python) | none | sign a request, build a handshake | claims the server will ask for; a token that expires inside its window | what an SDK signs for a grant is verified |
| trust anchors, installer, export | files of a directory; the store of a running server | install, export, delete; load at start | torn files, stopped loads, files of two formats, writers beside the load | an undisturbed server trusts what was installed last, and nobody trusts what was not offered |
| portable verification, issuer signers | the signer's key promise | verify a certificate, sign | key rotation, cached failures, two algorithms | a server finds its own certificates valid |
| trust store and bundle loader (`protocol`) | map of issuers, ids per bundle | add, remove, load, unload | overlapping bundles, new versions | the store is made of the loaded bundles |
| local policy engine (`protocol`) | none | evaluate | absent levels and lists, the order of the tests | a stricter policy is never more lenient |
| trust score | trust_events, trust_scores | insert an event, compute and store a score | two snapshots, older result written last, absent and zero values | a score computed in quiet is made of all events; it stays in range and does not punish success |
| admin authentication | the key of each server; tokens are signed | exchange the key for a token, verify | clocks of several servers, rotation server by server | an admission goes back to the server's key, not longer than a token's life ago |

The rest (reads, metrics, extension interfaces, federation stub, type
declarations, scripts, compose file) keeps no state that a property could be
about; section 8 and `PROJECT.json` list every part with the reason.

Interactions: the handlers share the two stores and nothing else. `/verify`
calls, in this order, the rate limiter, isRevoked, the agents table, the replay
guard, agent_keys and the signature, agent_capabilities and evaluateScope, and
audit_logs. `/handshake/verify` calls the rate limiter, isRevoked, agent_keys
and the signature.

## 2. Modules

| module | what it is |
| --- | --- |
| `Authority` | abstract specification: what a registry promises about revocation, without tables or caches |
| `Registry` | the registry's handlers and isRevoked, one action per awaited call |
| `ReplayGuard` | timestamp window and nonce claim, with time |
| `RateLimit` | INCR and EXPIRE per subject and minute, with time |
| `TrustAnchors` | anchors directory, its writers, the server's start, signer and portable verification |
| `KeyRotation` | `TrustAnchors` with the history that the rotation of an issuer's key is about |
| `PolicyEngine` | the verdict of a policy on an issuer's metadata, a pure operator |
| `TrustBundles` | trust store and bundle loader of the protocol package over `PolicyEngine`, with its theorems |
| `Decisions` | tokens of the SDKs, the checks of `/verify` and `/handshake/verify` on them, evaluateScope, validateHandshakePayload |
| `TrustScore` | trust events, the two aggregates, the score and its upsert |
| `AdminAuth` | the administrator's key, its exchange for tokens, admission and rotation |
| `MC` + the name of a module | small instances for TLC |
| `RegistryProofs`, `ReplayGuardProofs`, `RateLimitProofs`, `TrustAnchorsProofs`, `TrustScoreProofs`, `AdminAuthProofs`, `DecisionsProofs` | theorems |

### Registry

State: each table is a set or function over agents or requests (`orgs`,
`status`, `keyed`, `certified`, `capability`, `revocations`, `audit`), Redis is
`cache`, and each request has its inputs (`op`, `subject`, `org`, `manifest`), a
label `at`, naming the call it awaits next or its answer, and a history variable
`since`: what the database held of a revocation when the request arrived.

| code | actions |
| --- | --- |
| `POST /orgs` | `CreateOrg` |
| `POST /agents/register` | `RegisterBegin`, `RegisterInsertAgent`, `RegisterInsertKey`, `RegisterInsertCertificate`, `RegisterInsertCapabilities`, `RegisterAudit` |
| `POST /agents/:id/revoke` | `RevokeBegin`, `RevokeMarkAgent` (UPDATE), `RevokeListAgent` (INSERT), `RevokeCacheAgent` (redis.set), `RevokeAudit` |
| `PUT /agents/:id/capabilities` | `CapabilitiesBegin`, `CapabilitiesUpsert` |
| `isRevoked` | `IsRevokedCacheGet`, `IsRevokedListSelect`, `IsRevokedCacheFill` |
| `POST /verify` | `CheckBegin`, `RateLimited`, isRevoked, `VerifyReadAgent`, `VerifyClaimNonce`, `ReadKey`, `Authenticate`, `VerifyReadManifest`, `VerifyAudit` |
| `POST /handshake/verify` | `CheckBegin`, `RateLimited`, isRevoked, `ReadKey`, `Authenticate` |
| rejected call, process death | `Abort` |
| restart of Redis | `RedisRestart` |

Abstractions: rows keep what the properties tell apart (the presence of a key,
the manifest behind a hash). The answer of a check whose data is elsewhere (rate
limit, window and nonce, signature and claims, scope) is a nondeterministic
choice between going on and denying; `ReplayGuard`, `RateLimit` and `Decisions`
say what that choice depends on. Requests that the admin check or the body
schema turn away are left out: they touch no store. The last store call and the
reply are one action with two outcomes, since the reply can be lost. A
registration's id is random (`agt_<uuid>`) and nobody can name it before the
registration has ended (`FreshId`, `Addressable`).

### ReplayGuard

`now` is Redis' clock in ticks; a server's clock is any value within `Drift` of
it (`Clock`); a SET takes effect at most `Delay` after the server compared the
timestamp (`Tick` is held back). The code bounds neither number: they are
constants so that the models can say how much of either a configuration
survives. `ClaimNonceUnanswered` is ioredis sending an unanswered call again
(`maxRetriesPerRequest: 3`). `deadline[k]` is the expiry of a nonce key, kept
inclusively as Redis does; `RedisRestart` forgets any set of keys and increments
`restarts`; `era[r]` and `claimed[r]` are history, the life of Redis and the time
in which r's claim was answered. TTL and Skew are independent constants, as the two
settings are in `config.ts`. The body of a request and the claims of its token are
separate, since the nonce of the body is claimed before the token is looked at.

### RateLimit

A counter is `<<subject, minute>>`, with its value `count` and expiry `lease`.
`Begin` reads the server's clock, `Incr` is the INCR and its answer, `Expire`
the EXPIRE of the request that read 1. Time, drift, delay, resends and restarts
are as in ReplayGuard; a restart can also bring a counter back with an older
value or without its expiry.

### TrustAnchors

`anchor` is the directory: for each issuer a `.json` and a `.pem` file, absent,
torn, or with a key. A script (the installer or the export) is what it has left
to write (`writing`) and whether it has truncated the first file (`opened`):
`Install` or `Export`, then `OpenFile` and `WriteFile` per file, `ScriptStops`
anywhere. One script runs at a time. The key generator writes its file in two steps
as well (`KeygenOpen`, `KeygenWrite`), so that the signer and the export can find it
torn. The server is `phase`, the listed files not
yet read (`pending`), `store` and `signing`. `Start` is readdir, in an order that
the model leaves open; `SkipFile`, `LoadFile` and `LoadStops` are the iterations
of the loop, each after one awaited readFile. A key stands for both halves; a
certificate for its issuer id and key. `Verdict` is the answer of
`/verify/portable`; since the two texts for an unverifiable signature are not told
apart by any property, they are one. `course` and `latest` are history: whether
the load was disturbed or stopped, and what was installed last.

`KeyRotation` adds two history variables, the keys that were installed for the
server's own id (`installed`) and those that servers have signed with (`issued`), for
the one statement of the documents that is about earlier keys.

### TrustBundles

`issuers` and `loadedBundles` are the two maps of the code; `current` and
`touched` are history, the loaded version of each bundle and the issuers that
were added or removed directly. `Metadata` gives each key the assurance level and
the jurisdiction it comes with; `MetadataOf` is what a verifier finds of an issuer in the
store, nothing where there is none, and `evaluate` what PolicyEngineSimple says of it.

### Decisions

The checks of the two endpoints change nothing, so they are operators
(`Verify`, `VerifyHandshake`) over a state that changes beside them: the server's
clock, the capability manifests (`PutCapabilities`) and one token under way,
signed by either SDK at any reading of the agent's clock (`signAgentRequest`,
`buildHandshakeRequest`, for Python through `InPython`) or by anybody
(`SignOtherwise`). The properties ask in every state about every body that can
come with the token, which stands for the client's freedom to send anything and
for every delay between signing, sending and judging. A signature is the agent
whose key made it. A version is its major number as the code computes it, with the
three cases that are none; an absent claim is `Absent`, and an empty operation
list or operation, which the code tests for truth, is the same as an absent one.
The manifest's entries are a sequence, since `scopes.find` takes the first of a
name.

### TrustScore

`events` are the rows of trust_events, never changed; so what a statement saw is
the length of a prefix, and a stored score is kept as what it was made of (`seen` by
the counts, `heard` by the uptime). `GET /agents/:agentId/trust` is `Begin`,
`ReadCounts`, `ReadUptime`, `ReadAgent` and `StoreScore`, one per awaited call, with
`Abort` between any two; `POST /trust/events` is `RecordEvent`. The aggregates and
computeTrustScore are `Score`, in exact fractions, with the rounding and without
the clamp. `began` is history.

### AdminAuth

A server has the key it read at its start, and the environment has the next one:
`Rotate` and then `Restart` of each server. `IssueAdminToken` is the exchange,
`AdminOperation` any endpoint behind verifyAdminAuth, `POST /handshake/session`
among them. `exp` is by the clock of the issuing server and compared with that of
the judging one, each within `Drift`. `shown` and `admitted` are history: when a key
was last accepted, and the last admission.

### Authority and the refinements

`Authority` has an agent's standing and, per request, a verdict: open until the
instant of `Permit`, which the agent's good standing guards, then permitted and
accepted, or closed. `Registry` implements it twice, with two mappings:

- `VerifyAuthority`: standing is the status column; a request is open while it
  is in isRevoked or about to read the agent, and `VerifyReadAgent` is `Permit`.
- `HandshakeAuthority`: an agent is in good standing until it has a revocations
  row; `IsRevokedListSelect` is `Permit`.

The second cannot be had for the status column: see the first finding.

## 3. Runs

| run | instance | shows |
| --- | --- | --- |
| `registry_safety` | 3 requests, 2 agents (one enrolled, one to be registered), 2 organizations (one or both there at the start), 2 manifests | `CacheBacked`, `RevocationEnforced`, `AuditTrail`, `HashFollowsManifest`, `AcknowledgedIsInForce`, both refinements |
| `registry_liveness` | 2 requests, 2 agents, 2 organizations, 1 manifest, `FairSpec` | `Answered`, `RevocationTakesHold` |
| `registry_handshake_status` | 2 requests, 1 agent | violated: finding 1 |
| `replay_guard` | 2 requests, 2 tokens, 2 keys, Skew 1, TTL 2 = 2·Skew as shipped, Drift 1, Delay 1, 8 ticks, 1 restart, 1 resend | `ReplayIsLate`, `RefusalHasCause` |
| `replay_at_defaults` | 2 requests, 1 token, ticks of a second: Skew 60, TTL 120, Delay 1, Drift 0, no restart, no resend | violated: finding 2 |
| `rate_limit` | 3 requests of 1 subject, limit 2, minute of 3 ticks, KeyTTL 5 = Window − 1 + 2·Drift + Delay, 6 ticks, 1 restart, 1 resend | `WithinLimit`, `LimitedHasCause`, `LeaseHasCause` |
| `trust_anchors` | 3 issuers (the server's own, one from a bundle, one named with a dot), 2 bundles, 2 keys to generate (so that the export can follow a rotation), 3 keys in all, `FairSpec` | `OnlyOffered`, `NewestIsTrusted`, `OwnCertificatesVerify`, `LoadEnds` |
| `key_rotation` | 1 issuer, the server's own, 2 keys to generate, no bundles | violated: finding 3 |
| `trust_bundles` | 4 issuers, 2 keys with metadata, 2 versions of one bundle, another that shares an issuer, policies of several strictnesses | `StoreFollowsBundles`, `VerdictIsMonotone` |
| `trust_score` | 2 agents (one with a row), 2 computations, 4 reports, 3 events, full uptime 2, an age of 100 days, all three tiers | `CurrentWhenQuiet`, `ScoreInRange`, `GoodEventsNeverHurt` |
| `admin_auth` | 2 servers, 2 keys, TTL 5, Drift 1, 7 ticks, 2 tokens | `AccessNeedsKey`, `ExpiresInIsKept` |
| `decisions` | 2 agents, 2 scopes, 2 operations, 6 manifests, 2 nonces, amounts 1 and 2, 3 lists of scopes, 6 tokens made without an SDK, Skew 1, expiries 2 and 3, 3 ticks | `VerifiedMeansGranted`, `SdkIsVerified`, `KindsApart`, `HandshakeIsBound`, `LessIsAllowed`, `LibraryAgrees`, `ExtendingKeepsGrants` |

Why the bounds are enough. In the registry, three requests are two of any kind
and a third that observes both: an interrupted revocation, its retry, and a
check beside them, or a registration, a revocation of what it registered and a
check. A second agent is there to be registered while the other exists. In the
replay guard, a replay is a matter of two requests; the timestamps (3 and 4)
leave ticks for requests before, in, and after their windows, and 8 ticks reach
past the end of both windows and of the earliest nonce, so that a second
acceptance happens in the run, with a restart and without. The instance has the
ratio of TTL and Skew that the defaults have; `replay_at_defaults` has the defaults
themselves, in seconds. The KeyTTL is the smallest that `LimitIsKept` allows, so that
one tick less is a violation. In
the rate limiter three requests are one more than the limit, and 6 ticks hold two
minutes and the boundary that two clocks see at different ticks. Every bound is a
constant of the module (`Request`, `Horizon`, `Restarts`, `Resends`), and the
theorems are about all their values. In the trust modules nothing is bounded
but the sets: an issuer whose key comes in both formats and in two values, one that
loads beside it, and one that is passed over. In the trust score, an event can
fall before, between and behind the two statements of a computation that itself
overlaps another; three events reach every order of a success, one in time, one
with a report of more than full uptime and a disputed failure with a report of
zero. In the admin module, seven ticks hold a token's whole life of five between
two clocks that are both off, time enough inside it for the promise to be kept over
several ticks, and the rotation. In `Decisions` the expiry of a
request exceeds the skew by as little as the theorem allows, three ticks hold a
window with a time before and behind it, and the manifests have a limit at and
below an amount, a name twice in both orders, and restrictions of a scope and of
an operation. Deadlock is checked in the trust modules, `AdminAuth` and `Decisions`; in
the other modules it is not: every request is handled once, and the system really
stops after the last.

Symmetry is over requests (in the registry over manifests and organizations too,
in the admin module over servers and keys), never where a liveness property is
checked.

Fairness. `FairSpec` asks weak fairness of each request's handler alone: Node
runs the continuation of an awaited call once the call settles, and both clients
settle every call with an answer or an error (the latter is `Abort`, or the
error outcome of the last call, for which no fairness is asked). Arrivals,
restarts and aborts are not fair. In `TrustAnchors` the loop of the load and the
start of listening are fair, for the same reason; scripts and operators are not.
`Answered` needs each label to lead to a later one; `RevocationTakesHold` says in
addition what the answer is worth.

## 4. Properties

Each is stated at its definition. The ones that say most:

- `VerifyEnforcesStatus`, `HandshakeEnforcesListing`: the refinements above. They
  fix the instant at which the registry's word counts.
- `RevocationEnforced`: what an administrator relies on: after the revocation,
  no new request is accepted, even if the revocation was interrupted.
- `AcknowledgedIsInForce`: the same from the client's side: a revocation that was
  answered with success binds whoever arrives next, also when it was a retry.
- `CacheBacked`: why isRevoked may answer from the cache alone.
- `AuditTrail`: no success without its row, no row without its effects.
- `HashFollowsManifest`: a certificate and its agent's manifest are parted by a PUT
  and by nothing else, such as a registration that stopped or ran beside another.
- `RevocationTakesHold`: retrying an interrupted revocation repairs it.
- `ReplayIsLate`, `RefusalHasCause`: when a token can be accepted a second time:
  as long as a server can find it in its window, and, while Redis keeps its keys, not
  before the nonce expired; and no refusal out of nothing. That it cannot be
  accepted again at all (`NoReplay`) takes a TTL that the defaults do not have
  (finding 2).
- `WithinLimit`, `LimitedHasCause`, `LeaseHasCause`: not over the limit, not under
  it, and no counter left behind but for the three causes it names: a handler
  that stopped between the two calls, a resent INCR, a restart.
- `OnlyOffered`, `NewestIsTrusted`, `OwnCertificatesVerify`: whatever happens to
  the files, no foreign key; if nothing happens to them, exactly the newest (of an
  issuer with two files, one of the two), and a server that agrees with itself. What
  is not true of the keys before the newest is finding 3.
- `StoreFollowsBundles`: per issuer with one sponsor, the store is a function of
  the loaded versions.
- `VerdictIsMonotone`: in every state of the store, a policy that asks for more, and
  the loss of an issuer, never turn a verdict into a better one.
- `CurrentWhenQuiet`: the only scores that can miss an event are those whose
  computation overlaps it, whatever else was stored before.
- `ScoreInRange`, `GoodEventsNeverHurt`: the arithmetic over absent, zero and full
  values, also when the two statements saw different events.
- `AccessNeedsKey`, `ExpiresInIsKept`: a token is worth the key it was exchanged
  for, as long as promised and, up to the drift, no longer; no chain of tokens
  outlives it.
- `VerifiedMeansGranted` and `SdkIsVerified` are the two directions of a decision:
  nothing is verified that was not signed and granted, and what the TypeScript SDK
  signs for a grant is verified at any moment of its window. The reference
  (`Granted`) knows no order of entries or checks.
- `LessIsAllowed`, `ExtendingKeepsGrants`: what a manifest means to whoever
  writes one.
- `KindsApart`: one key signs requests and handshakes, and neither passes as the
  other.
- `HandshakeIsBound`: the handshake claims no nonce, so a token may be sent again; it
  gets one proposal, the scopes its agent signed, and only inside the window.
- `LibraryAgrees`: the check that the protocol package exports and the one that
  the server has inline are the same where a scope is named.

## 5. Proofs

The provers discharge every leaf, for any values of the constants that satisfy
the named assumptions (`EnrolledAssumption`, `NoneAssumption`,
`TokenAssumption`, `TimeAssumption`, `LimitAssumption`, `AnchorsAssumption`,
`BundlesAssumption`, `ScoreAssumption`, `AdminAssumption`,
`DecisionsAssumption`), which TLC evaluates on the instances. Every safety property
that a passing run checks, invariants, action properties and refinements, is
proved.

- `RegistryProofs`: `Spec => []` of `TypeOK`, `CacheBacked`,
  `RevocationEnforced` and `AuditTrail`. None of the last three is inductive.
  `IInv` adds what a request has established at each label (`Registering`,
  `Revoking`, `Checking`, `Answering`), the ties between label, operation and
  inputs (`Shape`), and `Exclusive`: an id is registered by one request and, until
  its row is there, no other request is about it. Without `Exclusive`, another
  registration could set a revoked agent's status to active. The step theorem
  splits by action; `Grows` carries what other requests have established across
  it. Then `Spec => VerifyEnforcesStatus` and `Spec => HandshakeEnforcesListing`: a
  step moves the stage of one request (`StageMoves`, `StageOpens`) and the standing
  only in the call that writes it (`StatusMoves`, `ListingMoves`). Last,
  `HandlersAdvanceAlways`, by the measure `CallsLeft`, the safety half of `Answered`:
  no handler goes back to a call, none makes more than eight, and what is left to
  fairness is that each call settles; `AcknowledgedInForce`, from
  `IInv`; and `HashIsTraced`, for which `Traced` adds that a manifest is only there
  for an agent with a row, and that a registration on its way to its certificate
  finds either no manifest or one that a PUT brought.
- `ReplayGuardProofs`: `ReplaysAreLate`, that `ReplayIsLate` holds for every TTL,
  skew, drift and delay. The window of a timestamp begins at `ts - Skew - Drift` of
  Redis' time and its last SET takes effect by `ts + Skew + Drift + Delay`, restarts or
  not: `IInv` keeps every claim between the two. `ClaimsApart` is the other half: a
  key that is free and was claimed in this life of Redis has expired
  (`FreeMeansExpired`), so that the next claim is more than TTL later. From the two
  follows at once what a configuration needs for `NoReplay`: `LongerTTLSuffices`, with
  `TTL >= 2*Skew + 2*Drift + Delay`, a corollary that nothing else rests on.
  `RefusalIsJustified` proves `RefusalHasCause` from `CauseInv`: every key in
  Redis was set by some request.
- `RateLimitProofs`: `LimitIsKept`, that `KeyTTL >= Window - 1 + 2*Drift + Delay`
  makes `WithinLimit` hold. Each life of a counter answers every request with a
  value of its own (`DistinctValues`), because a counter cannot expire while an
  INCR of its minute is on its way (`LongLeases`, `IncrementCounts`); the requests
  let through then map one-to-one into `1 .. Limit`, which bounds how many there
  are. The code's 70 s leave about ten seconds for drift and delay together.
  `LimitIsCaused` and `LeaseIsCaused` need no condition on time: a counter's value is
  bounded by the INCRs that were made for it (`CountInv`), and a counter without
  an expiry has a request that read 1 and did not go on, or one of the two other
  causes (`AnsweredInv`).
- `TrustAnchorsProofs`: `OnlyOfferedIsTrusted` from `Sourced`, the provenance of
  every key in a file, in a script's hands and in the store. `NewestTrusted` from
  `Records` (the only file of an issuer holds what was installed last) and
  `Loaded` (what is not pending any more is in the store, or the other file of its
  issuer is); `Loaded` does not depend on the order of the load. `OwnCertificates`,
  under `Kms = None`, adds `Signer`: an undisturbed signer has the configured key.
  Under `Kms # None`, `KmsIsRefused` is the opposite: nothing that the server signs is
  found valid.
- `TrustBundles`: `BundlesDecide`, with `IdsFollow` and `Named`, which tie the
  loader's ids to the versions loaded; `VerdictsAreMonotone`, for all policies and
  metadata.
- `TrustScoreProofs`: `ScoreIsCurrent`. The invariant orders, for every computation
  and every stored row, `began`, `seen`, `heard` and the length of the log; that the log
  only grows then says that a prefix with the last event of an agent has them all.
  `ScoreIsInRange` and `GoodEventsHelp` are about the arithmetic, for logs of any length.
  They need no induction: counts are cardinalities, the sum of the reports is the
  number of pairs of a report and a unit of it (`UptimeSum`), so that a bound is a set
  that includes another, and an event more is an element more. The terms are
  fractions with lemmas of their own: `Times`, `Plus` and the rounding keep bounds
  (`PlusWithin`, `RoundWithin`) and order (`PlusOrder`, `RoundOrder`), and each of the
  terms is within its weight and no lower after a good event (`GoodConduct`,
  `GoodSla`, `GoodUptime`). `ScoreAssumption` asks that a full uptime be positive.
- `AdminAuthProofs`: `AccessIsEarned`, `TokensServe`. The invariant dates every token: its
  key was shown when it was issued, and its expiry is within the drift of that
  time plus `TTL`.
- `DecisionsProofs`: `OnlyGrantedIsVerified`, `SdkPasses`, `KindsStayApart`,
  `LessAllowed`, `ExtendingKeeps`, `LibraryDecidesAlike`, `HandshakeBound`,
  `PythonIsRefused`. Only `Signed` is inductive in them: a token of an SDK has the
  shape that its SDK gives it. The rest are facts about the operators, for every
  manifest: `AllowedMeans` says when evaluateScope allows, and `Least`, from the
  well-foundedness of the order on the naturals, that an entry of a name has a first
  one. `SdkPasses` assumes `Skew < RequestExpiry` and `Skew < HandshakeExpiry`; the
  SDK's two and five minutes and the default skew of a minute satisfy it, while the
  code relates them nowhere. `PythonIsRefused`: no token of the SDK for Python is
  ever accepted.

Only model-checked: the liveness properties `Answered`, `RevocationTakesHold` and
`LoadEnds` (fairness and ENABLED are beyond these provers), and the three
properties that a run shows violated.

## 6. Findings

1. Handshake and status (`registry_handshake_status`). The revocation's UPDATE
   and INSERT are not one transaction, and the handshake looks only at the
   revocations table. Stopped in between, an agent is revoked for `/verify` and
   not for `/handshake/verify`, until someone revokes it again.
2. Replay with the defaults (`replay_at_defaults`). The window is closed and
   2·Skew = 120 s wide, the nonce lives for 120 s from its SET, and the window is
   compared before the SET. Claimed at the beginning of the window (second 0), a token
   that is compared at its end (second 120) and claimed a second later is accepted
   again. `docs/deployment-and-pilot.md:34` has a pilot verify that a duplicate is
   answered with nonce_replay. `LongerTTLSuffices` says which TTL is enough.
3. Rotation of an issuer's key (`key_rotation`). There is one key per issuer: once
   a new one is exported and the verifying server has started anew, the unexpired
   certificates under the old one are not valid any more, where
   `docs/security.md:34` says that old certificates remain valid until expiry.

Two more disagreements with the documents hold for every instance, and are proved
instead of shown by a run:

- KMS (`KmsIsRefused`). With `KMS_KEY_ARN`, which `docs/production-hardening.md:9` lists
  as supported, certificates are signed with RS256 and only EdDSA is let through by
  verifyPortableCertificate: none of them is ever valid.
- Python SDK (`PythonIsRefused`). Its tokens name no protocol version, which the server
  takes for 0.0.0, so that each is answered with protocol_version_mismatch, where
  `docs/enterprise-onboarding.md:9` names it as one of two ways to sign.

Behaviours the models show beside these. The properties name them as conditions,
or state what holds in spite of them.

- The nonce is claimed before the signature is looked at, where
  `docs/crypto.md:23-25` lists it after the signature: a request that is denied for its
  signature has used up the nonce.
- A restart of Redis forgets nonces.
- A revoked agent's answer may be delayed: a check that read the row before the
  revocation accepts after it. Authority's `Permit` is the instant that counts.
- Replacing an agent's capabilities leaves its certificate's hash as it was.
- A load that stops at a file that cannot be parsed leaves what it had read in the
  store, and the server starts with it; the comment at
  `backend/api/src/trust-store.ts:37` says that the store stays empty.
- A `.json` and a `.pem` of one issuer stand side by side, and the one read last is
  trusted; an issuer that a bundle's new version drops stays trusted.
- An amount that the request does not state passes every limit, an operation that
  it does not state every list; an empty list of jurisdictions asks for none.
- Of two manifest entries of one name only the first counts. Putting a stricter
  one in front takes a grant away; putting it behind does nothing.
- The handshake does not compare the `agent_id` in the token with that of the body
  (the signature stands for it), claims no nonce, and a session is issued without
  reference to a handshake.
- The older of two overlapping computations of a score may write last. A mean
  uptime of zero is replaced by the fallback, so that a report of full uptime can
  lower the score of an agent whose reports were all zero. A failure without a
  dispute can raise the score of an agent whose other events were disputed.

## 7. What is left

- A composition `Server` of Registry, ReplayGuard, RateLimit and Decisions by their
  shared requests, refined to Authority. The four share a request and no
  variable, so each property above carries over as it is; what the composition
  could add is an acceptance that is at most once, in good standing and granted in
  one formula, at the price of a state space that TLC cannot finish.
- The key in the environment (`ISSUER_PRIVATE_JWK`) beside the file and KMS.

## 8. Not modelled

Parts: the GET endpoints for agents, organizations, issuers and the audit log are single
SELECTs that change nothing. Metrics are counters that nothing reads back. The
federation of registries is a stub, the extensions are interfaces and a mock that
nothing calls, the protocol types are declarations. The seed, smoke and
import-check scripts are set-up and tests of a deployment; of start-up, probes and
migrations only what a rejected call does to a handler is in the models.

Cryptography is an opaque yes or no: a token is authentic or it is not. HTTP,
JSON schemas, logging, metrics and the text of answers are left out. PostgreSQL
is taken to execute each statement atomically and to keep what it committed;
Redis each command, and to lose keys only at a restart. Failing calls are
modelled as not executed and (by the two outcomes of a handler's last call, and
by resends) as executed with the answer lost at the places where that differs
from an `Abort` after the call.
