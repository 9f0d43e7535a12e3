------------------------------ MODULE Registry ------------------------------
(***************************************************************************)
(* The agent registry of the A2AX backend: the handlers that create,       *)
(* change, revoke and check an agent, over the tables of PostgreSQL and    *)
(* the revocation cache in Redis (backend/api/src/routes/index.ts).        *)
(*                                                                         *)
(* The API servers keep no state of their own, and every request is run    *)
(* by one of them as a sequence of awaited calls to the two stores.  No    *)
(* handler opens a transaction, so each awaited call is one action here,   *)
(* the handlers of different requests interleave between any two of them,  *)
(* and a handler can stop for good at any of them (Abort).  A request r    *)
(* has its program counter in at[r]: the label names the call it awaits    *)
(* next, and the labels of Final the answer it got.                        *)
(*                                                                         *)
(* Requests that authentication or the body's schema turn away before the  *)
(* first store access change nothing, and are not requests here.           *)
(***************************************************************************)

CONSTANTS Agent,     \* agent ids: those registered so far and those to come
          Org,       \* organization ids
          Manifest,  \* capability manifests
          Request,   \* the bound: every request is handled once
          Enrolled,  \* the agents registered before the run starts
          None       \* neither an agent, a manifest nor an organization

ASSUME EnrolledAssumption == Enrolled \subseteq Agent
ASSUME NoneAssumption == None \notin Agent \cup Manifest \cup Org

VARIABLES
  \* PostgreSQL
  orgs,         \* organizations: the ids with a row
  status,       \* agents: the status column, "none" where there is no row
  keyed,        \* agent_keys: the agents with a row
  certified,    \* agent_certificates: the manifest hash in the certificate
  capability,   \* agent_capabilities: the manifest
  revocations,  \* revocations: the agents with a row
  audit,        \* audit_logs: the requests that wrote a row
  \* Redis
  cache,        \* the agents with a key revoked:<id>
  \* the handlers
  op,           \* what the request asks for
  at,           \* the call it awaits, or the answer it got
  subject,      \* the agent it is about
  org,          \* the organization in the body of a registration
  manifest,     \* the manifest in the body of a registration
  since         \* history: what the database held of a revocation of the
                \* subject when the request arrived

database == <<orgs, status, keyed, certified, capability, revocations, audit>>
input    == <<op, subject, org, manifest, since>>
vars     == <<database, cache, at, input>>

\* The hash of a manifest: a value that determines the manifest, and is not one.
manifestHash(m) == [sha256 |-> m]
Hash == {manifestHash(m) : m \in Manifest}

Op == {"register", "revoke", "capabilities", "verify", "handshake"}
Check == {"verify", "handshake"}

RegisterLabel == {"insertAgent", "insertKey", "insertCertificate",
                  "insertCapabilities", "auditRegister"}
RevokeLabel   == {"markAgent", "listAgent", "cacheAgent", "auditRevoke"}
CheckLabel    == {"cacheGet", "listSelect", "cacheFill", "readAgent", "claimNonce",
                  "readKey", "authenticate", "readManifest", "auditVerify"}
Final   == {"ok", "denied", "error"}
Running == RegisterLabel \cup RevokeLabel \cup {"upsertCapabilities"} \cup CheckLabel

TypeOK ==
  /\ orgs \subseteq Org
  /\ status \in [Agent -> {"none", "active", "revoked"}]
  /\ keyed \subseteq Agent
  /\ certified \in [Agent -> Hash \cup {None}]
  /\ capability \in [Agent -> Manifest \cup {None}]
  /\ revocations \subseteq Agent
  /\ audit \subseteq Request
  /\ cache \subseteq Agent
  /\ op \in [Request -> Op \cup {"none"}]
  /\ at \in [Request -> Running \cup Final \cup {"idle"}]
  /\ subject \in [Request -> Agent \cup {None}]
  /\ org \in [Request -> Org \cup {None}]
  /\ manifest \in [Request -> Manifest \cup {None}]
  /\ since \in [Request -> {"clear", "marked", "listed"}]

\* The agents in Enrolled went through a registration that ran to its end.
Init ==
  /\ orgs \in SUBSET Org /\ (Enrolled # {} => orgs # {})
  /\ status = [a \in Agent |-> IF a \in Enrolled THEN "active" ELSE "none"]
  /\ keyed = Enrolled
  /\ capability \in {f \in [Agent -> Manifest \cup {None}] :
                       \A a \in Agent : f[a] = None <=> a \notin Enrolled}
  /\ certified = [a \in Agent |-> IF a \in Enrolled THEN manifestHash(capability[a]) ELSE None]
  /\ revocations = {} /\ audit = {} /\ cache = {}
  /\ op = [r \in Request |-> "none"]
  /\ at = [r \in Request |-> "idle"]
  /\ subject = [r \in Request |-> None]
  /\ org = [r \in Request |-> None]
  /\ manifest = [r \in Request |-> None]
  /\ since = [r \in Request |-> "clear"]

-----------------------------------------------------------------------------
Goto(r, label) == at' = [at EXCEPT ![r] = label]

\* agt_<random>: an id that no row has and no request has named.
FreshId(a) == status[a] = "none" /\ \A q \in Request : subject[q] # a

\* The id of an agent is not known to any client while its registration runs:
\* it is first told in the audit row and in the answer.
Addressable(a) == \A q \in Request : subject[q] = a => at[q] \notin RegisterLabel

Durable(a) == CASE a \in revocations -> "listed"
                [] a \notin revocations /\ status[a] = "revoked" -> "marked"
                [] OTHER -> "clear"

\* A request arrives at a server, which goes on to its first store access.
Arrive(r, o, a, first) ==
  /\ at[r] = "idle"
  /\ op' = [op EXCEPT ![r] = o]
  /\ subject' = [subject EXCEPT ![r] = a]
  /\ since' = [since EXCEPT ![r] = Durable(a)]
  /\ Goto(r, first)
  /\ UNCHANGED <<database, cache>>

-----------------------------------------------------------------------------
\* POST /orgs
CreateOrg(o) ==
  /\ o \notin orgs
  /\ orgs' = orgs \cup {o}
  /\ UNCHANGED <<status, keyed, certified, capability, revocations, audit, cache, at, input>>

\* POST /agents/register
RegisterBegin(r, a, o, m) ==
  /\ FreshId(a)
  /\ Arrive(r, "register", a, "insertAgent")
  /\ org' = [org EXCEPT ![r] = o]
  /\ manifest' = [manifest EXCEPT ![r] = m]

\* The foreign key of agents fails for an organization that does not exist.
RegisterInsertAgent(r) ==
  /\ at[r] = "insertAgent"
  /\ \/ /\ org[r] \in orgs
        /\ status' = [status EXCEPT ![subject[r]] = "active"]
        /\ Goto(r, "insertKey")
     \/ /\ org[r] \notin orgs
        /\ UNCHANGED status
        /\ Goto(r, "error")
  /\ UNCHANGED <<orgs, keyed, certified, capability, revocations, audit, cache, input>>

\* Mutant: the certificate is left to a later call.
RegisterInsertKeyUncertified(r) ==
  /\ at[r] = "insertKey"
  /\ keyed' = keyed \cup {subject[r]}
  /\ Goto(r, "insertCapabilities")
  /\ UNCHANGED <<orgs, status, certified, capability, revocations, audit, cache, input>>

\* The three rows that refer to agents: nothing deletes from agents, so their
\* foreign keys hold from here on.
RegisterInsertKey(r) ==
  /\ at[r] = "insertKey"
  /\ keyed' = keyed \cup {subject[r]}
  /\ Goto(r, "insertCertificate")
  /\ UNCHANGED <<orgs, status, certified, capability, revocations, audit, cache, input>>

RegisterInsertCertificate(r) ==
  /\ at[r] = "insertCertificate"
  /\ certified' = [certified EXCEPT ![subject[r]] = manifestHash(manifest[r])]
  /\ Goto(r, "insertCapabilities")
  /\ UNCHANGED <<orgs, status, keyed, capability, revocations, audit, cache, input>>

RegisterInsertCapabilities(r) ==
  /\ at[r] = "insertCapabilities"
  /\ capability' = [capability EXCEPT ![subject[r]] = manifest[r]]
  /\ Goto(r, "auditRegister")
  /\ UNCHANGED <<orgs, status, keyed, certified, revocations, audit, cache, input>>

\* The audit row is the last call of a handler: what follows is the reply,
\* which is lost if the process dies or the INSERT's own answer does.
Audit(r, label) ==
  /\ at[r] = label
  /\ audit' = audit \cup {r}
  /\ \E answer \in {"ok", "error"} : Goto(r, answer)
  /\ UNCHANGED <<orgs, status, keyed, certified, capability, revocations, cache, input>>

RegisterAudit(r) == Audit(r, "auditRegister")

-----------------------------------------------------------------------------
\* POST /agents/:agentId/revoke
RevokeBegin(r, a) ==
  /\ Addressable(a)
  /\ Arrive(r, "revoke", a, "markAgent")
  /\ UNCHANGED <<org, manifest>>

\* Mutant: the revocations row is left to a later call.
RevokeMarkAgentUnlisted(r) ==
  /\ at[r] = "markAgent"
  /\ status' = [a \in Agent |-> IF a = subject[r] /\ status[a] # "none" THEN "revoked"
                                ELSE status[a]]
  /\ Goto(r, "cacheAgent")
  /\ UNCHANGED <<orgs, keyed, certified, capability, revocations, audit, cache, input>>

\* Mutant: an agent that is marked already is taken to be revoked already.
RevokeMarkAgentOnce(r) ==
  /\ at[r] = "markAgent"
  /\ status' = [a \in Agent |-> IF a = subject[r] /\ status[a] # "none" THEN "revoked"
                                ELSE status[a]]
  /\ Goto(r, IF status[subject[r]] = "revoked" THEN "auditRevoke" ELSE "listAgent")
  /\ UNCHANGED <<orgs, keyed, certified, capability, revocations, audit, cache, input>>

\* The UPDATE touches no row where there is no agent, and is no error.
RevokeMarkAgent(r) ==
  /\ at[r] = "markAgent"
  /\ status' = [a \in Agent |-> IF a = subject[r] /\ status[a] # "none" THEN "revoked"
                                ELSE status[a]]
  /\ Goto(r, "listAgent")
  /\ UNCHANGED <<orgs, keyed, certified, capability, revocations, audit, cache, input>>

\* Mutant: a failed upsert is not noticed.
RevokeListAgentUnchecked(r) ==
  /\ at[r] = "listAgent"
  /\ revocations' = revocations \cup {a \in {subject[r]} : status[a] # "none"}
  /\ Goto(r, "cacheAgent")
  /\ UNCHANGED <<orgs, status, keyed, certified, capability, audit, cache, input>>

\* The upsert fails on its foreign key where there is no agent.
RevokeListAgent(r) ==
  /\ at[r] = "listAgent"
  /\ \/ /\ status[subject[r]] # "none"
        /\ revocations' = revocations \cup {subject[r]}
        /\ Goto(r, "cacheAgent")
     \/ /\ status[subject[r]] = "none"
        /\ UNCHANGED revocations
        /\ Goto(r, "error")
  /\ UNCHANGED <<orgs, status, keyed, certified, capability, audit, cache, input>>

RevokeCacheAgent(r) ==
  /\ at[r] = "cacheAgent"
  /\ cache' = cache \cup {subject[r]}
  /\ Goto(r, "auditRevoke")
  /\ UNCHANGED <<database, input>>

RevokeAudit(r) == Audit(r, "auditRevoke")

-----------------------------------------------------------------------------
\* PUT /agents/:agentId/capabilities
CapabilitiesBegin(r, a, m) ==
  /\ Addressable(a)
  /\ Arrive(r, "capabilities", a, "upsertCapabilities")
  /\ manifest' = [manifest EXCEPT ![r] = m]
  /\ UNCHANGED org

\* One upsert, whose foreign key fails where there is no agent; neither a new
\* certificate nor an audit row follows it.
CapabilitiesUpsert(r) ==
  /\ at[r] = "upsertCapabilities"
  /\ \/ /\ status[subject[r]] # "none"
        /\ capability' = [capability EXCEPT ![subject[r]] = manifest[r]]
        /\ \E answer \in {"ok", "error"} : Goto(r, answer)
     \/ /\ status[subject[r]] = "none"
        /\ UNCHANGED capability
        /\ Goto(r, "error")
  /\ UNCHANGED <<orgs, status, keyed, certified, revocations, audit, cache, input>>

-----------------------------------------------------------------------------
\* POST /verify and POST /handshake/verify
CheckBegin(r, o, a) ==
  /\ Addressable(a)
  /\ Arrive(r, o, a, "cacheGet")
  /\ UNCHANGED <<org, manifest>>

\* A step that only reads: it decides where the handler goes on, or denies.
Read(r, label, next) ==
  /\ at[r] = label
  /\ Goto(r, next)
  /\ UNCHANGED <<database, cache, input>>

\* isRevoked, its three awaited calls: the cache first, and the table only
\* when the cache does not have the agent.
IsRevokedCacheGet(r) ==
  Read(r, "cacheGet", IF subject[r] \in cache THEN "denied" ELSE "listSelect")

AfterIsRevoked(r) == IF op[r] = "verify" THEN "readAgent" ELSE "readKey"

\* Mutant: the cache is taken to be complete.
IsRevokedCacheOnly(r) == Read(r, "listSelect", AfterIsRevoked(r))

IsRevokedListSelect(r) ==
  Read(r, "listSelect", IF subject[r] \in revocations THEN "cacheFill" ELSE AfterIsRevoked(r))

\* Mutant: the cache entry is filed under another id than the agent's.
IsRevokedCacheFillByRequest(r) ==
  /\ at[r] = "cacheFill"
  /\ cache' = cache \cup {r}
  /\ \E answer \in {"denied", "error"} : Goto(r, answer)
  /\ UNCHANGED <<database, input>>

\* Mutant: the lookup is started again instead of answered.
IsRevokedLookAgain(r) == Read(r, "cacheFill", "cacheGet")

\* The SET is the last call here too, and its own answer can be lost.
IsRevokedCacheFill(r) ==
  /\ at[r] = "cacheFill"
  /\ cache' = cache \cup {subject[r]}
  /\ \E answer \in {"denied", "error"} : Goto(r, answer)
  /\ UNCHANGED <<database, input>>

\* Mutant: the row has to exist, whatever its status.
VerifyReadAgentAnyStatus(r) ==
  Read(r, "readAgent", IF status[subject[r]] # "none" THEN "claimNonce" ELSE "denied")

\* Only POST /verify looks at the agent's own status.
VerifyReadAgent(r) ==
  Read(r, "readAgent", IF status[subject[r]] = "active" THEN "claimNonce" ELSE "denied")

\* The timestamp's window and the nonce (ReplayGuard.tla): either answer.
VerifyClaimNonce(r) == \E next \in {"readKey", "denied"} : Read(r, "claimNonce", next)

ReadKey(r) ==
  Read(r, "readKey", IF subject[r] \in keyed THEN "authenticate" ELSE "denied")

\* The token's signature, protocol version and claims: either answer.  The
\* handshake asks nothing more, and its answer is the session proposal.
AfterAuthenticate(r) == IF op[r] = "verify" THEN "readManifest" ELSE "ok"

Authenticate(r) ==
  \E next \in {AfterAuthenticate(r), "denied"} : Read(r, "authenticate", next)

\* The manifest has to exist; what evaluateScope says of it: either answer.
VerifyReadManifest(r) ==
  \E next \in {"auditVerify", "denied"} :
     /\ Read(r, "readManifest", next)
     /\ next = "auditVerify" => capability[subject[r]] # None

VerifyAudit(r) == Audit(r, "auditVerify")

\* Over the rate limit (enforceRateLimit): denied before anything is read.
RateLimited(r) == Read(r, "cacheGet", "denied")

-----------------------------------------------------------------------------
\* An awaited call rejects, or the process dies: the handler goes no further,
\* what it wrote stays, and the client sees a 500 or no answer.
Abort(r) ==
  /\ at[r] \in Running
  /\ Goto(r, "error")
  /\ UNCHANGED <<database, cache, input>>

\* Redis restarts: the keys written since its last snapshot are gone, or all
\* of them if the container is new, for it is given no volume.
RedisRestart ==
  /\ \E kept \in SUBSET cache : kept # cache /\ cache' = kept
  /\ UNCHANGED <<database, at, input>>

Begin(r) ==
  \E a \in Agent :
    \/ \E o \in Org, m \in Manifest : RegisterBegin(r, a, o, m)
    \/ RevokeBegin(r, a)
    \/ \E m \in Manifest : CapabilitiesBegin(r, a, m)
    \/ \E o \in Check : CheckBegin(r, o, a)

RegisterStep(r) ==
  \/ RegisterInsertAgent(r) \/ RegisterInsertKey(r) \/ RegisterInsertCertificate(r)
  \/ RegisterInsertCapabilities(r) \/ RegisterAudit(r)

RevokeStep(r) ==
  RevokeMarkAgent(r) \/ RevokeListAgent(r) \/ RevokeCacheAgent(r) \/ RevokeAudit(r)

CheckStep(r) ==
  \/ RateLimited(r) \/ IsRevokedCacheGet(r) \/ IsRevokedListSelect(r) \/ IsRevokedCacheFill(r)
  \/ VerifyReadAgent(r) \/ VerifyClaimNonce(r) \/ ReadKey(r) \/ Authenticate(r)
  \/ VerifyReadManifest(r) \/ VerifyAudit(r)

Handle(r) == RegisterStep(r) \/ RevokeStep(r) \/ CapabilitiesUpsert(r) \/ CheckStep(r)

Next ==
  \/ \E o \in Org : CreateOrg(o)
  \/ \E r \in Request : Begin(r) \/ Handle(r) \/ Abort(r)
  \/ RedisRestart

Spec == Init /\ [][Next]_vars

\* A server goes on with a request as long as its stores answer or fail.
FairSpec == Spec /\ \A r \in Request : WF_vars(Handle(r))

-----------------------------------------------------------------------------
\* The two stores and the status column never run ahead of one another: the
\* cache knows only agents with a revocations row, and these only agents whose
\* row says revoked, whatever was interrupted or restarted.  isRevoked may
\* therefore answer from the cache alone.
CacheBacked ==
  /\ cache \subseteq revocations
  /\ \A a \in revocations : status[a] = "revoked"

\* Revocation binds every later request at every server: a verification that
\* arrived after the status was revoked is not accepted, nor is a handshake
\* that arrived after the revocations row was there, even if the revocation
\* itself was interrupted, or Redis lost the cache.
RevocationEnforced ==
  \A r \in Request : at[r] = "ok" =>
    /\ op[r] = "verify" => since[r] = "clear"
    /\ op[r] = "handshake" => since[r] # "listed"

\* A revocation that was answered with success is known to whoever arrives next: a
\* check of the same agent finds the row in the table from its first instant on, and
\* is therefore not accepted (RevocationEnforced), whichever server runs it.
AcknowledgedIsInForce ==
  [][\A q, r \in Request :
       /\ op[q] = "revoke" /\ at[q] = "ok"
       /\ at[r] = "idle" /\ at'[r] # "idle" /\ op'[r] \in Check /\ subject'[r] = subject[q]
       => since'[r] = "listed"]_vars

\* An audit row stands for its effects, all durable before the row is: and a
\* registration, revocation or verification is answered with success only
\* when its row is there.
AuditTrail ==
  /\ \A r \in audit :
       /\ op[r] = "register" => /\ status[subject[r]] # "none"
                                /\ subject[r] \in keyed
                                /\ certified[subject[r]] = manifestHash(manifest[r])
                                /\ capability[subject[r]] # None
       /\ op[r] = "revoke" => subject[r] \in revocations
       /\ op[r] = "verify" => subject[r] \in keyed /\ capability[subject[r]] # None
  /\ \A r \in Request :
       at[r] = "ok" /\ op[r] \in {"register", "revoke", "verify"} => r \in audit

\* A PUT of the agent's present manifest was sent, and may have reached the table:
\* one that ended in an error may have done so or not.
Replaced(a) ==
  \E r \in Request : /\ op[r] = "capabilities" /\ at[r] \in {"ok", "error"}
                     /\ subject[r] = a /\ manifest[r] = capability[a]

\* A certificate that does not hash the manifest of its agent, or an agent that has
\* a manifest and no certificate, has seen a PUT of that manifest: registrations by
\* themselves, also interrupted ones and several at once, never set the two apart.
HashFollowsManifest ==
  \A a \in Agent : capability[a] # None =>
    certified[a] = manifestHash(capability[a]) \/ Replaced(a)

\* Every request is answered.
Answered == \A r \in Request : at[r] # "idle" ~> at[r] \in Final

\* A revocation of a known agent that is not answered with an error takes hold
\* in the table that every server reads, also when an earlier one was
\* interrupted after the status was set.
RevocationTakesHold ==
  \A r \in Request :
    at[r] = "markAgent" /\ status[subject[r]] # "none"
      ~> \/ at[r] = "error"
         \/ r \in audit /\ subject[r] \in revocations

-----------------------------------------------------------------------------
\* How far request r has come as a request of kind o, in the terms of
\* Authority: it is open at the labels at which the standing is not settled.
Stage(o, open, r) ==
  IF op[r] # o THEN "none"
  ELSE IF at[r] \in open THEN "open"
  ELSE IF at[r] = "ok" THEN "accepted"
  ELSE IF at[r] \in Final THEN "closed"
  ELSE "permitted"

About(o) == [r \in Request |-> IF op[r] = o THEN subject[r] ELSE None]

VerifyOpen    == {"cacheGet", "listSelect", "cacheFill", "readAgent"}
HandshakeOpen == {"cacheGet", "listSelect", "cacheFill"}

VerifyAuthority ==
  INSTANCE Authority WITH
    Nobody <- None,
    standing <- [a \in Agent |-> IF status[a] = "none" THEN "unknown" ELSE status[a]],
    about <- About("verify"),
    verdict <- [r \in Request |-> Stage("verify", VerifyOpen, r)]

HandshakeAuthority ==
  INSTANCE Authority WITH
    Nobody <- None,
    standing <- [a \in Agent |-> IF a \in revocations THEN "revoked" ELSE "active"],
    about <- About("handshake"),
    verdict <- [r \in Request |-> Stage("handshake", HandshakeOpen, r)]

\* POST /verify accepts only agents that were active at one instant between
\* the request and its answer: the status column is the authority.
VerifyEnforcesStatus == VerifyAuthority!Spec

\* POST /handshake/verify does as much for the revocations table: every agent
\* is in good standing there until it is listed.
HandshakeEnforcesListing == HandshakeAuthority!Spec

-----------------------------------------------------------------------------
\* docs/security.md, "Revoked agents are rejected at verify and handshake".
HandshakeHonoursStatus ==
  \A r \in Request : at[r] = "ok" /\ op[r] = "handshake" => since[r] = "clear"
=============================================================================
