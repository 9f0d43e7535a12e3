--------------------------- MODULE RegistryProofs ---------------------------
(***************************************************************************)
(* Proofs about Registry for any number of agents, organizations,          *)
(* manifests and requests.                                                 *)
(*                                                                         *)
(* The tables only grow (Grows), so that what a handler found or wrote     *)
(* stays so while others run, and the inductive invariant IInv can say,    *)
(* label by label, what a request has established by then.  The one thing  *)
(* that does not only grow is the status column of an id that is being     *)
(* registered: Exclusive says that no other request is about that id.      *)
(*                                                                         *)
(* The third part proves that both checks implement Authority: POST        *)
(* /verify with the status column as the standing of an agent, POST        *)
(* /handshake/verify with the rows of the revocations table.  Both follow  *)
(* the same way: a step of one request moves the stage of that request     *)
(* alone (StageMoves), and the standing changes only in the calls that     *)
(* write it (StatusMoves, ListingMoves), which no check makes.             *)
(*                                                                         *)
(* At the end, how many calls a handler makes (Advances), what a           *)
(* revocation that was acknowledged is worth, and what parts a certificate *)
(* from its agent's manifest (Traced).                                     *)
(***************************************************************************)
EXTENDS Naturals, Registry, TLAPS

Shape(r) ==
  /\ at[r] = "idle" => op[r] = "none" /\ subject[r] = None /\ since[r] = "clear"
  /\ at[r] # "idle" => op[r] \in Op /\ subject[r] \in Agent
  /\ at[r] \in RegisterLabel => op[r] = "register"
  /\ at[r] \in RevokeLabel => op[r] = "revoke"
  /\ at[r] = "upsertCapabilities" => op[r] = "capabilities"
  /\ at[r] \in CheckLabel => op[r] \in Check
  /\ at[r] \in {"readAgent", "claimNonce", "readManifest", "auditVerify"} => op[r] = "verify"
  /\ op[r] = "register" => org[r] \in Org
  /\ op[r] \in {"register", "capabilities"} => manifest[r] \in Manifest

\* An id is registered by one request, and until its row is there by no other
\* request so much as named.
Exclusive(r) ==
  op[r] = "register" =>
    \A q \in Request \ {r} :
      subject[q] = subject[r] => op[q] # "register" /\ at[r] # "insertAgent"

Registering(r) ==
  op[r] = "register" =>
    /\ at[r] = "insertAgent" => status[subject[r]] = "none"
    /\ at[r] \in RegisterLabel \ {"insertAgent"} \/ r \in audit => status[subject[r]] # "none"
    /\ at[r] \in {"insertCertificate", "insertCapabilities", "auditRegister"} \/ r \in audit
         => subject[r] \in keyed
    /\ at[r] \in {"insertCapabilities", "auditRegister"} \/ r \in audit
         => certified[subject[r]] = manifestHash(manifest[r])
    /\ at[r] = "auditRegister" \/ r \in audit => capability[subject[r]] # None

Revoking(r) ==
  op[r] = "revoke" =>
    /\ at[r] = "listAgent" => status[subject[r]] \in {"none", "revoked"}
    /\ at[r] \in {"cacheAgent", "auditRevoke"} \/ r \in audit => subject[r] \in revocations

Checking(r) ==
  /\ at[r] = "cacheFill" => subject[r] \in revocations
  /\ since[r] = "marked" => status[subject[r]] = "revoked"
  /\ since[r] = "listed" => subject[r] \in revocations
  /\ op[r] = "verify" =>
       /\ at[r] \in {"claimNonce", "readKey", "authenticate", "readManifest", "auditVerify", "ok"}
            => since[r] = "clear"
       /\ at[r] \in {"authenticate", "readManifest", "auditVerify"} \/ r \in audit
            => subject[r] \in keyed
       /\ at[r] = "auditVerify" \/ r \in audit => capability[subject[r]] # None
  /\ op[r] = "handshake" /\ at[r] \in {"readKey", "authenticate", "ok"} => since[r] # "listed"

Answering(r) ==
  /\ r \in audit => at[r] \in {"ok", "error"}
  /\ at[r] = "ok" /\ op[r] \in {"register", "revoke", "verify"} => r \in audit

\* What a request has established; Exclusive relates it to the others.
Established(r) == Shape(r) /\ Registering(r) /\ Revoking(r) /\ Checking(r) /\ Answering(r)

\* The inductive invariant.
IInv ==
  /\ TypeOK
  /\ CacheBacked
  /\ \A r \in Request : Established(r) /\ Exclusive(r)

\* What the database holds of an agent is never taken back.
Grows ==
  /\ keyed \subseteq keyed'
  /\ revocations \subseteq revocations'
  /\ \A a \in Agent : /\ status[a] # "none" => status'[a] # "none"
                      /\ status[a] = "revoked" => status'[a] = "revoked"
                      /\ capability[a] # None => capability'[a] # None

\* The step of request r leaves alone what the other requests rely on.
Spares(r) ==
  /\ Grows
  /\ \A q \in Request \ {r} :
       /\ at'[q] = at[q]
       /\ q \in audit' <=> q \in audit
       /\ op[q] = "register" => certified'[subject[q]] = certified[subject[q]]
       /\ at[q] = "insertAgent" => status'[subject[q]] = "none"
       /\ at[q] = "listAgent" => status'[subject[q]] \in {"none", "revoked"}

\* Whatever request r does that spares the others, they keep what they have.
LEMMA OthersKeep ==
  ASSUME IInv, NEW r \in Request, Spares(r), TypeOK',
         NEW q \in Request \ {r},
         op'[q] = op[q], subject'[q] = subject[q], org'[q] = org[q],
         manifest'[q] = manifest[q], since'[q] = since[q]
  PROVE  Established(q)'
<1>. /\ Established(q) /\ TypeOK
     /\ at[q] # "idle" => subject[q] \in Agent
  BY DEF IInv, Established, Shape
<1>1. Shape(q)'
  BY DEF Established, Shape, Spares
<1>2. Registering(q)'
  <2>. SUFFICES ASSUME op[q] = "register" PROVE Registering(q)'
    BY DEF Registering
  <2>1. subject[q] \in Agent
    BY DEF Established, Shape
  <2>2. Registering(q)
    BY DEF Established
  <2>3. /\ status[subject[q]] # "none" => status'[subject[q]] # "none"
        /\ subject[q] \in keyed => subject[q] \in keyed'
        /\ capability[subject[q]] # None => capability'[subject[q]] # None
        /\ certified'[subject[q]] = certified[subject[q]]
        /\ at[q] = "insertAgent" => status'[subject[q]] = "none"
        /\ at'[q] = at[q] /\ (q \in audit' <=> q \in audit)
    BY <2>1 DEF Spares, Grows
  <2>. QED
    BY <2>2, <2>3 DEF Registering, manifestHash
<1>3. Revoking(q)'
  BY DEF Established, Shape, Revoking, Spares, Grows
<1>4. Checking(q)'
  BY DEF Established, Shape, Checking, Spares, Grows, TypeOK
<1>5. Answering(q)'
  BY DEF Established, Answering, Spares
<1>. QED
  BY <1>1, <1>2, <1>3, <1>4, <1>5 DEF Established

\* A step of a request that has arrived before.
LEMMA StepKeeps ==
  ASSUME IInv, NEW r \in Request, Spares(r), TypeOK', CacheBacked', Established(r)',
         UNCHANGED input, at'[r] # "insertAgent"
  PROVE  IInv'
<1>1. ASSUME NEW q \in Request PROVE Established(q)'
  BY <1>1, OthersKeep DEF input
<1>2. ASSUME NEW q \in Request PROVE Exclusive(q)'
  BY <1>2 DEF IInv, Exclusive, Spares, input
<1>. QED
  BY <1>1, <1>2 DEF IInv

\* A step that reads and decides where request r goes on.
LEMMA ReadKeeps ==
  ASSUME IInv, NEW r \in Request, NEW label \in Running, NEW next \in Running \cup Final,
         Read(r, label, next), Established(r)', next # "insertAgent"
  PROVE  IInv'
<1>1. TypeOK'
  BY DEF IInv, TypeOK, Read, Goto, database, input
<1>2. CacheBacked'
  BY DEF IInv, CacheBacked, Read, database
<1>3. Spares(r)
  BY DEF IInv, Spares, Grows, Read, Goto, database, input, Established, Shape,
         Registering, Revoking, RegisterLabel, RevokeLabel, TypeOK
<1>. QED
  BY <1>1, <1>2, <1>3, StepKeeps DEF Read, Goto, IInv, TypeOK

\* What the other requests rely on while they wait for their INSERT.
LEMMA Waiting ==
  ASSUME IInv, NEW q \in Request
  PROVE  /\ op[q] = "register" =>
              /\ subject[q] \in Agent
              /\ \A p \in Request \ {q} : subject[p] = subject[q] => op[p] # "register"
         /\ at[q] = "insertAgent" =>
              /\ subject[q] \in Agent /\ status[subject[q]] = "none"
              /\ \A p \in Request \ {q} : subject[p] # subject[q]
         /\ at[q] = "listAgent" =>
              subject[q] \in Agent /\ status[subject[q]] \in {"none", "revoked"}
<1>. Established(q) /\ Exclusive(q)
  BY DEF IInv
<1>. QED
  BY DEF Established, Shape, Exclusive, Registering, Revoking, RegisterLabel, RevokeLabel

\* POST /agents/register, one step per call.
LEMMA RegisterKeeps ==
  ASSUME IInv, NEW r \in Request, RegisterStep(r)
  PROVE  IInv'
<1>0. /\ TypeOK /\ CacheBacked
      /\ op[r] = "register" /\ subject[r] \in Agent /\ manifest[r] \in Manifest
      /\ Established(r)
      /\ \A q \in Request : Exclusive(q)
  BY DEF IInv, Established, Shape, RegisterStep, RegisterInsertAgent, RegisterInsertKey,
         RegisterInsertCertificate, RegisterInsertCapabilities, RegisterAudit, Audit,
         RegisterLabel
<1>1. CASE RegisterInsertAgent(r)
  <2>1. TypeOK'
    BY <1>1, <1>0 DEF RegisterInsertAgent, TypeOK, Goto, database, input, Running, Final,
           RegisterLabel, Hash, Shape, Established
  <2>2. CacheBacked'
    BY <1>1, <1>0 DEF RegisterInsertAgent, CacheBacked, TypeOK, database, input,
           Established, Registering
  <2>3. Spares(r)
    BY <1>1, <1>0, Waiting DEF RegisterInsertAgent, Spares, Grows, Goto, TypeOK, database,
           input
  <2>4. Established(r)'
    BY <1>1, <1>0 DEF RegisterInsertAgent, Established, Shape, Registering, Revoking,
           Checking, Answering, Goto, TypeOK, database, input, RegisterLabel, RevokeLabel,
           CheckLabel, manifestHash, Check, Op
  <2>. QED
    BY <1>1, <2>1, <2>2, <2>3, <2>4, StepKeeps DEF RegisterInsertAgent, Goto, TypeOK,
           database, input, IInv
<1>2. CASE RegisterInsertKey(r)
  <2>1. TypeOK'
    BY <1>2, <1>0 DEF RegisterInsertKey, TypeOK, Goto, database, input, Running, Final,
           RegisterLabel, Hash, Shape, Established
  <2>2. CacheBacked'
    BY <1>2, <1>0 DEF RegisterInsertKey, CacheBacked, TypeOK, database, input, Established,
           Registering
  <2>3. Spares(r)
    BY <1>2, <1>0, Waiting DEF RegisterInsertKey, Spares, Grows, Goto, TypeOK, database,
           input
  <2>4. Established(r)'
    BY <1>2, <1>0 DEF RegisterInsertKey, Established, Shape, Registering, Revoking,
           Checking, Answering, Goto, TypeOK, database, input, RegisterLabel, RevokeLabel,
           CheckLabel, manifestHash, Check, Op
  <2>. QED
    BY <1>2, <2>1, <2>2, <2>3, <2>4, StepKeeps DEF RegisterInsertKey, Goto, TypeOK,
           database, input, IInv
<1>3. CASE RegisterInsertCertificate(r)
  <2>1. TypeOK'
    BY <1>3, <1>0 DEF RegisterInsertCertificate, TypeOK, Goto, database, input, Running,
           Final, RegisterLabel, Hash, Shape, Established
  <2>2. CacheBacked'
    BY <1>3, <1>0 DEF RegisterInsertCertificate, CacheBacked, TypeOK, database, input,
           Established, Registering
  <2>3. Spares(r)
    BY <1>3, <1>0, Waiting DEF RegisterInsertCertificate, Spares, Grows, Goto, TypeOK,
           database, input
  <2>4. Established(r)'
    BY <1>3, <1>0 DEF RegisterInsertCertificate, Established, Shape, Registering, Revoking,
           Checking, Answering, Goto, TypeOK, database, input, RegisterLabel, RevokeLabel,
           CheckLabel, manifestHash, Check, Op
  <2>. QED
    BY <1>3, <2>1, <2>2, <2>3, <2>4, StepKeeps DEF RegisterInsertCertificate, Goto, TypeOK,
           database, input, IInv
<1>4. CASE RegisterInsertCapabilities(r)
  <2>1. TypeOK'
    BY <1>4, <1>0 DEF RegisterInsertCapabilities, TypeOK, Goto, database, input, Running,
           Final, RegisterLabel, Hash, Shape, Established
  <2>2. CacheBacked'
    BY <1>4, <1>0 DEF RegisterInsertCapabilities, CacheBacked, TypeOK, database, input,
           Established, Registering
  <2>3. Spares(r)
    BY <1>4, <1>0, Waiting, NoneAssumption DEF RegisterInsertCapabilities, Spares, Grows,
           Goto, TypeOK, database, input
  <2>4. Established(r)'
    BY <1>4, <1>0, NoneAssumption DEF RegisterInsertCapabilities, Established, Shape,
           Registering, Revoking, Checking, Answering, Goto, TypeOK, database, input,
           RegisterLabel, RevokeLabel, CheckLabel, manifestHash, Check, Op
  <2>. QED
    BY <1>4, <2>1, <2>2, <2>3, <2>4, StepKeeps DEF RegisterInsertCapabilities, Goto,
           TypeOK, database, input, IInv
<1>5. CASE RegisterAudit(r)
  <2>1. TypeOK'
    BY <1>5, <1>0 DEF RegisterAudit, TypeOK, Goto, database, input, Running, Final,
           RegisterLabel, Hash, Shape, Established, Audit
  <2>2. CacheBacked'
    BY <1>5, <1>0 DEF RegisterAudit, CacheBacked, TypeOK, database, input, Established,
           Registering, Audit
  <2>3. Spares(r)
    BY <1>5, <1>0, Waiting DEF RegisterAudit, Spares, Grows, Goto, TypeOK, database, input,
           Audit
  <2>4. Established(r)'
    BY <1>5, <1>0 DEF RegisterAudit, Established, Shape, Registering, Revoking, Checking,
           Answering, Goto, TypeOK, database, input, RegisterLabel, RevokeLabel,
           CheckLabel, manifestHash, Check, Op, Audit
  <2>. QED
    BY <1>5, <2>1, <2>2, <2>3, <2>4, StepKeeps DEF RegisterAudit, Goto, TypeOK, database,
           input, IInv, Audit
<1>. QED
  BY <1>1, <1>2, <1>3, <1>4, <1>5 DEF RegisterStep

\* POST /agents/:agentId/revoke, one step per call.
LEMMA RevokeKeeps ==
  ASSUME IInv, NEW r \in Request, RevokeStep(r)
  PROVE  IInv'
<1>0. /\ TypeOK /\ CacheBacked
      /\ op[r] = "revoke" /\ subject[r] \in Agent
      /\ Established(r)
      /\ \A q \in Request : Exclusive(q)
  BY DEF IInv, Established, Shape, RevokeStep, RevokeMarkAgent, RevokeListAgent,
         RevokeCacheAgent, RevokeAudit, Audit, RevokeLabel
<1>1. CASE RevokeMarkAgent(r)
  <2>1. TypeOK'
    BY <1>1, <1>0 DEF RevokeMarkAgent, TypeOK, Goto, database, input, Running, Final,
           RevokeLabel, Hash, Shape, Established
  <2>2. CacheBacked'
    BY <1>1, <1>0 DEF RevokeMarkAgent, CacheBacked, TypeOK, database, input, Established,
           Revoking
  <2>3. Spares(r)
    BY <1>1, <1>0, Waiting DEF RevokeMarkAgent, Spares, Grows, Goto, TypeOK, database, input
  <2>4. Established(r)'
    BY <1>1, <1>0 DEF RevokeMarkAgent, Established, Shape, Registering, Revoking, Checking,
           Answering, Goto, TypeOK, database, input, RegisterLabel, RevokeLabel,
           CheckLabel, manifestHash, Check, Op
  <2>. QED
    BY <1>1, <2>1, <2>2, <2>3, <2>4, StepKeeps DEF RevokeMarkAgent, Goto, TypeOK, database,
           input, IInv
<1>2. CASE RevokeListAgent(r)
  <2>1. TypeOK'
    BY <1>2, <1>0 DEF RevokeListAgent, TypeOK, Goto, database, input, Running, Final,
           RevokeLabel, Hash, Shape, Established
  <2>2. CacheBacked'
    BY <1>2, <1>0 DEF RevokeListAgent, CacheBacked, TypeOK, database, input, Established,
           Revoking
  <2>3. Spares(r)
    BY <1>2, <1>0, Waiting DEF RevokeListAgent, Spares, Grows, Goto, TypeOK, database, input
  <2>4. Established(r)'
    BY <1>2, <1>0 DEF RevokeListAgent, Established, Shape, Registering, Revoking, Checking,
           Answering, Goto, TypeOK, database, input, RegisterLabel, RevokeLabel,
           CheckLabel, manifestHash, Check, Op
  <2>. QED
    BY <1>2, <2>1, <2>2, <2>3, <2>4, StepKeeps DEF RevokeListAgent, Goto, TypeOK, database,
           input, IInv
<1>3. CASE RevokeCacheAgent(r)
  <2>1. TypeOK'
    BY <1>3, <1>0 DEF RevokeCacheAgent, TypeOK, Goto, database, input, Running, Final,
           RevokeLabel, Hash, Shape, Established
  <2>2. CacheBacked'
    BY <1>3, <1>0 DEF RevokeCacheAgent, CacheBacked, TypeOK, database, input, Established,
           Revoking
  <2>3. Spares(r)
    BY <1>3, <1>0, Waiting DEF RevokeCacheAgent, Spares, Grows, Goto, TypeOK, database,
           input
  <2>4. Established(r)'
    BY <1>3, <1>0 DEF RevokeCacheAgent, Established, Shape, Registering, Revoking,
           Checking, Answering, Goto, TypeOK, database, input, RegisterLabel, RevokeLabel,
           CheckLabel, manifestHash, Check, Op
  <2>. QED
    BY <1>3, <2>1, <2>2, <2>3, <2>4, StepKeeps DEF RevokeCacheAgent, Goto, TypeOK,
           database, input, IInv
<1>4. CASE RevokeAudit(r)
  <2>1. TypeOK'
    BY <1>4, <1>0 DEF RevokeAudit, TypeOK, Goto, database, input, Running, Final,
           RevokeLabel, Hash, Shape, Established, Audit
  <2>2. CacheBacked'
    BY <1>4, <1>0 DEF RevokeAudit, CacheBacked, TypeOK, database, input, Established,
           Revoking, Audit
  <2>3. Spares(r)
    BY <1>4, <1>0, Waiting DEF RevokeAudit, Spares, Grows, Goto, TypeOK, database, input,
           Audit
  <2>4. Established(r)'
    BY <1>4, <1>0 DEF RevokeAudit, Established, Shape, Registering, Revoking, Checking,
           Answering, Goto, TypeOK, database, input, RegisterLabel, RevokeLabel,
           CheckLabel, manifestHash, Check, Op, Audit
  <2>. QED
    BY <1>4, <2>1, <2>2, <2>3, <2>4, StepKeeps DEF RevokeAudit, Goto, TypeOK, database,
           input, IInv, Audit
<1>. QED
  BY <1>1, <1>2, <1>3, <1>4 DEF RevokeStep

\* PUT /agents/:agentId/capabilities, its one call.
LEMMA CapabilitiesKeeps ==
  ASSUME IInv, NEW r \in Request, CapabilitiesUpsert(r)
  PROVE  IInv'
<1>0. /\ TypeOK /\ CacheBacked
      /\ op[r] = "capabilities" /\ subject[r] \in Agent /\ manifest[r] \in Manifest
      /\ Established(r)
  BY DEF IInv, Established, Shape, CapabilitiesUpsert
<1>1. TypeOK'
  BY <1>0 DEF CapabilitiesUpsert, TypeOK, Goto, input, Final
<1>2. CacheBacked'
  BY <1>0 DEF CapabilitiesUpsert, CacheBacked, TypeOK, input
<1>3. Spares(r)
  BY <1>0, Waiting, NoneAssumption DEF CapabilitiesUpsert, Spares, Grows, Goto, TypeOK,
         input
<1>4. Established(r)'
  BY <1>0 DEF CapabilitiesUpsert, Established, Shape, Registering, Revoking, Checking,
         Answering, Goto, TypeOK, input, RegisterLabel, RevokeLabel, CheckLabel,
         manifestHash, Check, Op
<1>. QED
  BY <1>1, <1>2, <1>3, <1>4, StepKeeps DEF CapabilitiesUpsert, Goto, TypeOK, input, IInv

\* POST /verify and POST /handshake/verify, one step per call.
LEMMA CheckKeeps ==
  ASSUME IInv, NEW r \in Request, CheckStep(r)
  PROVE  IInv'
<1>0. /\ TypeOK /\ CacheBacked
      /\ Established(r)
      /\ at[r] \in CheckLabel
      /\ op[r] \in Check /\ subject[r] \in Agent
  BY DEF IInv, Established, Shape, CheckStep, RateLimited, IsRevokedCacheGet,
         IsRevokedListSelect,
         IsRevokedCacheFill, VerifyReadAgent, VerifyClaimNonce, ReadKey, Authenticate,
         VerifyReadManifest, VerifyAudit, Audit, Read, CheckLabel
<1>1. CASE RateLimited(r)
  <2>1. PICK next \in {"denied"} : Read(r, "cacheGet", next)
    BY <1>1, <1>0 DEF RateLimited, Check
  <2>2. Established(r)'
    BY <1>1, <2>1, <1>0 DEF RateLimited, Read, Established, Shape, Registering, Revoking,
           Checking, Answering, Goto, TypeOK,
       database, input, RegisterLabel, RevokeLabel, CheckLabel, Check, Op
  <2>. QED
    BY <2>1, <2>2, ReadKeeps DEF Running, Final, CheckLabel
<1>2. CASE IsRevokedCacheGet(r)
  <2>1. PICK next \in {"denied", "listSelect"} : Read(r, "cacheGet", next)
    BY <1>2, <1>0 DEF IsRevokedCacheGet, Check
  <2>2. Established(r)'
    BY <1>2, <2>1, <1>0 DEF IsRevokedCacheGet, Read, Established, Shape, Registering,
           Revoking, Checking, Answering, Goto, TypeOK,
       database, input, RegisterLabel, RevokeLabel, CheckLabel, Check, Op
  <2>. QED
    BY <2>1, <2>2, ReadKeeps DEF Running, Final, CheckLabel
<1>3. CASE IsRevokedListSelect(r)
  <2>1. PICK next \in {"cacheFill", "readAgent", "readKey"} : Read(r, "listSelect", next)
    BY <1>3, <1>0 DEF IsRevokedListSelect, AfterIsRevoked, Check
  <2>2. Established(r)'
    BY <1>3, <2>1, <1>0 DEF IsRevokedListSelect, Read, AfterIsRevoked, Established, Shape,
           Registering, Revoking, Checking, Answering, Goto, TypeOK,
       database, input, RegisterLabel, RevokeLabel, CheckLabel, Check, Op
  <2>. QED
    BY <2>1, <2>2, ReadKeeps DEF Running, Final, CheckLabel
<1>4. CASE VerifyReadAgent(r)
  <2>1. PICK next \in {"claimNonce", "denied"} : Read(r, "readAgent", next)
    BY <1>4, <1>0 DEF VerifyReadAgent, Check
  <2>2. Established(r)'
    BY <1>4, <2>1, <1>0 DEF VerifyReadAgent, Read, CacheBacked, Established, Shape,
           Registering, Revoking, Checking, Answering, Goto, TypeOK,
       database, input, RegisterLabel, RevokeLabel, CheckLabel, Check, Op
  <2>. QED
    BY <2>1, <2>2, ReadKeeps DEF Running, Final, CheckLabel
<1>5. CASE VerifyClaimNonce(r)
  <2>1. PICK next \in {"readKey", "denied"} : Read(r, "claimNonce", next)
    BY <1>5, <1>0 DEF VerifyClaimNonce, Check
  <2>2. Established(r)'
    BY <1>5, <2>1, <1>0 DEF VerifyClaimNonce, Read, Established, Shape, Registering,
           Revoking, Checking, Answering, Goto, TypeOK,
       database, input, RegisterLabel, RevokeLabel, CheckLabel, Check, Op
  <2>. QED
    BY <2>1, <2>2, ReadKeeps DEF Running, Final, CheckLabel
<1>6. CASE ReadKey(r)
  <2>1. PICK next \in {"authenticate", "denied"} : Read(r, "readKey", next)
    BY <1>6, <1>0 DEF ReadKey, Check
  <2>2. Established(r)'
    BY <1>6, <2>1, <1>0 DEF ReadKey, Read, Established, Shape, Registering, Revoking,
           Checking, Answering, Goto, TypeOK,
       database, input, RegisterLabel, RevokeLabel, CheckLabel, Check, Op
  <2>. QED
    BY <2>1, <2>2, ReadKeeps DEF Running, Final, CheckLabel
<1>7. CASE Authenticate(r)
  <2>1. PICK next \in {"readManifest", "ok", "denied"} : Read(r, "authenticate", next)
    BY <1>7, <1>0 DEF Authenticate, AfterAuthenticate, Check
  <2>2. Established(r)'
    BY <1>7, <2>1, <1>0 DEF Authenticate, Read, AfterAuthenticate, Established, Shape,
           Registering, Revoking, Checking, Answering, Goto, TypeOK,
       database, input, RegisterLabel, RevokeLabel, CheckLabel, Check, Op
  <2>. QED
    BY <2>1, <2>2, ReadKeeps DEF Running, Final, CheckLabel
<1>8. CASE VerifyReadManifest(r)
  <2>1. PICK next \in {"auditVerify", "denied"} : Read(r, "readManifest", next)
    BY <1>8, <1>0 DEF VerifyReadManifest, Check
  <2>2. Established(r)'
    BY <1>8, <2>1, <1>0 DEF VerifyReadManifest, Read, Established, Shape, Registering,
           Revoking, Checking, Answering, Goto, TypeOK,
       database, input, RegisterLabel, RevokeLabel, CheckLabel, Check, Op
  <2>. QED
    BY <2>1, <2>2, ReadKeeps DEF Running, Final, CheckLabel
<1>9. CASE IsRevokedCacheFill(r)
  <2>1. TypeOK'
    BY <1>9, <1>0 DEF IsRevokedCacheFill, TypeOK, Goto, database, input, Final
  <2>2. CacheBacked'
    BY <1>9, <1>0 DEF IsRevokedCacheFill, CacheBacked, TypeOK, database, input,
           Established, Checking
  <2>3. Spares(r)
    BY <1>9, <1>0, Waiting DEF IsRevokedCacheFill, Spares, Grows, Goto, TypeOK, database,
           input
  <2>4. Established(r)'
    BY <1>9, <1>0 DEF IsRevokedCacheFill, Established, Shape, Registering, Revoking,
           Checking, Answering, Goto, TypeOK,
       database, input, RegisterLabel, RevokeLabel, CheckLabel, Check, Op
  <2>. QED
    BY <1>9, <2>1, <2>2, <2>3, <2>4, StepKeeps DEF IsRevokedCacheFill, Goto, TypeOK,
           database, input, IInv
<1>10. CASE VerifyAudit(r)
  <2>1. TypeOK'
    BY <1>10, <1>0 DEF VerifyAudit, Audit, TypeOK, Goto, input, Final
  <2>2. CacheBacked'
    BY <1>10, <1>0 DEF VerifyAudit, Audit, CacheBacked, TypeOK, input
  <2>3. Spares(r)
    BY <1>10, <1>0, Waiting DEF VerifyAudit, Audit, Spares, Grows, Goto, TypeOK, input
  <2>4. Established(r)'
    BY <1>10, <1>0 DEF VerifyAudit, Audit, Established, Shape, Registering, Revoking,
           Checking, Answering, Goto, TypeOK,
       input, RegisterLabel, RevokeLabel, CheckLabel, Check, Op
  <2>. QED
    BY <1>10, <2>1, <2>2, <2>3, <2>4, StepKeeps DEF VerifyAudit, Audit, Goto, TypeOK,
           input, IInv
<1>. QED
  BY <1>1, <1>2, <1>3, <1>4, <1>5, <1>6, <1>7, <1>8, <1>9, <1>10 DEF CheckStep

\* A handler that stops where it is.
LEMMA AbortKeeps ==
  ASSUME IInv, NEW r \in Request, Abort(r)
  PROVE  IInv'
<1>1. Read(r, at[r], "error") /\ at[r] \in Running
  BY DEF Abort, Read
<1>2. Established(r)'
  BY DEF Abort, IInv, Established, Shape, Registering, Revoking, Checking, Answering, Goto,
         TypeOK,
     database, input, Running, RegisterLabel, RevokeLabel, CheckLabel, manifestHash
<1>. QED
  BY <1>1, <1>2, ReadKeeps DEF Final

\* A request that arrives, whatever it asks for.
LEMMA ArriveKeeps ==
  ASSUME IInv, NEW r \in Request, NEW o \in Op, NEW a \in Agent,
         NEW first \in {"insertAgent", "markAgent", "upsertCapabilities", "cacheGet"},
         Arrive(r, o, a, first), Addressable(a),
         o = "register" => FreshId(a) /\ org'[r] \in Org,
         o \in {"register", "capabilities"} => manifest'[r] \in Manifest,
         first = "insertAgent" => o = "register",
         first = "markAgent" => o = "revoke",
         first = "upsertCapabilities" => o = "capabilities",
         first = "cacheGet" => o \in Check,
         NEW o2 \in Org \cup {None}, NEW m2 \in Manifest \cup {None},
         org' = [org EXCEPT ![r] = o2], manifest' = [manifest EXCEPT ![r] = m2]
  PROVE  IInv'
<1>0. /\ TypeOK /\ CacheBacked
      /\ Established(r)
      /\ at[r] = "idle"
  BY DEF IInv, Arrive
<1>1. TypeOK'
  BY <1>0 DEF Arrive, TypeOK, Goto, database, Durable, Running, RegisterLabel, RevokeLabel,
         CheckLabel
<1>2. CacheBacked'
  BY <1>0 DEF Arrive, CacheBacked, database
<1>3. Spares(r)
  BY <1>0, Waiting DEF Arrive, Spares, Grows, Goto, TypeOK, database
<1>4. ASSUME NEW q \in Request PROVE Established(q)'
  <2>1. CASE q # r
    BY <2>1, <1>0, <1>1, <1>3, OthersKeep DEF Arrive, TypeOK
  <2>2. CASE q = r
    <3>1. /\ at'[r] = first /\ op'[r] = o /\ subject'[r] = a /\ since'[r] = Durable(a)
          /\ r \notin audit'
          /\ UNCHANGED <<status, revocations>>
      BY <1>0 DEF Arrive, TypeOK, Goto, database, Established, Answering
    <3>2. Shape(r)'
      BY <3>1 DEF Shape, RegisterLabel, RevokeLabel, CheckLabel, Check
    <3>3. Registering(r)' /\ Revoking(r)' /\ Answering(r)'
      BY <3>1 DEF Registering, Revoking, Answering, RegisterLabel, FreshId
    <3>4. Checking(r)'
      BY <3>1, <1>0 DEF Checking, Durable, CacheBacked
    <3>. QED
      BY <2>2, <3>2, <3>3, <3>4 DEF Established
  <2>. QED
    BY <2>1, <2>2
<1>5. ASSUME NEW q \in Request PROVE Exclusive(q)'
  <2>1. /\ op' = [op EXCEPT ![r] = o]
        /\ subject' = [subject EXCEPT ![r] = a]
        /\ at' = [at EXCEPT ![r] = first]
    BY DEF Arrive, Goto
  <2>2. op[q] = "register" /\ subject[q] = a => at[q] # "insertAgent"
    BY DEF Addressable, RegisterLabel
  <2>3. Exclusive(q)
    BY DEF IInv
  <2>. QED
    BY <1>0, <2>1, <2>2, <2>3 DEF Exclusive, FreshId, TypeOK
<1>. QED
  BY <1>1, <1>2, <1>4, <1>5 DEF IInv

LEMMA BeginKeeps ==
  ASSUME IInv, NEW r \in Request, Begin(r)
  PROVE  IInv'
<1>0. TypeOK
  BY DEF IInv
<1>. PICK a \in Agent :
       \/ \E o \in Org, m \in Manifest : RegisterBegin(r, a, o, m)
       \/ RevokeBegin(r, a)
       \/ \E m \in Manifest : CapabilitiesBegin(r, a, m)
       \/ \E o \in Check : CheckBegin(r, o, a)
  BY DEF Begin
<1>1. CASE \E o \in Org, m \in Manifest : RegisterBegin(r, a, o, m)
  <2>. PICK o \in Org, m \in Manifest : RegisterBegin(r, a, o, m)
    BY <1>1
  <2>1. /\ Arrive(r, "register", a, "insertAgent") /\ Addressable(a) /\ FreshId(a)
        /\ org' = [org EXCEPT ![r] = o] /\ manifest' = [manifest EXCEPT ![r] = m]
        /\ org'[r] \in Org /\ manifest'[r] \in Manifest
    BY <1>0 DEF RegisterBegin, Addressable, FreshId, TypeOK
  <2>. QED
    BY <2>1, ArriveKeeps DEF Op
<1>2. CASE RevokeBegin(r, a)
  <2>1. /\ Arrive(r, "revoke", a, "markAgent") /\ Addressable(a)
        /\ org' = [org EXCEPT ![r] = org[r]] /\ manifest' = [manifest EXCEPT ![r] = manifest[r]]
        /\ org[r] \in Org \cup {None} /\ manifest[r] \in Manifest \cup {None}
    BY <1>0, <1>2 DEF RevokeBegin, TypeOK
  <2>. QED
    BY <2>1, ArriveKeeps DEF Op
<1>3. CASE \E m \in Manifest : CapabilitiesBegin(r, a, m)
  <2>. PICK m \in Manifest : CapabilitiesBegin(r, a, m)
    BY <1>3
  <2>1. /\ Arrive(r, "capabilities", a, "upsertCapabilities") /\ Addressable(a)
        /\ org' = [org EXCEPT ![r] = org[r]] /\ manifest' = [manifest EXCEPT ![r] = m]
        /\ org[r] \in Org \cup {None} /\ manifest'[r] \in Manifest
    BY <1>0 DEF CapabilitiesBegin, TypeOK
  <2>. QED
    BY <2>1, ArriveKeeps DEF Op
<1>4. CASE \E o \in Check : CheckBegin(r, o, a)
  <2>. PICK o \in Check : CheckBegin(r, o, a)
    BY <1>4
  <2>1. /\ Arrive(r, o, a, "cacheGet") /\ Addressable(a)
        /\ org' = [org EXCEPT ![r] = org[r]] /\ manifest' = [manifest EXCEPT ![r] = manifest[r]]
        /\ org[r] \in Org \cup {None} /\ manifest[r] \in Manifest \cup {None}
    BY <1>0 DEF CheckBegin, TypeOK
  <2>. QED
    BY <2>1, ArriveKeeps DEF Op, Check
<1>. QED
  BY <1>1, <1>2, <1>3, <1>4

\* A step that is no request's.
LEMMA EnvironmentKeeps ==
  ASSUME IInv, TypeOK', CacheBacked',
         UNCHANGED <<status, keyed, certified, capability, revocations, audit, at, input>>
  PROVE  IInv'
<1>1. ASSUME NEW r \in Request PROVE Established(r)' /\ Exclusive(r)'
  BY <1>1 DEF IInv, Established, Shape, Registering, Revoking, Checking, Answering,
         Exclusive, input, manifestHash
<1>. QED
  BY <1>1 DEF IInv

-----------------------------------------------------------------------------
LEMMA InitIInv == Init => IInv
<1>. SUFFICES ASSUME Init PROVE IInv
  OBVIOUS
<1>1. TypeOK
  BY EnrolledAssumption DEF Init, TypeOK, Hash, manifestHash
<1>2. CacheBacked
  BY DEF Init, CacheBacked
<1>3. ASSUME NEW r \in Request PROVE Established(r) /\ Exclusive(r)
  BY <1>3 DEF Init, Established, Shape, Registering, Revoking, Checking, Answering,
         Exclusive, RegisterLabel, RevokeLabel, CheckLabel, Check
<1>. QED
  BY <1>1, <1>2, <1>3 DEF IInv

LEMMA NextIInv == IInv /\ [Next]_vars => IInv'
<1>. SUFFICES ASSUME IInv, [Next]_vars PROVE IInv'
  OBVIOUS
<1>0. TypeOK /\ CacheBacked
  BY DEF IInv
<1>1. CASE \E o \in Org : CreateOrg(o)
  <2>1. TypeOK' /\ CacheBacked'
    BY <1>0, <1>1 DEF CreateOrg, TypeOK, CacheBacked, input
  <2>. QED
    BY <1>1, <2>1, EnvironmentKeeps DEF CreateOrg
<1>2. CASE \E r \in Request : Begin(r) \/ Handle(r) \/ Abort(r)
  BY <1>2, BeginKeeps, RegisterKeeps, RevokeKeeps, CapabilitiesKeeps, CheckKeeps,
     AbortKeeps DEF Handle
<1>3. CASE RedisRestart
  <2>1. TypeOK' /\ CacheBacked'
    BY <1>0, <1>3 DEF RedisRestart, TypeOK, CacheBacked, database, input
  <2>. QED
    BY <1>3, <2>1, EnvironmentKeeps DEF RedisRestart, database
<1>4. CASE UNCHANGED vars
  <2>1. TypeOK' /\ CacheBacked'
    BY <1>0, <1>4 DEF vars, TypeOK, CacheBacked, database, input
  <2>. QED
    BY <1>4, <2>1, EnvironmentKeeps DEF vars, database
<1>. QED
  BY <1>1, <1>2, <1>3, <1>4 DEF Next

LEMMA Inductive == Spec => []IInv
  BY InitIInv, NextIInv, PTL DEF Spec

\* Every variable keeps to its type: handlers write only the rows of the
\* agents they are about.
THEOREM TypeCorrect == Spec => []TypeOK
<1>1. IInv => TypeOK
  BY DEF IInv
<1>. QED
  BY <1>1, Inductive, PTL

\* The cache never knows a revocation the tables do not.
THEOREM CacheIsBacked == Spec => []CacheBacked
<1>1. IInv => CacheBacked
  BY DEF IInv
<1>. QED
  BY <1>1, Inductive, PTL

\* No verification is accepted that arrived after the agent was revoked, and
\* no handshake that arrived after it was listed.
THEOREM RevocationIsEnforced == Spec => []RevocationEnforced
<1>1. IInv => RevocationEnforced
  BY DEF IInv, Established, Checking, RevocationEnforced
<1>. QED
  BY <1>1, Inductive, PTL

\* The audit rows stand for durable effects, and no success goes without one.
THEOREM AuditIsTrue == Spec => []AuditTrail
<1>1. IInv => AuditTrail
  BY DEF IInv, Established, Registering, Revoking, Checking, Answering, AuditTrail, TypeOK
<1>. QED
  BY <1>1, Inductive, PTL

-----------------------------------------------------------------------------
(* The refinements *)

Stages(o, open) == [r \in Request |-> Stage(o, open, r)]

\* A step of request r, which has arrived before, seen from kind o.
LEMMA StageMoves ==
  ASSUME TypeOK, NEW o, NEW open, NEW r \in Request, NEW label, Goto(r, label), UNCHANGED input
  PROVE  /\ Stages(o, open)' = [Stages(o, open) EXCEPT ![r] = Stage(o, open, r)']
         /\ UNCHANGED About(o)
<1>1. \A q \in Request \ {r} : Stage(o, open, q)' = Stage(o, open, q)
  BY DEF TypeOK, Stage, Goto, input
<1>2. UNCHANGED About(o)
  BY DEF About, input
<1>. QED
  BY <1>1, <1>2 DEF Stages

\* The arrival of a request, seen from its own kind and from another.
LEMMA StageOpens ==
  ASSUME IInv, NEW o \in Op, NEW open, NEW r \in Request, NEW a \in Agent,
         NEW first \in open, Arrive(r, o, a, first)
  PROVE  /\ Stages(o, open)[r] = "none"
         /\ Stages(o, open)' = [Stages(o, open) EXCEPT ![r] = "open"]
         /\ About(o)' = [About(o) EXCEPT ![r] = a]
<1>0. TypeOK /\ op[r] = "none" /\ o # "none"
  BY DEF IInv, Established, Shape, Arrive, Op
<1>1. /\ op' = [op EXCEPT ![r] = o]
      /\ at' = [at EXCEPT ![r] = first]
      /\ subject' = [subject EXCEPT ![r] = a]
  BY DEF Arrive, Goto
<1>2. \A q \in Request \ {r} : Stage(o, open, q)' = Stage(o, open, q)
  BY <1>0, <1>1 DEF TypeOK, Stage
<1>3. Stage(o, open, r)' = "open" /\ Stage(o, open, r) = "none"
  BY <1>0, <1>1 DEF Stage, TypeOK
<1>. QED
  BY <1>0, <1>1, <1>2, <1>3 DEF Stages, About, TypeOK

LEMMA StageUnseen ==
  ASSUME IInv, NEW o \in Op, NEW open, NEW r \in Request, NEW a \in Agent,
         NEW kind \in Op \ {o}, NEW first, Arrive(r, kind, a, first)
  PROVE  UNCHANGED <<Stages(o, open), About(o)>>
<1>0. TypeOK /\ op[r] = "none" /\ o # "none"
  BY DEF IInv, Established, Shape, Arrive, Op
<1>1. /\ op' = [op EXCEPT ![r] = kind]
      /\ at' = [at EXCEPT ![r] = first]
      /\ subject' = [subject EXCEPT ![r] = a]
  BY DEF Arrive, Goto
<1>2. \A q \in Request : Stage(o, open, q)' = Stage(o, open, q)
  BY <1>0, <1>1 DEF TypeOK, Stage
<1>. QED
  BY <1>0, <1>1, <1>2 DEF Stages, About, TypeOK

StatusStanding == [a \in Agent |-> IF status[a] = "none" THEN "unknown" ELSE status[a]]
VerifyStages == Stages("verify", VerifyOpen)

\* The steps of Authority, read in the terms of POST /verify.
LEMMA VerifyTerms ==
  /\ (\E a \in Agent : /\ StatusStanding[a] = "unknown"
                       /\ StatusStanding' = [StatusStanding EXCEPT ![a] = "active"]
                       /\ UNCHANGED <<About("verify"), VerifyStages>>) => VerifyAuthority!Next
  /\ (\E a \in Agent : /\ StatusStanding[a] = "active"
                       /\ StatusStanding' = [StatusStanding EXCEPT ![a] = "revoked"]
                       /\ UNCHANGED <<About("verify"), VerifyStages>>) => VerifyAuthority!Next
  /\ \A r \in Request, a \in Agent :
       /\ VerifyStages[r] = "none"
       /\ VerifyStages' = [VerifyStages EXCEPT ![r] = "open"]
       /\ About("verify")' = [About("verify") EXCEPT ![r] = a]
       /\ UNCHANGED StatusStanding
       => VerifyAuthority!Next
  /\ \A r \in Request :
       /\ \/ /\ VerifyStages[r] = "open"
             /\ StatusStanding[About("verify")[r]] = "active"
             /\ VerifyStages' = [VerifyStages EXCEPT ![r] = "permitted"]
          \/ /\ VerifyStages[r] = "permitted"
             /\ VerifyStages' = [VerifyStages EXCEPT ![r] = "accepted"]
          \/ /\ VerifyStages[r] \in {"open", "permitted"}
             /\ VerifyStages' = [VerifyStages EXCEPT ![r] = "closed"]
       /\ UNCHANGED <<StatusStanding, About("verify")>>
       => VerifyAuthority!Next
  /\ UNCHANGED <<StatusStanding, About("verify"), VerifyStages>> => UNCHANGED VerifyAuthority!vars
BY DEF VerifyAuthority!Next, VerifyAuthority!Enroll, VerifyAuthority!Revoke,
       VerifyAuthority!Ask,
       VerifyAuthority!Permit, VerifyAuthority!Accept, VerifyAuthority!Close, VerifyAuthority!vars,
       StatusStanding, VerifyStages, Stages

\* Every step of a handler moves its own request and leaves the inputs alone.
LEMMA HandlerMoves ==
  ASSUME NEW r \in Request, Handle(r) \/ Abort(r)
  PROVE  UNCHANGED input /\ \E label : Goto(r, label)
<1>1. CASE RegisterStep(r)
  BY <1>1 DEF RegisterStep, RegisterInsertAgent, RegisterInsertKey,
         RegisterInsertCertificate,
         RegisterInsertCapabilities, RegisterAudit, Audit
<1>2. CASE RevokeStep(r)
  BY <1>2 DEF RevokeStep, RevokeMarkAgent, RevokeListAgent, RevokeCacheAgent, RevokeAudit,
         Audit
<1>3. CASE CapabilitiesUpsert(r)
  BY <1>3 DEF CapabilitiesUpsert
<1>4. CASE CheckStep(r)
  BY <1>4 DEF CheckStep, RateLimited, IsRevokedCacheGet, IsRevokedListSelect,
         IsRevokedCacheFill, VerifyReadAgent,
         VerifyClaimNonce, ReadKey, Authenticate, VerifyReadManifest, VerifyAudit,
         Audit, Read
<1>5. CASE Abort(r)
  BY <1>5 DEF Abort
<1>. QED
  BY <1>1, <1>2, <1>3, <1>4, <1>5 DEF Handle

\* A request of another kind is not seen from kind o.
LEMMA OtherKind ==
  ASSUME IInv, NEW o \in Op, NEW open, NEW r \in Request, Handle(r) \/ Abort(r), op[r] # o
  PROVE  UNCHANGED <<Stages(o, open), About(o)>>
<1>0. TypeOK
  BY DEF IInv
<1>. PICK label : Goto(r, label)
  BY HandlerMoves
<1>1. UNCHANGED input
  BY HandlerMoves
<1>2. Stages(o, open)' = [Stages(o, open) EXCEPT ![r] = Stage(o, open, r)'] /\ UNCHANGED About(o)
  BY <1>0, <1>1, StageMoves
<1>3. Stage(o, open, r) = "none" /\ Stage(o, open, r)' = "none"
  BY <1>1 DEF Stage, input
<1>. QED
  BY <1>2, <1>3 DEF Stages

\* The calls that write the status column.
LEMMA StatusMoves ==
  ASSUME IInv, NEW r \in Request, Handle(r) \/ Abort(r)
  PROVE  \/ UNCHANGED StatusStanding
         \/ /\ op[r] \in {"register", "revoke"}
            /\ \E a \in Agent :
                 \/ /\ StatusStanding[a] = "unknown"
                    /\ StatusStanding' = [StatusStanding EXCEPT ![a] = "active"]
                 \/ /\ StatusStanding[a] = "active"
                    /\ StatusStanding' = [StatusStanding EXCEPT ![a] = "revoked"]
<1>0. TypeOK /\ Established(r)
  BY DEF IInv
<1>1. CASE RegisterInsertAgent(r)
  <2>1. op[r] = "register" /\ subject[r] \in Agent /\ status[subject[r]] = "none"
    BY <1>0, <1>1 DEF RegisterInsertAgent, Established, Shape, Registering, RegisterLabel
  <2>2. CASE UNCHANGED status
    BY <2>2 DEF StatusStanding
  <2>3. CASE status' = [status EXCEPT ![subject[r]] = "active"]
    <3>1. /\ StatusStanding[subject[r]] = "unknown"
          /\ StatusStanding' = [StatusStanding EXCEPT ![subject[r]] = "active"]
      BY <1>0, <2>1, <2>3 DEF StatusStanding, TypeOK
    <3>. QED
      BY <2>1, <3>1
  <2>. QED
    BY <1>1, <2>2, <2>3 DEF RegisterInsertAgent
<1>2. CASE RevokeMarkAgent(r)
  <2>1. op[r] = "revoke" /\ subject[r] \in Agent
    BY <1>0, <1>2 DEF RevokeMarkAgent, Established, Shape, RevokeLabel
  <2>2. CASE status[subject[r]] = "active"
    BY <1>0, <1>2, <2>1, <2>2 DEF RevokeMarkAgent, StatusStanding, TypeOK
  <2>3. CASE status[subject[r]] # "active"
    BY <1>0, <1>2, <2>1, <2>3 DEF RevokeMarkAgent, StatusStanding, TypeOK
  <2>. QED
    BY <2>2, <2>3
<1>3. CASE UNCHANGED status
  BY <1>3 DEF StatusStanding
<1>. QED
  BY <1>1, <1>2, <1>3 DEF Handle, Abort, RegisterStep, RevokeStep, CapabilitiesUpsert,
         CheckStep,
         RegisterInsertAgent, RegisterInsertKey, RegisterInsertCertificate,
         RegisterInsertCapabilities, RegisterAudit, RevokeMarkAgent, RevokeListAgent, RevokeCacheAgent, RevokeAudit,
         RateLimited, IsRevokedCacheGet, IsRevokedListSelect, IsRevokedCacheFill, VerifyReadAgent,
         VerifyClaimNonce, ReadKey, Authenticate, VerifyReadManifest, VerifyAudit,
         Audit, Read, database

\* The steps of a verification, or its end wherever it is.
LEMMA VerifySteps ==
  ASSUME IInv, NEW r \in Request, Handle(r) \/ Abort(r), op[r] = "verify"
  PROVE  \/ UNCHANGED <<StatusStanding, About("verify"), VerifyStages>>
         \/ VerifyAuthority!Next
<1>0. TypeOK /\ Established(r) /\ subject[r] \in Agent
  BY DEF IInv, Established, Shape, Handle, Abort, RegisterStep, RevokeStep,
         CapabilitiesUpsert, CheckStep,
         RegisterInsertAgent, RegisterInsertKey, RegisterInsertCertificate,
         RegisterInsertCapabilities, RegisterAudit, RevokeMarkAgent, RevokeListAgent, RevokeCacheAgent, RevokeAudit,
         RateLimited, IsRevokedCacheGet, IsRevokedListSelect, IsRevokedCacheFill, VerifyReadAgent,
         VerifyClaimNonce, ReadKey, Authenticate, VerifyReadManifest, VerifyAudit,
         Audit, Read, Running
<1>. PICK label : Goto(r, label)
  BY HandlerMoves
<1>1. VerifyStages' = [VerifyStages EXCEPT ![r] = Stage("verify", VerifyOpen, r)'] /\ UNCHANGED About("verify")
  BY <1>0, HandlerMoves, StageMoves DEF VerifyStages
<1>2. UNCHANGED StatusStanding /\ UNCHANGED op
  BY StatusMoves, HandlerMoves DEF input
<1>3. CheckStep(r) \/ Abort(r)
  BY <1>0 DEF Handle, RegisterStep, RevokeStep, CapabilitiesUpsert, Established, Shape,
         RegisterInsertAgent, RegisterInsertKey, RegisterInsertCertificate,
         RegisterInsertCapabilities, RegisterAudit, RevokeMarkAgent, RevokeListAgent, RevokeCacheAgent, RevokeAudit,
         Audit, RegisterLabel, RevokeLabel
<1>4. VerifyStages[r] = Stage("verify", VerifyOpen, r)
  BY DEF VerifyStages, Stages
<1>5. StatusStanding[About("verify")[r]] = "active" <=> status[subject[r]] = "active"
  BY <1>0 DEF StatusStanding, About, TypeOK
<1>6. \/ Stage("verify", VerifyOpen, r)' = Stage("verify", VerifyOpen, r)
      \/ /\ Stage("verify", VerifyOpen, r) = "open"
         /\ Stage("verify", VerifyOpen, r)' = "permitted"
         /\ status[subject[r]] = "active"
      \/ /\ Stage("verify", VerifyOpen, r) = "permitted"
         /\ Stage("verify", VerifyOpen, r)' = "accepted"
      \/ /\ Stage("verify", VerifyOpen, r) \in {"open", "permitted"}
         /\ Stage("verify", VerifyOpen, r)' = "closed"
  <2>1. CASE VerifyReadAgent(r)
    BY <1>0, <1>2, <2>1 DEF VerifyReadAgent, Read, Goto, Stage, VerifyOpen, Final, TypeOK
  <2>2. CASE RateLimited(r) \/ IsRevokedCacheGet(r) \/ IsRevokedListSelect(r) \/ IsRevokedCacheFill(r)
    BY <1>0, <1>2, <2>2 DEF RateLimited, IsRevokedCacheGet, IsRevokedListSelect,
           IsRevokedCacheFill,
           AfterIsRevoked, Read, Goto, Stage, VerifyOpen, Final, TypeOK
  <2>3. CASE VerifyClaimNonce(r) \/ ReadKey(r) \/ Authenticate(r) \/ VerifyReadManifest(r) \/ VerifyAudit(r)
    BY <1>0, <1>2, <2>3 DEF VerifyClaimNonce, ReadKey, Authenticate, AfterAuthenticate,
           VerifyReadManifest, VerifyAudit, Audit, Read, Goto, Stage, VerifyOpen, Final, TypeOK
  <2>4. CASE Abort(r)
    BY <1>0, <1>2, <2>4 DEF Abort, Goto, Stage, VerifyOpen, Final, Running, RegisterLabel,
           RevokeLabel,
           CheckLabel, TypeOK
  <2>. QED
    BY <1>3, <2>1, <2>2, <2>3, <2>4 DEF CheckStep
<1>7. Stage("verify", VerifyOpen, r)' = Stage("verify", VerifyOpen, r) => UNCHANGED VerifyStages
  BY <1>1, <1>4 DEF VerifyStages, Stages
<1>. QED
  BY <1>1, <1>2, <1>4, <1>5, <1>6, <1>7, VerifyTerms

LEMMA VerifyMaps == IInv /\ [Next]_vars => [VerifyAuthority!Next]_(VerifyAuthority!vars)
<1>. SUFFICES ASSUME IInv, [Next]_vars PROVE VerifyAuthority!Next \/ UNCHANGED VerifyAuthority!vars
  OBVIOUS
<1>1. CASE (\E o \in Org : CreateOrg(o)) \/ RedisRestart \/ UNCHANGED vars
  BY <1>1, VerifyTerms DEF CreateOrg, RedisRestart, vars, database, input, StatusStanding,
         VerifyStages, Stages, Stage, About
<1>2. ASSUME NEW r \in Request, Begin(r) PROVE VerifyAuthority!Next \/ UNCHANGED VerifyAuthority!vars
  <2>1. PICK a \in Agent, kind \in Op, first \in Running :
          Arrive(r, kind, a, first) /\ (kind = "verify" => first \in VerifyOpen)
    BY <1>2 DEF Begin, RegisterBegin, RevokeBegin, CapabilitiesBegin, CheckBegin, Op, Check,
           VerifyOpen, Running, RegisterLabel, RevokeLabel, CheckLabel
  <2>2. UNCHANGED StatusStanding
    BY <2>1 DEF Arrive, database, StatusStanding
  <2>3. CASE kind # "verify"
    <3>1. kind \in Op \ {"verify"} /\ "verify" \in Op
      BY <2>3 DEF Op
    <3>2. UNCHANGED <<VerifyStages, About("verify")>>
      BY <2>1, <3>1, StageUnseen DEF VerifyStages
    <3>. QED
      BY <2>2, <3>2, VerifyTerms
  <2>4. CASE kind = "verify"
    <3>0. /\ Arrive(r, "verify", a, first) /\ first \in VerifyOpen
          /\ "verify" \in Op
      BY <2>1, <2>4 DEF Op
    <3>1. /\ VerifyStages[r] = "none"
          /\ VerifyStages' = [VerifyStages EXCEPT ![r] = "open"]
          /\ About("verify")' = [About("verify") EXCEPT ![r] = a]
      BY <3>0, StageOpens DEF VerifyStages
    <3>. QED
      BY <2>2, <3>1, VerifyTerms
  <2>. QED
    BY <2>3, <2>4
<1>3. ASSUME NEW r \in Request, Handle(r) \/ Abort(r)
      PROVE  VerifyAuthority!Next \/ UNCHANGED VerifyAuthority!vars
  <2>1. CASE op[r] = "verify"
    BY <1>3, <2>1, VerifySteps, VerifyTerms
  <2>2. CASE op[r] # "verify"
    <3>1. UNCHANGED <<VerifyStages, About("verify")>>
      BY <1>3, <2>2, OtherKind DEF VerifyStages, Op
    <3>. QED
      BY <1>3, <3>1, StatusMoves, VerifyTerms
  <2>. QED
    BY <2>1, <2>2
<1>. QED
  BY <1>1, <1>2, <1>3 DEF Next

LEMMA VerifyStarts == Init => VerifyAuthority!Init
BY EnrolledAssumption
   DEF Init, VerifyAuthority!Init, Stage, About, VerifyOpen

\* POST /verify implements Authority with the status column as the standing:
\* what it accepts was active at one instant of the request.
THEOREM VerifyImplementsAuthority == Spec => VerifyEnforcesStatus
<1>. QED
  BY VerifyStarts, VerifyMaps, Inductive, PTL DEF Spec, VerifyEnforcesStatus,
         VerifyAuthority!Spec

-----------------------------------------------------------------------------
ListingStanding == [a \in Agent |-> IF a \in revocations THEN "revoked" ELSE "active"]
HandshakeStages == Stages("handshake", HandshakeOpen)

\* The steps of Authority, read in the terms of POST /handshake/verify.
LEMMA HandshakeTerms ==
  /\ (\E a \in Agent : /\ ListingStanding[a] = "active"
                       /\ ListingStanding' = [ListingStanding EXCEPT ![a] = "revoked"]
                       /\ UNCHANGED <<About("handshake"), HandshakeStages>>)
       => HandshakeAuthority!Next
  /\ \A r \in Request, a \in Agent :
       /\ HandshakeStages[r] = "none"
       /\ HandshakeStages' = [HandshakeStages EXCEPT ![r] = "open"]
       /\ About("handshake")' = [About("handshake") EXCEPT ![r] = a]
       /\ UNCHANGED ListingStanding
       => HandshakeAuthority!Next
  /\ \A r \in Request :
       /\ \/ /\ HandshakeStages[r] = "open"
             /\ ListingStanding[About("handshake")[r]] = "active"
             /\ HandshakeStages' = [HandshakeStages EXCEPT ![r] = "permitted"]
          \/ /\ HandshakeStages[r] = "permitted"
             /\ HandshakeStages' = [HandshakeStages EXCEPT ![r] = "accepted"]
          \/ /\ HandshakeStages[r] \in {"open", "permitted"}
             /\ HandshakeStages' = [HandshakeStages EXCEPT ![r] = "closed"]
       /\ UNCHANGED <<ListingStanding, About("handshake")>>
       => HandshakeAuthority!Next
  /\ UNCHANGED <<ListingStanding, About("handshake"), HandshakeStages>>
       => UNCHANGED HandshakeAuthority!vars
BY DEF HandshakeAuthority!Next, HandshakeAuthority!Revoke, HandshakeAuthority!Ask,
       HandshakeAuthority!Permit, HandshakeAuthority!Accept, HandshakeAuthority!Close,
       HandshakeAuthority!vars, ListingStanding, HandshakeStages, Stages

\* The call that writes the revocations table.
LEMMA ListingMoves ==
  ASSUME IInv, NEW r \in Request, Handle(r) \/ Abort(r)
  PROVE  \/ UNCHANGED ListingStanding
         \/ /\ op[r] = "revoke"
            /\ \E a \in Agent : /\ ListingStanding[a] = "active"
                                /\ ListingStanding' = [ListingStanding EXCEPT ![a] = "revoked"]
<1>0. TypeOK /\ Established(r)
  BY DEF IInv
<1>1. CASE RevokeListAgent(r)
  <2>1. op[r] = "revoke" /\ subject[r] \in Agent
    BY <1>0, <1>1 DEF RevokeListAgent, Established, Shape, RevokeLabel
  <2>2. CASE UNCHANGED revocations
    BY <2>2 DEF ListingStanding
  <2>3. CASE subject[r] \notin revocations /\ revocations' = revocations \cup {subject[r]}
    <3>1. /\ ListingStanding[subject[r]] = "active"
          /\ ListingStanding' = [ListingStanding EXCEPT ![subject[r]] = "revoked"]
      BY <1>0, <2>1, <2>3 DEF ListingStanding
    <3>. QED
      BY <2>1, <3>1
  <2>. QED
    BY <1>1, <2>2, <2>3 DEF RevokeListAgent
<1>2. CASE UNCHANGED revocations
  BY <1>2 DEF ListingStanding
<1>. QED
  BY <1>1, <1>2 DEF Handle, Abort, RegisterStep, RevokeStep, CapabilitiesUpsert, CheckStep,
         RegisterInsertAgent, RegisterInsertKey, RegisterInsertCertificate,
         RegisterInsertCapabilities, RegisterAudit, RevokeMarkAgent, RevokeListAgent, RevokeCacheAgent, RevokeAudit,
         RateLimited, IsRevokedCacheGet, IsRevokedListSelect, IsRevokedCacheFill, VerifyReadAgent,
         VerifyClaimNonce, ReadKey, Authenticate, VerifyReadManifest, VerifyAudit,
         Audit, Read, database

\* The steps of a handshake, or its end wherever it is.
LEMMA HandshakeSteps ==
  ASSUME IInv, NEW r \in Request, Handle(r) \/ Abort(r), op[r] = "handshake"
  PROVE  \/ UNCHANGED <<ListingStanding, About("handshake"), HandshakeStages>>
         \/ HandshakeAuthority!Next
<1>0. TypeOK /\ Established(r) /\ subject[r] \in Agent
  BY DEF IInv, Established, Shape, Handle, Abort, RegisterStep, RevokeStep,
         CapabilitiesUpsert, CheckStep,
         RegisterInsertAgent, RegisterInsertKey, RegisterInsertCertificate,
         RegisterInsertCapabilities, RegisterAudit, RevokeMarkAgent, RevokeListAgent, RevokeCacheAgent, RevokeAudit,
         RateLimited, IsRevokedCacheGet, IsRevokedListSelect, IsRevokedCacheFill, VerifyReadAgent,
         VerifyClaimNonce, ReadKey, Authenticate, VerifyReadManifest, VerifyAudit,
         Audit, Read, Running
<1>. PICK label : Goto(r, label)
  BY HandlerMoves
<1>1. /\ HandshakeStages' = [HandshakeStages EXCEPT ![r] = Stage("handshake", HandshakeOpen, r)']
      /\ UNCHANGED About("handshake")
  BY <1>0, HandlerMoves, StageMoves DEF HandshakeStages
<1>2. UNCHANGED ListingStanding /\ UNCHANGED op
  BY ListingMoves, HandlerMoves DEF input
<1>3. CheckStep(r) \/ Abort(r)
  BY <1>0 DEF Handle, RegisterStep, RevokeStep, CapabilitiesUpsert, Established, Shape,
         RegisterInsertAgent, RegisterInsertKey, RegisterInsertCertificate,
         RegisterInsertCapabilities, RegisterAudit, RevokeMarkAgent, RevokeListAgent, RevokeCacheAgent, RevokeAudit,
         Audit, RegisterLabel, RevokeLabel
<1>4. HandshakeStages[r] = Stage("handshake", HandshakeOpen, r)
  BY DEF HandshakeStages, Stages
<1>5. subject[r] \notin revocations => ListingStanding[About("handshake")[r]] = "active"
  BY <1>0 DEF ListingStanding, About
<1>6. \/ Stage("handshake", HandshakeOpen, r)' = Stage("handshake", HandshakeOpen, r)
      \/ /\ Stage("handshake", HandshakeOpen, r) = "open"
         /\ Stage("handshake", HandshakeOpen, r)' = "permitted"
         /\ subject[r] \notin revocations
      \/ /\ Stage("handshake", HandshakeOpen, r) = "permitted"
         /\ Stage("handshake", HandshakeOpen, r)' = "accepted"
      \/ /\ Stage("handshake", HandshakeOpen, r) \in {"open", "permitted"}
         /\ Stage("handshake", HandshakeOpen, r)' = "closed"
  <2>1. CASE IsRevokedListSelect(r)
    BY <1>0, <1>2, <2>1 DEF IsRevokedListSelect, AfterIsRevoked, Read, Goto, Stage,
           HandshakeOpen, Final, TypeOK
  <2>2. CASE RateLimited(r) \/ IsRevokedCacheGet(r) \/ IsRevokedCacheFill(r)
    BY <1>0, <1>2, <2>2 DEF RateLimited, IsRevokedCacheGet, IsRevokedCacheFill,
           Read, Goto, Stage, HandshakeOpen, Final, TypeOK
  <2>3. CASE ReadKey(r) \/ Authenticate(r)
    BY <1>0, <1>2, <2>3 DEF ReadKey, Authenticate, AfterAuthenticate,
           Read, Goto, Stage, HandshakeOpen, Final, TypeOK
  <2>4. CASE VerifyReadAgent(r) \/ VerifyClaimNonce(r) \/ VerifyReadManifest(r) \/ VerifyAudit(r)
    BY <1>0, <1>2, <2>4 DEF VerifyReadAgent, VerifyClaimNonce, VerifyReadManifest,
           VerifyAudit, Audit,
           Read, Established, Shape
  <2>5. CASE Abort(r)
    BY <1>0, <1>2, <2>5 DEF Abort, Goto, Stage, HandshakeOpen, Final, Running,
           RegisterLabel, RevokeLabel,
           CheckLabel, TypeOK
  <2>. QED
    BY <1>3, <2>1, <2>2, <2>3, <2>4, <2>5 DEF CheckStep
<1>7. Stage("handshake", HandshakeOpen, r)' = Stage("handshake", HandshakeOpen, r)
        => UNCHANGED HandshakeStages
  BY <1>1, <1>4 DEF HandshakeStages, Stages
<1>. QED
  BY <1>1, <1>2, <1>4, <1>5, <1>6, <1>7, HandshakeTerms

LEMMA HandshakeMaps ==
  IInv /\ [Next]_vars => [HandshakeAuthority!Next]_(HandshakeAuthority!vars)
<1>. SUFFICES ASSUME IInv, [Next]_vars PROVE HandshakeAuthority!Next \/ UNCHANGED HandshakeAuthority!vars
  OBVIOUS
<1>1. CASE (\E o \in Org : CreateOrg(o)) \/ RedisRestart \/ UNCHANGED vars
  BY <1>1, HandshakeTerms DEF CreateOrg, RedisRestart, vars, database, input,
         ListingStanding,
         HandshakeStages, Stages, Stage, About
<1>2. ASSUME NEW r \in Request, Begin(r) PROVE HandshakeAuthority!Next \/ UNCHANGED HandshakeAuthority!vars
  <2>1. PICK a \in Agent, kind \in Op, first \in Running :
          Arrive(r, kind, a, first) /\ (kind = "handshake" => first \in HandshakeOpen)
    BY <1>2 DEF Begin, RegisterBegin, RevokeBegin, CapabilitiesBegin, CheckBegin, Op, Check,
           HandshakeOpen, Running, RegisterLabel, RevokeLabel, CheckLabel
  <2>2. UNCHANGED ListingStanding
    BY <2>1 DEF Arrive, database, ListingStanding
  <2>3. CASE kind # "handshake"
    <3>1. kind \in Op \ {"handshake"} /\ "handshake" \in Op
      BY <2>3 DEF Op
    <3>2. UNCHANGED <<HandshakeStages, About("handshake")>>
      BY <2>1, <3>1, StageUnseen DEF HandshakeStages
    <3>. QED
      BY <2>2, <3>2, HandshakeTerms
  <2>4. CASE kind = "handshake"
    <3>0. /\ Arrive(r, "handshake", a, first) /\ first \in HandshakeOpen
          /\ "handshake" \in Op
      BY <2>1, <2>4 DEF Op
    <3>1. /\ HandshakeStages[r] = "none"
          /\ HandshakeStages' = [HandshakeStages EXCEPT ![r] = "open"]
          /\ About("handshake")' = [About("handshake") EXCEPT ![r] = a]
      BY <3>0, StageOpens DEF HandshakeStages
    <3>. QED
      BY <2>2, <3>1, HandshakeTerms
  <2>. QED
    BY <2>3, <2>4
<1>3. ASSUME NEW r \in Request, Handle(r) \/ Abort(r)
      PROVE  HandshakeAuthority!Next \/ UNCHANGED HandshakeAuthority!vars
  <2>1. CASE op[r] = "handshake"
    BY <1>3, <2>1, HandshakeSteps, HandshakeTerms
  <2>2. CASE op[r] # "handshake"
    <3>1. UNCHANGED <<HandshakeStages, About("handshake")>>
      BY <1>3, <2>2, OtherKind DEF HandshakeStages, Op
    <3>. QED
      BY <1>3, <3>1, ListingMoves, HandshakeTerms
  <2>. QED
    BY <2>1, <2>2
<1>. QED
  BY <1>1, <1>2, <1>3 DEF Next

LEMMA HandshakeStarts == Init => HandshakeAuthority!Init
BY DEF Init, HandshakeAuthority!Init, Stage, About, HandshakeOpen

\* POST /handshake/verify implements Authority with the revocations table as the
\* standing: what it accepts was not listed at one instant of the request.
THEOREM HandshakeImplementsAuthority == Spec => HandshakeEnforcesListing
<1>. QED
  BY HandshakeStarts, HandshakeMaps, Inductive, PTL DEF Spec, HandshakeEnforcesListing,
         HandshakeAuthority!Spec

-----------------------------------------------------------------------------
(* The length of a handler, acknowledged revocations, and the manifest's hash *)

\* The awaited calls that a handler has still to make at most.
CallsLeft(label) ==
  CASE label = "cacheGet" -> 8
    [] label = "listSelect" -> 7
    [] label = "readAgent" -> 6
    [] label \in {"insertAgent", "claimNonce"} -> 5
    [] label \in {"insertKey", "readKey", "markAgent"} -> 4
    [] label \in {"insertCertificate", "authenticate", "listAgent"} -> 3
    [] label \in {"insertCapabilities", "readManifest", "cacheAgent"} -> 2
    [] label \in {"auditRegister", "auditRevoke", "auditVerify", "cacheFill",
                  "upsertCapabilities"} -> 1
    [] OTHER -> 0

\* Whatever its stores hold and the others do, a handler is nearer to its answer
\* after each call and never makes one again: it calls them eight times at most.
HandlersAdvance ==
  [][\A r \in Request : Handle(r) \/ Abort(r) => CallsLeft(at'[r]) < CallsLeft(at[r])]_vars

\* A step of a handler starts at a call and leaves fewer.
LEMMA Advances ==
  ASSUME TypeOK, NEW r \in Request, Handle(r) \/ Abort(r)
  PROVE  at[r] \in Running /\ CallsLeft(at'[r]) < CallsLeft(at[r])
<1>. USE DEF TypeOK, Goto, CallsLeft, Running, RegisterLabel, RevokeLabel, CheckLabel
<1>1. CASE RegisterStep(r)
  BY <1>1 DEF RegisterStep, RegisterInsertAgent, RegisterInsertKey,
         RegisterInsertCertificate,
         RegisterInsertCapabilities, RegisterAudit, Audit
<1>2. CASE RevokeStep(r)
  BY <1>2 DEF RevokeStep, RevokeMarkAgent, RevokeListAgent, RevokeCacheAgent, RevokeAudit,
         Audit
<1>3. CASE CapabilitiesUpsert(r)
  BY <1>3 DEF CapabilitiesUpsert
<1>4. CASE CheckStep(r)
  BY <1>4 DEF CheckStep, RateLimited, IsRevokedCacheGet, IsRevokedListSelect,
         IsRevokedCacheFill,
         VerifyReadAgent, VerifyClaimNonce, ReadKey, Authenticate, VerifyReadManifest, VerifyAudit,
         AfterIsRevoked, AfterAuthenticate, Audit, Read
<1>5. CASE Abort(r)
  BY <1>5 DEF Abort
<1>. QED
  BY <1>1, <1>2, <1>3, <1>4, <1>5 DEF Handle

\* Every step of a handler brings it nearer to its answer: none makes more than
\* eight calls, with any number of requests about.
THEOREM HandlersAdvanceAlways == Spec => HandlersAdvance
<1>1. IInv /\ [Next]_vars =>
        [\A r \in Request : Handle(r) \/ Abort(r) => CallsLeft(at'[r]) < CallsLeft(at[r])]_vars
  BY Advances DEF IInv
<1>. QED
  BY <1>1, Inductive, PTL DEF Spec, HandlersAdvance

\* No server misses a revocation that was acknowledged before the check arrived.
THEOREM AcknowledgedInForce == Spec => AcknowledgedIsInForce
<1>1. ASSUME IInv, Next, NEW q \in Request, NEW r \in Request,
             op[q] = "revoke", at[q] = "ok",
             at[r] = "idle", at'[r] # "idle", op'[r] \in Check, subject'[r] = subject[q]
      PROVE  since'[r] = "listed"
  <2>1. subject[q] \in revocations
    BY <1>1 DEF IInv, Established, Answering, Revoking
  <2>2. op[r] = "none"
    BY <1>1 DEF IInv, Established, Shape
  <2>3. PICK p \in Request, o \in Op, a \in Agent, first \in Running : Arrive(p, o, a, first)
    <3>1. ~(op'[r] = op[r])
      BY <1>1, <2>2 DEF Check
    <3>. QED
      BY <1>1, <3>1, HandlerMoves DEF Next, Begin, RegisterBegin, RevokeBegin,
             CapabilitiesBegin, CheckBegin, CreateOrg, RedisRestart, input, Op, Check,
             Running, RegisterLabel, RevokeLabel, CheckLabel
  <2>4. p = r /\ subject'[r] = a
    BY <1>1, <2>3 DEF Arrive, Goto, IInv, TypeOK
  <2>5. since'[r] = Durable(a)
    BY <1>1, <2>3, <2>4 DEF Arrive, IInv, TypeOK
  <2>. QED
    BY <1>1, <2>1, <2>4, <2>5 DEF Durable
<1>2. IInv /\ [Next]_vars =>
        [\A q, r \in Request :
           /\ op[q] = "revoke" /\ at[q] = "ok"
           /\ at[r] = "idle" /\ at'[r] # "idle" /\ op'[r] \in Check /\ subject'[r] = subject[q]
           => since'[r] = "listed"]_vars
  BY <1>1
<1>. QED
  BY <1>2, Inductive, PTL DEF Spec, AcknowledgedIsInForce

\* What HashFollowsManifest needs beside IInv: a manifest is only there for an
\* agent with a row, and a registration that has not written its certificate yet
\* finds either no manifest or one that a PUT brought.
Traced ==
  /\ \A a \in Agent : capability[a] # None =>
       /\ status[a] # "none"
       /\ certified[a] = manifestHash(capability[a]) \/ Replaced(a)
  /\ \A r \in Request :
       at[r] \in {"insertAgent", "insertKey", "insertCertificate"} =>
         capability[subject[r]] = None \/ Replaced(subject[r])

\* The requests that have been answered stay as they are, and a step that leaves
\* the manifests alone undoes no PUT.
LEMMA ReplacedStays ==
  ASSUME IInv, [Next]_vars, NEW a \in Agent, capability'[a] = capability[a], Replaced(a)
  PROVE  Replaced(a)'
<1>. PICK q \in Request : /\ op[q] = "capabilities" /\ at[q] \in {"ok", "error"}
                          /\ subject[q] = a /\ manifest[q] = capability[a]
  BY DEF Replaced
<1>. TypeOK
  BY DEF IInv
<1>1. CASE (\E o \in Org : CreateOrg(o)) \/ RedisRestart \/ UNCHANGED vars
  BY <1>1 DEF CreateOrg, RedisRestart, vars, database, input, Replaced
<1>2. ASSUME NEW r \in Request, Begin(r) PROVE Replaced(a)'
  <2>1. /\ at[r] = "idle" /\ \A p \in Request \ {r} : at'[p] = at[p] /\ op'[p] = op[p]
                             /\ subject'[p] = subject[p] /\ manifest'[p] = manifest[p]
    BY <1>2 DEF Begin, RegisterBegin, RevokeBegin, CapabilitiesBegin, CheckBegin, Arrive,
           Goto, TypeOK
  <2>. QED
    BY <2>1 DEF Replaced
<1>3. ASSUME NEW r \in Request, Handle(r) \/ Abort(r) PROVE Replaced(a)'
  <2>1. at[r] \in Running /\ UNCHANGED input /\ \A p \in Request \ {r} : at'[p] = at[p]
    BY <1>3, HandlerMoves, Advances DEF TypeOK, Goto
  <2>2. q # r
    BY <2>1 DEF Running, RegisterLabel, RevokeLabel, CheckLabel
  <2>. QED
    BY <2>1, <2>2 DEF Replaced, input
<1>. QED
  BY <1>1, <1>2, <1>3 DEF Next

\* The row of an agent is never deleted.
LEMMA RowStays ==
  ASSUME IInv, [Next]_vars, NEW a \in Agent, status[a] # "none"
  PROVE  status'[a] # "none"
<1>. TypeOK
  BY DEF IInv
<1>1. ASSUME NEW r \in Request, Begin(r) PROVE UNCHANGED status
  BY <1>1 DEF Begin, RegisterBegin, RevokeBegin, CapabilitiesBegin, CheckBegin, Arrive,
         database
<1>2. ASSUME NEW r \in Request, RegisterInsertAgent(r) \/ RevokeMarkAgent(r)
      PROVE  status'[a] # "none"
  BY <1>2 DEF RegisterInsertAgent, RevokeMarkAgent, TypeOK
<1>3. ASSUME NEW r \in Request, Handle(r) \/ Abort(r), ~RegisterInsertAgent(r), ~RevokeMarkAgent(r)
      PROVE  UNCHANGED status
  BY <1>3 DEF Handle, Abort, RegisterStep, RevokeStep, CapabilitiesUpsert, CheckStep,
         RegisterInsertKey, RegisterInsertCertificate, RegisterInsertCapabilities, RegisterAudit,
         RevokeListAgent, RevokeCacheAgent, RevokeAudit,
         RateLimited, IsRevokedCacheGet, IsRevokedListSelect, IsRevokedCacheFill, VerifyReadAgent,
         VerifyClaimNonce, ReadKey, Authenticate, VerifyReadManifest, VerifyAudit,
         Audit, Read, database
<1>4. CASE (\E o \in Org : CreateOrg(o)) \/ RedisRestart \/ UNCHANGED vars
  BY <1>4 DEF CreateOrg, RedisRestart, vars, database
<1>. QED
  BY <1>1, <1>2, <1>3, <1>4 DEF Next

\* Who waits to write the row, the key or the certificate of a registration did so
\* before, or has just arrived with an id that has no row.
LEMMA NewcomerIsFresh ==
  ASSUME IInv, Next, NEW r \in Request,
         at'[r] \in {"insertAgent", "insertKey", "insertCertificate"}
  PROVE  \/ /\ at[r] \in {"insertAgent", "insertKey", "insertCertificate"}
            /\ subject'[r] = subject[r] /\ subject[r] \in Agent /\ op[r] = "register"
         \/ /\ subject'[r] \in Agent /\ status[subject'[r]] = "none"
            /\ UNCHANGED capability
<1>. TypeOK /\ Shape(r)
  BY DEF IInv, Established
<1>. DEFINE Early == {"insertAgent", "insertKey", "insertCertificate"}
<1>1. at[r] \in Early => subject[r] \in Agent /\ op[r] = "register"
  BY DEF Shape, RegisterLabel
<1>2. CASE (\E o \in Org : CreateOrg(o)) \/ RedisRestart
  BY <1>1, <1>2 DEF CreateOrg, RedisRestart, input
<1>3. ASSUME NEW q \in Request, Begin(q)
      PROVE  \/ at[r] \in Early /\ subject'[r] = subject[r]
             \/ /\ subject'[r] \in Agent /\ status[subject'[r]] = "none"
                /\ UNCHANGED capability
  <2>. PICK a \in Agent :
         \/ \E o \in Org, m \in Manifest : RegisterBegin(q, a, o, m)
         \/ RevokeBegin(q, a)
         \/ \E m \in Manifest : CapabilitiesBegin(q, a, m)
         \/ \E o \in Check : CheckBegin(q, o, a)
    BY <1>3 DEF Begin
  <2>1. CASE r # q
    BY <2>1 DEF RegisterBegin, RevokeBegin, CapabilitiesBegin, CheckBegin, Arrive, Goto,
           TypeOK
  <2>2. CASE r = q
    BY <2>2 DEF RegisterBegin, RevokeBegin, CapabilitiesBegin, CheckBegin, Arrive, Goto,
           TypeOK,
           FreshId, database
  <2>. QED
    BY <2>1, <2>2
<1>4. ASSUME NEW q \in Request, Handle(q) \/ Abort(q)
      PROVE  at[r] \in Early /\ subject'[r] = subject[r]
  <2>1. UNCHANGED input /\ \E label : Goto(q, label)
    BY <1>4, HandlerMoves
  <2>2. CASE r # q
    BY <2>1, <2>2 DEF Goto, TypeOK, input
  <2>3. CASE r = q
    BY <1>4, <2>1, <2>3
       DEF Handle, Abort, RegisterStep, RevokeStep, CapabilitiesUpsert, CheckStep,
         RegisterInsertAgent, RegisterInsertKey, RegisterInsertCertificate,
         RegisterInsertCapabilities, RegisterAudit, RevokeMarkAgent, RevokeListAgent, RevokeCacheAgent, RevokeAudit,
         RateLimited, IsRevokedCacheGet, IsRevokedListSelect, IsRevokedCacheFill, VerifyReadAgent,
         VerifyClaimNonce, ReadKey, Authenticate, VerifyReadManifest, VerifyAudit,
         AfterIsRevoked, AfterAuthenticate, Audit, Read, Goto, TypeOK, input
  <2>. QED
    BY <2>2, <2>3
<1>. QED
  BY <1>1, <1>2, <1>3, <1>4 DEF Next

LEMMA TracedKeeps == IInv /\ Traced /\ [Next]_vars => Traced'
<1>. SUFFICES ASSUME IInv, Traced, Next PROVE Traced'
  <2>1. UNCHANGED vars => (Traced <=> Traced')
    BY DEF vars, database, input, Traced, Replaced, manifestHash
  <2>. QED
    BY <2>1
<1>. DEFINE Early == {"insertAgent", "insertKey", "insertCertificate"}
            Hashed(a) == certified[a] = manifestHash(capability[a])
<1>0. TypeOK /\ \A r \in Request : Established(r) /\ Exclusive(r)
  BY DEF IInv
<1>1. ASSUME UNCHANGED capability,
             \A a \in Agent : capability[a] # None => certified'[a] = certified[a] \/ Replaced(a)
      PROVE  Traced'
  <2>1. \A a \in Agent : Replaced(a) => Replaced(a)'
    BY <1>1, ReplacedStays
  <2>2. \A a \in Agent : capability'[a] # None =>
          status'[a] # "none" /\ (Hashed(a)' \/ Replaced(a)')
    BY <1>1, <2>1, RowStays DEF Traced, manifestHash
  <2>3. \A r \in Request : at'[r] \in Early =>
          capability'[subject'[r]] = None \/ Replaced(subject[r])'
    BY <1>1, <2>1, NewcomerIsFresh DEF Traced, Replaced
  <2>. QED
    BY <2>2, <2>3 DEF Traced, Replaced
<1>2. ASSUME NEW r \in Request, RegisterInsertCertificate(r) PROVE Traced'
  <2>1. UNCHANGED capability /\ subject[r] \in Agent
    BY <1>0, <1>2 DEF RegisterInsertCertificate, Established, Shape
  <2>2. capability[subject[r]] = None \/ Replaced(subject[r])
    BY <1>2 DEF RegisterInsertCertificate, Traced
  <2>3. \A a \in Agent : a # subject[r] => certified'[a] = certified[a]
    BY <1>0, <1>2 DEF RegisterInsertCertificate, TypeOK
  <2>. QED
    BY <1>1, <2>1, <2>2, <2>3
<1>3. ASSUME NEW r \in Request, NEW a \in Agent, a = subject[r], at[r] \notin {"idle"} \cup Final,
             capability' = [capability EXCEPT ![a] = manifest[r]], UNCHANGED certified,
             status[a] # "none", certified[a] = manifestHash(manifest[r]) \/ Replaced(a)',
             \A q \in Request : at'[q] \in Early /\ subject'[q] = a => Replaced(a)'
      PROVE  Traced'
  <2>1. \A b \in Agent : b # a => capability'[b] = capability[b]
    BY <1>0, <1>3 DEF TypeOK
  <2>2. \A b \in Agent : b # a /\ Replaced(b) => Replaced(b)'
    BY <2>1, ReplacedStays
  <2>3. capability'[a] = manifest[r]
    BY <1>0, <1>3 DEF TypeOK
  <2>4. \A b \in Agent : capability'[b] # None =>
          status'[b] # "none" /\ (Hashed(b)' \/ Replaced(b)')
    BY <1>3, <2>1, <2>2, <2>3, RowStays DEF Traced, manifestHash
  <2>5. \A q \in Request : at'[q] \in Early =>
          capability'[subject'[q]] = None \/ Replaced(subject[q])'
    <3>. SUFFICES ASSUME NEW q \in Request, at'[q] \in Early, subject'[q] # a
                  PROVE  capability'[subject'[q]] = None \/ Replaced(subject[q])'
      BY <1>3 DEF Replaced
    <3>1. /\ subject'[q] \in Agent
          /\ capability[subject'[q]] = None \/ Replaced(subject'[q])
      BY NewcomerIsFresh DEF Traced
    <3>. QED
      BY <2>1, <2>2, <3>1 DEF Replaced
  <2>. QED
    BY <2>4, <2>5 DEF Traced, Replaced
<1>4. ASSUME NEW r \in Request, RegisterInsertCapabilities(r) PROVE Traced'
  <2>1. /\ op[r] = "register" /\ subject[r] \in Agent
        /\ status[subject[r]] # "none"
        /\ certified[subject[r]] = manifestHash(manifest[r])
    BY <1>0, <1>4 DEF RegisterInsertCapabilities, Established, Shape, Registering,
           RegisterLabel
  <2>2. ASSUME NEW q \in Request, at'[q] \in Early, subject'[q] = subject[r] PROVE FALSE
    <3>1. at'[r] = "auditRegister" /\ subject' = subject
      BY <1>0, <1>4 DEF RegisterInsertCapabilities, Goto, TypeOK, input
    <3>2. q # r /\ op[q] = "register"
      BY <2>1, <2>2, <3>1, NewcomerIsFresh
    <3>. QED
      BY <1>0, <2>1, <2>2, <3>1, <3>2 DEF Exclusive
  <2>. QED
    BY <1>3, <1>4, <2>1, <2>2 DEF RegisterInsertCapabilities, Final
<1>5. ASSUME NEW r \in Request, CapabilitiesUpsert(r), status[subject[r]] # "none" PROVE Traced'
  <2>1. op[r] = "capabilities" /\ subject[r] \in Agent
    BY <1>0, <1>5 DEF CapabilitiesUpsert, Established, Shape
  <2>. PICK a \in Agent : a = subject[r]
    BY <2>1
  <2>2. /\ capability' = [capability EXCEPT ![a] = manifest[r]]
        /\ at'[r] \in {"ok", "error"} /\ UNCHANGED <<certified, input>>
    BY <1>0, <1>5 DEF CapabilitiesUpsert, Goto, TypeOK
  <2>3. Replaced(a)'
    BY <1>0, <2>1, <2>2 DEF Replaced, TypeOK, input
  <2>4. at[r] \notin {"idle"} \cup Final
    BY <1>5 DEF CapabilitiesUpsert, Final
  <2>. QED
    BY <1>3, <1>5, <2>2, <2>3, <2>4
<1>6. ASSUME UNCHANGED <<capability, certified>> PROVE Traced'
  BY <1>1, <1>6
<1>7. ASSUME NEW r \in Request, Begin(r) PROVE UNCHANGED <<capability, certified>>
  BY <1>7 DEF Begin, RegisterBegin, RevokeBegin, CapabilitiesBegin, CheckBegin, Arrive,
         database
<1>8. ASSUME NEW r \in Request, Handle(r) \/ Abort(r), ~RegisterInsertCertificate(r),
             ~RegisterInsertCapabilities(r), ~(CapabilitiesUpsert(r) /\ status[subject[r]] # "none")
      PROVE  UNCHANGED <<capability, certified>>
  BY <1>8 DEF Handle, Abort, RegisterStep, RevokeStep, CapabilitiesUpsert, CheckStep,
         RegisterInsertAgent, RegisterInsertKey, RegisterAudit,
         RevokeMarkAgent, RevokeListAgent, RevokeCacheAgent, RevokeAudit,
         RateLimited, IsRevokedCacheGet, IsRevokedListSelect, IsRevokedCacheFill, VerifyReadAgent,
         VerifyClaimNonce, ReadKey, Authenticate, VerifyReadManifest, VerifyAudit,
         Audit, Read, database
<1>9. CASE (\E o \in Org : CreateOrg(o)) \/ RedisRestart
  BY <1>6, <1>9 DEF CreateOrg, RedisRestart, database
<1>. QED
  BY <1>2, <1>4, <1>5, <1>6, <1>7, <1>8, <1>9 DEF Next

\* A certificate and the manifest of its agent go together until a PUT parts them,
\* for any number of registrations and PUTs, interrupted or not.
THEOREM HashIsTraced == Spec => []HashFollowsManifest
<1>1. Init => Traced
  BY DEF Init, Traced, manifestHash
<1>2. Traced => HashFollowsManifest
  BY DEF Traced, HashFollowsManifest
<1>. QED
  BY <1>1, <1>2, TracedKeeps, Inductive, PTL DEF Spec
=============================================================================
