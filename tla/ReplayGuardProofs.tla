------------------------- MODULE ReplayGuardProofs -------------------------
(***************************************************************************)
(* Proofs about ReplayGuard for any tokens, keys and requests, any clock   *)
(* readings within Drift and any number of restarts of Redis.              *)
(*                                                                         *)
(* A timestamp ts is in the window of some server from ts - Skew - Drift   *)
(* to ts + Skew + Drift, and the last SET for it takes effect Delay later: *)
(* no two claims for it are further apart.  A claim holds the nonce for    *)
(* TTL.  Nothing is assumed of how TTL and Skew are related.               *)
(***************************************************************************)
EXTENDS ReplayGuard, TLAPS

\* The request's nonce was claimed for it, and it was not refused since.
Holder(r) == at[r] \in {"authenticate", "finish", "ok"}

\* What a request has established, by its label.
RequestInv(r) ==
  /\ at[r] = "claimNonce" =>
       /\ now <= checked[r] + Delay
       /\ checked[r] <= body[r].stamp + Skew + Drift
       /\ now >= body[r].stamp - Skew - Drift
  /\ Holder(r) =>
       /\ claimed[r] <= body[r].stamp + Skew + Drift + Delay
       /\ claimed[r] >= body[r].stamp - Skew - Drift
       /\ era[r] <= restarts
       /\ era[r] = restarts => deadline[body[r].key] >= claimed[r] + TTL
  /\ at[r] \in {"finish", "ok"} => /\ body[r].key = keyOf[body[r].token]
                                   /\ body[r].stamp = tsOf[body[r].token]

\* Within one life of Redis, no nonce is claimed twice in TTL.
ClaimsApart ==
  \A r, q \in Request :
    /\ r # q /\ Holder(r) /\ Holder(q)
    /\ body[r].key = body[q].key /\ era[r] = era[q]
    => claimed[q] > claimed[r] + TTL \/ claimed[r] > claimed[q] + TTL

\* The inductive invariant behind ReplayIsLate.
IInv == TypeOK /\ (\A r \in Request : RequestInv(r)) /\ ClaimsApart

\* A key that was set was set by a request whose SET took effect.
KeyHasCause ==
  \A k \in Key : deadline[k] # -1 =>
    \E q \in Request : /\ at[q] # "idle" /\ body[q].key = k
                       /\ era[q] # -1 \/ tries[q] > 0

\* The inductive invariant behind RefusalHasCause.
CauseInv ==
  /\ TypeOK
  /\ KeyHasCause
  /\ \A r \in Request :
       at[r] \in {"idle", "checkSkew", "claimNonce", "replayed"} => era[r] = -1
  /\ RefusalHasCause

-----------------------------------------------------------------------------
LEMMA InitTypeOK == Init => TypeOK
BY DEF Init, TypeOK

LEMMA NextTypeOK == TypeOK /\ [Next]_vars => TypeOK'
<1>. SUFFICES ASSUME TypeOK, [Next]_vars PROVE TypeOK'
  OBVIOUS
<1>. USE TimeAssumption
<1>1. ASSUME NEW r \in Request, NEW b \in Body, Begin(r, b) PROVE TypeOK'
  BY <1>1 DEF TypeOK, Begin, Goto, Running, Final
<1>2. ASSUME NEW r \in Request, Step(r) PROVE TypeOK'
  <2>0. at[r] \in Running
    BY <1>2 DEF Step, CheckSkew, ClaimNonce, ClaimNonceUnanswered, Authenticate, Finish,
           Abort, Running
  <2>1. CASE CheckSkew(r)
    BY <2>1 DEF TypeOK, CheckSkew, Goto, Running, Final
  <2>2. CASE ClaimNonce(r)
    BY <2>2 DEF TypeOK, ClaimNonce, RecordClaim, Goto, Running, Final, Body
  <2>3. CASE ClaimNonceUnanswered(r)
    BY <2>3 DEF TypeOK, ClaimNonceUnanswered, Body
  <2>4. CASE Authenticate(r)
    BY <2>4 DEF TypeOK, Authenticate, Goto, Running, Final
  <2>5. CASE Finish(r)
    BY <2>5 DEF TypeOK, Finish, Goto, Running, Final
  <2>6. CASE Abort(r)
    BY <2>6 DEF TypeOK, Abort, Goto, Running, Final
  <2>. QED
    BY <1>2, <2>1, <2>2, <2>3, <2>4, <2>5, <2>6 DEF Step
<1>3. CASE Tick
  BY <1>3 DEF TypeOK, Tick
<1>4. CASE RedisRestart
  BY <1>4 DEF TypeOK, RedisRestart
<1>5. CASE UNCHANGED vars
  BY <1>5 DEF TypeOK, vars
<1>. QED
  BY <1>1, <1>2, <1>3, <1>4, <1>5 DEF Next

\* Every variable keeps to its type; so no request has its nonce claimed
\* before it was read.
THEOREM TypeCorrect == Spec => []TypeOK
BY InitTypeOK, NextTypeOK, PTL DEF Spec

LEMMA BodyFields ==
  ASSUME TypeOK, NEW r \in Request, at[r] # "idle"
  PROVE  body[r].key \in Key /\ body[r].stamp \in Int
<1>1. body[r] \in Body
  BY DEF TypeOK
<1>2. body[r].key \in Key /\ body[r].stamp \in Stamp
  BY <1>1 DEF Body
<1>3. Stamp \subseteq Int
  BY TokenAssumption
<1>. QED
  BY <1>2, <1>3

-----------------------------------------------------------------------------
LEMMA InitIInv == Init => IInv
BY InitTypeOK DEF Init, IInv, RequestInv, ClaimsApart, Holder

\* The heart of it: a nonce that is free was claimed more than TTL ago by
\* whoever holds it in this life of Redis.
LEMMA FreeMeansExpired ==
  ASSUME IInv,
         NEW k \in Key, ~Held(k),
         NEW q \in Request, Holder(q), era[q] = restarts, body[q].key = k
  PROVE  now > claimed[q] + TTL
<1>1. deadline[k] >= claimed[q] + TTL
  BY DEF IInv, RequestInv
<1>2. deadline[k] \in Int /\ now \in Int /\ claimed[q] \in Int
  BY DEF IInv, TypeOK
<1>. QED
  BY <1>1, <1>2, TimeAssumption DEF Held

\* A step of r that claims nothing for it and sets no key that was held.
LEMMA QuietStep ==
  ASSUME IInv, TypeOK', NEW r \in Request,
         UNCHANGED <<now, restarts, body, era, claimed>>,
         \A q \in Request \ {r} : at'[q] = at[q] /\ checked'[q] = checked[q],
         \A k \in Key : deadline'[k] >= deadline[k],
         Holder(r)' => Holder(r),
         RequestInv(r)'
  PROVE  IInv'
<1>1. ASSUME NEW q \in Request \ {r} PROVE RequestInv(q)'
  <2>1. RequestInv(q) /\ (Holder(q)' <=> Holder(q))
    BY DEF IInv, Holder
  <2>2. CASE Holder(q)
    <3>1. body[q].key \in Key /\ body[q].stamp \in Int
      BY <2>2, BodyFields DEF IInv, Holder
    <3>2. /\ deadline'[body[q].key] \in Int /\ deadline[body[q].key] \in Int
          /\ deadline'[body[q].key] >= deadline[body[q].key]
          /\ body[q].stamp \in Int /\ claimed[q] \in Int
      BY <3>1 DEF IInv, TypeOK
    <3>. QED
      BY <2>1, <2>2, <3>2, TimeAssumption DEF RequestInv, Holder
  <2>3. CASE ~Holder(q)
    BY <2>1, <2>3 DEF RequestInv, Holder
  <2>. QED
    BY <2>2, <2>3
<1>2. ClaimsApart'
  BY DEF IInv, ClaimsApart, Holder
<1>. QED
  BY <1>1, <1>2 DEF IInv

LEMMA NextIInv == IInv /\ [Next]_vars => IInv'
<1>. SUFFICES ASSUME IInv, [Next]_vars PROVE IInv'
  OBVIOUS
<1>. USE TimeAssumption
<1>0. TypeOK /\ TypeOK'
  BY NextTypeOK DEF IInv
<1>1. ASSUME NEW r \in Request, NEW b \in Body, Begin(r, b) PROVE IInv'
  <2>1. ASSUME NEW q \in Request PROVE RequestInv(q)'
    BY <1>0, <1>1, <2>1 DEF Begin, Goto, IInv, RequestInv, Holder, TypeOK
  <2>2. ClaimsApart'
    BY <1>0, <1>1 DEF Begin, Goto, IInv, ClaimsApart, Holder, TypeOK
  <2>. QED
    BY <1>0, <2>1, <2>2 DEF IInv
<1>2. ASSUME NEW r \in Request, CheckSkew(r) PROVE IInv'
  <2>1. RequestInv(r)'
    <3>1. body[r].stamp \in Int
      BY <1>0, <1>2, BodyFields DEF CheckSkew
    <3>. QED
      BY <1>0, <1>2, <3>1 DEF CheckSkew, Goto, Clock, InWindow, RequestInv, Holder, TypeOK
  <2>. QED
    BY <1>0, <1>2, <2>1, QuietStep DEF CheckSkew, Goto, Holder, TypeOK
<1>3. ASSUME NEW r \in Request, ClaimNonce(r) PROVE IInv'
  <2>0. body[r].key \in Key /\ body[r].stamp \in Int
    BY <1>0, <1>3, BodyFields DEF ClaimNonce
  <2>1. CASE Held(body[r].key)
    <3>1. RequestInv(r)'
      BY <1>0, <1>3, <2>1 DEF ClaimNonce, Goto, RequestInv, Holder, TypeOK
    <3>. QED
      BY <1>0, <1>3, <2>1, <3>1, QuietStep DEF ClaimNonce, Goto, Holder, TypeOK
  <2>2. CASE ~Held(body[r].key)
    <3>1. /\ at' = [at EXCEPT ![r] = "authenticate"]
          /\ deadline' = [deadline EXCEPT ![body[r].key] = now + TTL]
          /\ era' = [era EXCEPT ![r] = restarts]
          /\ claimed' = [claimed EXCEPT ![r] = now]
          /\ checked' = [checked EXCEPT ![r] = 0]
          /\ UNCHANGED <<now, restarts, body>>
      BY <1>3, <2>2 DEF ClaimNonce, RecordClaim, Goto
    <3>2. \A k \in Key : deadline'[k] >= deadline[k]
      BY <1>0, <2>0, <2>2, <3>1 DEF Held, TypeOK
    <3>3. RequestInv(r)'
      BY <1>0, <1>3, <2>0, <3>1 DEF ClaimNonce, IInv, RequestInv, Holder, TypeOK
    <3>4. ASSUME NEW q \in Request \ {r} PROVE RequestInv(q)'
      <4>1. CASE Holder(q)
        <5>0. body[q].key \in Key /\ body[q].stamp \in Int
          BY <1>0, <4>1, BodyFields DEF Holder
        <5>1. /\ deadline'[body[q].key] \in Int /\ deadline[body[q].key] \in Int
              /\ deadline'[body[q].key] >= deadline[body[q].key]
          BY <1>0, <3>2, <5>0 DEF TypeOK
        <5>. QED
          BY <1>0, <3>1, <4>1, <5>0, <5>1 DEF IInv, RequestInv, Holder, TypeOK
      <4>2. CASE ~Holder(q)
        BY <1>0, <3>1, <4>2 DEF IInv, RequestInv, Holder, TypeOK
      <4>. QED
        BY <4>1, <4>2
    <3>5. ClaimsApart'
      <4>1. ASSUME NEW q \in Request \ {r}, Holder(q),
                   body[q].key = body[r].key, era[q] = restarts
            PROVE  now > claimed[q] + TTL
        BY <2>0, <2>2, <4>1, FreeMeansExpired
      <4>. QED
        BY <1>0, <3>1, <4>1 DEF IInv, ClaimsApart, Holder, TypeOK
    <3>. QED
      BY <1>0, <3>3, <3>4, <3>5 DEF IInv
  <2>. QED
    BY <2>1, <2>2
<1>4. ASSUME NEW r \in Request, ClaimNonceUnanswered(r) PROVE IInv'
  <2>0. body[r].key \in Key
    BY <1>0, <1>4, BodyFields DEF ClaimNonceUnanswered
  <2>1. \A k \in Key : deadline'[k] >= deadline[k]
    BY <1>0, <1>4, <2>0 DEF ClaimNonceUnanswered, Held, TypeOK
  <2>2. RequestInv(r)'
    BY <1>4 DEF ClaimNonceUnanswered, IInv, RequestInv, Holder
  <2>. QED
    BY <1>0, <1>4, <2>1, <2>2, QuietStep DEF ClaimNonceUnanswered, Holder
<1>5. ASSUME NEW r \in Request, Authenticate(r) \/ Finish(r) \/ Abort(r) PROVE IInv'
  <2>1. RequestInv(r)'
    BY <1>0, <1>5 DEF Authenticate, Finish, Abort, Goto, IInv, RequestInv, Holder, TypeOK
  <2>2. \A k \in Key : deadline'[k] >= deadline[k]
    BY <1>0, <1>5 DEF Authenticate, Finish, Abort, TypeOK
  <2>. QED
    BY <1>0, <1>5, <2>1, <2>2, QuietStep DEF Authenticate, Finish, Abort, Goto, Holder,
           TypeOK
<1>6. CASE Tick
  <2>1. ASSUME NEW q \in Request PROVE RequestInv(q)'
    <3>1. at[q] = "claimNonce" => body[q].stamp \in Int
      BY <1>0, BodyFields
    <3>. QED
      BY <1>0, <1>6, <3>1 DEF Tick, IInv, RequestInv, Holder, TypeOK
  <2>2. ClaimsApart'
    BY <1>6 DEF Tick, IInv, ClaimsApart, Holder
  <2>. QED
    BY <1>0, <2>1, <2>2 DEF IInv
<1>7. CASE RedisRestart
  <2>1. ASSUME NEW q \in Request PROVE RequestInv(q)'
    BY <1>0, <1>7 DEF RedisRestart, IInv, RequestInv, Holder, TypeOK
  <2>2. ClaimsApart'
    BY <1>7 DEF RedisRestart, IInv, ClaimsApart, Holder
  <2>. QED
    BY <1>0, <2>1, <2>2 DEF IInv
<1>8. CASE UNCHANGED vars
  BY <1>0, <1>8 DEF vars, IInv, RequestInv, ClaimsApart, Holder
<1>. QED
  BY <1>1, <1>2, <1>3, <1>4, <1>5, <1>6, <1>7, <1>8 DEF Next, Step

\* For any TTL, skew, drift, delay and number of requests: what is accepted again
\* is accepted within the window's span, and not within TTL while Redis keeps its
\* keys.
THEOREM ReplaysAreLate == Spec => []ReplayIsLate
<1>1. IInv => ReplayIsLate
  <2>. SUFFICES ASSUME IInv, NEW r \in Request, NEW q \in Request, Repeated(r, q)
                PROVE  /\ claimed[q] <= claimed[r] + 2 * Skew + 2 * Drift + Delay
                       /\ era[r] = era[q] => claimed[q] > claimed[r] + TTL
    BY DEF ReplayIsLate
  <2>1. /\ Holder(r) /\ Holder(q) /\ r # q
        /\ body[r].key = body[q].key /\ body[r].stamp = body[q].stamp
    BY DEF IInv, RequestInv, Repeated, Holder
  <2>2. /\ claimed[r] \in Int /\ claimed[q] \in Int /\ body[r].stamp \in Int
        /\ claimed[r] <= claimed[q]
    BY BodyFields DEF IInv, TypeOK, Repeated
  <2>3. claimed[q] <= claimed[r] + 2 * Skew + 2 * Drift + Delay
    BY <2>1, <2>2, TimeAssumption DEF IInv, RequestInv
  <2>4. era[r] = era[q] => claimed[q] > claimed[r] + TTL
    BY <2>1, <2>2, TimeAssumption DEF IInv, ClaimsApart
  <2>. QED
    BY <2>3, <2>4
<1>. QED
  BY <1>1, InitIInv, NextIInv, PTL DEF Spec

\* So a TTL as long as the whole span refuses every replay; the default TTL is
\* shorter by 2 * Drift + Delay.
COROLLARY LongerTTLSuffices ==
  ASSUME TTL >= 2 * Skew + 2 * Drift + Delay
  PROVE  Spec => []NoReplay
<1>1. TypeOK /\ ReplayIsLate => NoReplay
  <2>. SUFFICES ASSUME TypeOK, ReplayIsLate, NEW r \in Request, NEW q \in Request,
                       Repeated(r, q), era[r] = era[q]
                PROVE  FALSE
    BY DEF NoReplay
  <2>1. /\ claimed[q] <= claimed[r] + 2 * Skew + 2 * Drift + Delay
        /\ claimed[q] > claimed[r] + TTL
    BY DEF ReplayIsLate
  <2>2. claimed[r] \in Int /\ claimed[q] \in Int
    BY DEF TypeOK
  <2>. QED
    BY <2>1, <2>2, TimeAssumption
<1>. QED
  BY <1>1, TypeCorrect, ReplaysAreLate, PTL

-----------------------------------------------------------------------------
LEMMA NextCauseInv == CauseInv /\ [Next]_vars => CauseInv'
<1>. SUFFICES ASSUME CauseInv, [Next]_vars PROVE CauseInv'
  OBVIOUS
<1>. USE TimeAssumption
<1>0. TypeOK /\ TypeOK'
  BY NextTypeOK DEF CauseInv
<1>1. ASSUME NEW r \in Request, NEW b \in Body, Begin(r, b) PROVE CauseInv'
  BY <1>0, <1>1 DEF Begin, Goto, CauseInv, KeyHasCause, RefusalHasCause, TypeOK
<1>2. ASSUME NEW r \in Request, CheckSkew(r) \/ Authenticate(r) \/ Finish(r) \/ Abort(r)
      PROVE  CauseInv'
  BY <1>0, <1>2 DEF CheckSkew, Authenticate, Finish, Abort, Goto, Running, CauseInv,
         KeyHasCause, RefusalHasCause, TypeOK
<1>3. ASSUME NEW r \in Request, ClaimNonce(r) PROVE CauseInv'
  <2>0. /\ at[r] = "claimNonce" /\ body[r].key \in Key /\ era[r] = -1 /\ restarts # -1
        /\ UNCHANGED <<now, body, tries>>
    BY <1>0, <1>3, BodyFields DEF ClaimNonce, CauseInv, TypeOK
  <2>1. CASE /\ Held(body[r].key) /\ at' = [at EXCEPT ![r] = "replayed"]
             /\ UNCHANGED <<deadline, era>>
    <3>1. tries[r] = 0 =>
            \E q \in Request \ {r} : /\ at[q] # "idle" /\ body[q].key = body[r].key
                                     /\ era[q] # -1 \/ tries[q] > 0
      BY <1>0, <2>0, <2>1 DEF Held, CauseInv, KeyHasCause, TypeOK
    <3>2. \A q \in Request \ {r} : at'[q] = at[q]
      BY <1>0, <2>1 DEF TypeOK
    <3>3. at'[r] = "replayed"
      BY <1>0, <2>1 DEF TypeOK
    <3>. QED
      BY <1>0, <2>0, <2>1, <3>1, <3>2, <3>3 DEF CauseInv, KeyHasCause, RefusalHasCause
  <2>2. CASE /\ at' = [at EXCEPT ![r] = "authenticate"]
             /\ deadline' = [deadline EXCEPT ![body[r].key] = now + TTL]
             /\ era' = [era EXCEPT ![r] = restarts]
    <3>1. \A q \in Request \ {r} : at'[q] = at[q] /\ era'[q] = era[q]
      BY <1>0, <2>2 DEF TypeOK
    <3>2. at'[r] = "authenticate" /\ era'[r] # -1
      BY <1>0, <2>0, <2>2 DEF TypeOK
    <3>3. \A k \in Key : k # body[r].key => deadline'[k] = deadline[k]
      BY <1>0, <2>0, <2>2 DEF TypeOK
    <3>4. KeyHasCause'
      BY <2>0, <3>1, <3>2, <3>3 DEF CauseInv, KeyHasCause
    <3>5. RefusalHasCause'
      BY <2>0, <3>1, <3>2 DEF CauseInv, RefusalHasCause
    <3>. QED
      BY <1>0, <3>1, <3>2, <3>4, <3>5 DEF CauseInv
  <2>. QED
    BY <1>3, <2>1, <2>2 DEF ClaimNonce, RecordClaim, Goto
<1>4. ASSUME NEW r \in Request, ClaimNonceUnanswered(r) PROVE CauseInv'
  BY <1>0, <1>4 DEF ClaimNonceUnanswered, CauseInv, KeyHasCause, RefusalHasCause, TypeOK,
         Body
<1>5. CASE Tick \/ RedisRestart \/ UNCHANGED vars
  BY <1>0, <1>5 DEF Tick, RedisRestart, vars, CauseInv, KeyHasCause, RefusalHasCause, TypeOK
<1>. QED
  BY <1>1, <1>2, <1>3, <1>4, <1>5 DEF Next, Step

\* Whatever the clocks and the TTL: a request is refused as a replay only
\* because of another of the same agent and nonce, or of its own second SET.
THEOREM RefusalIsJustified == Spec => []RefusalHasCause
<1>1. Init => CauseInv
  BY InitTypeOK DEF Init, CauseInv, KeyHasCause, RefusalHasCause
<1>2. CauseInv => RefusalHasCause
  BY DEF CauseInv
<1>. QED
  BY <1>1, <1>2, NextCauseInv, PTL DEF Spec
=============================================================================
