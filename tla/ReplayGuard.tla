---------------------------- MODULE ReplayGuard ----------------------------
(***************************************************************************)
(* The replay protection of POST /verify: the window around the server's   *)
(* clock that a request's timestamp has to lie in, and the nonce that is   *)
(* claimed in Redis with SET .. EX .. NX, in that order and before the     *)
(* token is looked at (backend/api/src/routes/index.ts).                   *)
(*                                                                         *)
(* Time is an integer number of ticks of Redis' clock.  The clocks of the  *)
(* servers differ from it by at most Drift, and a SET takes effect at most *)
(* Delay after the server read its clock; the code bounds neither.  Nor    *)
(* does it relate TTL to Skew: its defaults are 120 s and 60 s.            *)
(***************************************************************************)
EXTENDS Integers

CONSTANTS Token,    \* tokens that agents have signed
          Key,      \* nonce keys, nonce:<agent_id>:<nonce>
          keyOf,    \* the key that the claims of each token name
          tsOf,     \* the timestamp in the claims of each token
          Request,  \* the bound: every request is handled once
          Stamp,    \* the timestamps that bodies carry
          Skew,     \* TIMESTAMP_SKEW_MS
          TTL,      \* NONCE_TTL_SECONDS
          Delay,    \* from reading the server's clock to the effect of the SET
          Drift,    \* of a server's clock from that of Redis
          Resends,  \* how often the Redis client sends a call again
          Horizon,  \* bound: the last tick
          Restarts, \* bound: how often Redis loses keys
          None      \* not a body

ASSUME TokenAssumption ==
  keyOf \in [Token -> Key] /\ tsOf \in [Token -> Stamp] /\ Stamp \subseteq Nat

ASSUME TimeAssumption ==
  /\ Skew \in Nat \ {0} /\ TTL \in Nat \ {0}
  /\ Delay \in Nat /\ Drift \in Nat /\ Resends \in Nat

\* What a request brings: the agent, nonce and timestamp of the body need not
\* be those of the token.
Body == [token : Token, key : Key, stamp : Stamp]

ASSUME NoneAssumption == None \notin Body

VARIABLES
  now,       \* Redis' clock
  deadline,  \* when each nonce key expires; -1 where there is none
  restarts,  \* how often Redis lost keys
  at,        \* the call a request awaits, or its answer
  body,      \* what it brought
  checked,   \* when its timestamp was compared with the server's clock, for a SET
             \* on its way
  tries,     \* how often its SET was executed and the answer lost
  era,       \* history: the value of restarts when its SET was answered OK,
             \* -1 before that
  claimed    \* history: the time of that SET, -1 before it

vars == <<now, deadline, restarts, at, body, checked, tries, era, claimed>>

Final == {"ok", "denied", "replayed", "error"}
Running == {"checkSkew", "claimNonce", "authenticate", "finish"}

TypeOK ==
  /\ now \in Nat
  /\ deadline \in [Key -> Int]
  /\ restarts \in Nat
  /\ at \in [Request -> {"idle"} \cup Running \cup Final]
  /\ body \in [Request -> Body \cup {None}]
  /\ \A r \in Request : at[r] # "idle" => body[r] \in Body
  /\ checked \in [Request -> Nat]
  /\ tries \in [Request -> Nat]
  /\ era \in [Request -> Int]
  /\ claimed \in [Request -> Int]

Init ==
  /\ now = 0 /\ restarts = 0
  /\ deadline = [k \in Key |-> -1]
  /\ at = [r \in Request |-> "idle"]
  /\ body = [r \in Request |-> None]
  /\ checked = [r \in Request |-> 0]
  /\ tries = [r \in Request |-> 0]
  /\ era = [r \in Request |-> -1]
  /\ claimed = [r \in Request |-> -1]

-----------------------------------------------------------------------------
Goto(r, label) == at' = [at EXCEPT ![r] = label]

\* Redis holds a key up to and including its deadline.
Held(k) == now <= deadline[k]

\* A server's clock reads a value within Drift of Redis' clock.
Clock == (now - Drift) .. (now + Drift)

\* Mutant: a timestamp in the future is always in the window.
InWindowOfPast(clock, ts) == clock - ts <= Skew

InWindow(clock, ts) == clock - ts <= Skew /\ ts - clock <= Skew

\* The rate limit, the schema, isRevoked and the agent's status come first, and
\* have no part in this; a request they turn away is none here.
Begin(r, b) ==
  /\ at[r] = "idle"
  /\ body' = [body EXCEPT ![r] = b]
  /\ Goto(r, "checkSkew")
  /\ UNCHANGED <<now, deadline, restarts, checked, tries, era, claimed>>

\* The window is compared, and the SET sent, without a break.
CheckSkew(r) ==
  /\ at[r] = "checkSkew"
  /\ \E clock \in Clock :
       Goto(r, IF InWindow(clock, body[r].stamp) THEN "claimNonce" ELSE "denied")
  /\ checked' = [checked EXCEPT ![r] = now]
  /\ UNCHANGED <<now, deadline, restarts, body, tries, era, claimed>>

\* The SET of a nonce was answered OK; history only.
RecordClaim(r) ==
  /\ era' = [era EXCEPT ![r] = restarts]
  /\ claimed' = [claimed EXCEPT ![r] = now]

\* Mutant: one nonce key for all agents.
ClaimNonceOfAnyAgent(r) ==
  /\ at[r] = "claimNonce"
  /\ \/ /\ \E k \in Key : Held(k)
        /\ Goto(r, "replayed")
        /\ UNCHANGED <<deadline, era, claimed>>
     \/ /\ \A k \in Key : ~Held(k)
        /\ deadline' = [deadline EXCEPT ![body[r].key] = now + TTL]
        /\ RecordClaim(r)
        /\ Goto(r, "authenticate")
  /\ checked' = [checked EXCEPT ![r] = 0]
  /\ UNCHANGED <<now, restarts, body, tries>>

\* Mutant: SET .. NX without EX, and the key stays for good.
ClaimNonceForGood(r) ==
  /\ at[r] = "claimNonce"
  /\ \/ /\ Held(body[r].key)
        /\ Goto(r, "replayed")
        /\ UNCHANGED <<deadline, era, claimed>>
     \/ /\ ~Held(body[r].key)
        /\ deadline' = [deadline EXCEPT ![body[r].key] = None]
        /\ RecordClaim(r)
        /\ Goto(r, "authenticate")
  /\ checked' = [checked EXCEPT ![r] = 0]
  /\ UNCHANGED <<now, restarts, body, tries>>

\* SET key 1 EX ttl NX, and its answer.
ClaimNonce(r) ==
  /\ at[r] = "claimNonce"
  /\ \/ /\ Held(body[r].key)
        /\ Goto(r, "replayed")
        /\ UNCHANGED <<deadline, era, claimed>>
     \/ /\ ~Held(body[r].key)
        /\ deadline' = [deadline EXCEPT ![body[r].key] = now + TTL]
        /\ RecordClaim(r)
        /\ Goto(r, "authenticate")
  /\ checked' = [checked EXCEPT ![r] = 0]
  /\ UNCHANGED <<now, restarts, body, tries>>

\* The connection breaks after the SET took effect: ioredis reconnects and
\* sends the call it has no answer to again.
ClaimNonceUnanswered(r) ==
  /\ at[r] = "claimNonce"
  /\ tries[r] < Resends
  /\ tries' = [tries EXCEPT ![r] = @ + 1]
  /\ deadline' = [deadline EXCEPT ![body[r].key] = IF Held(body[r].key) THEN @ ELSE now + TTL]
  /\ UNCHANGED <<now, restarts, at, body, checked, era, claimed>>

\* getLatestPublicJwk, verifyAgentJwt, the protocol version, and the claims of
\* the token against the body; any of the first three can fail.
Authenticate(r) ==
  /\ at[r] = "authenticate"
  /\ \/ /\ body[r].key = keyOf[body[r].token]
        /\ body[r].stamp = tsOf[body[r].token]
        /\ Goto(r, "finish")
     \/ Goto(r, "denied")
  /\ UNCHANGED <<now, deadline, restarts, body, checked, tries, era, claimed>>

\* The manifest, the scope and the audit row.
Finish(r) ==
  /\ at[r] = "finish"
  /\ \E answer \in {"ok", "denied"} : Goto(r, answer)
  /\ UNCHANGED <<now, deadline, restarts, body, checked, tries, era, claimed>>

\* A call rejects or the process dies; what was claimed stays claimed.
Abort(r) ==
  /\ at[r] \in Running
  /\ Goto(r, "error")
  /\ checked' = [checked EXCEPT ![r] = 0]
  /\ UNCHANGED <<now, deadline, restarts, body, tries, era, claimed>>

-----------------------------------------------------------------------------
\* Time passes, but not while a SET has been on its way for Delay.
Tick ==
  /\ now < Horizon
  /\ \A r \in Request : at[r] = "claimNonce" => now < checked[r] + Delay
  /\ now' = now + 1
  /\ UNCHANGED <<deadline, restarts, at, body, checked, tries, era, claimed>>

\* Redis comes back without the keys since its last snapshot, or without any.
RedisRestart ==
  /\ restarts < Restarts
  /\ \E lost \in SUBSET Key :
       deadline' = [k \in Key |-> IF k \in lost THEN -1 ELSE deadline[k]]
  /\ restarts' = restarts + 1
  /\ UNCHANGED <<now, at, body, checked, tries, era, claimed>>

Step(r) ==
  \/ CheckSkew(r) \/ ClaimNonce(r) \/ ClaimNonceUnanswered(r)
  \/ Authenticate(r) \/ Finish(r) \/ Abort(r)

Next ==
  \/ \E r \in Request : (\E b \in Body : Begin(r, b)) \/ Step(r)
  \/ Tick
  \/ RedisRestart

Spec == Init /\ [][Next]_vars

-----------------------------------------------------------------------------
\* Two accepted requests r and q with one token, r's nonce claimed first.
Repeated(r, q) ==
  /\ r # q /\ at[r] = "ok" /\ at[q] = "ok"
  /\ body[r].token = body[q].token
  /\ claimed[r] <= claimed[q]

\* Whatever the TTL, a token that is accepted again is accepted while some server
\* can find its timestamp in the window, also after Redis lost its keys (first
\* conjunct); and as long as Redis loses none, not before its nonce expired (second).
\* With the default TTL of 2 * Skew there are 2 * Drift + Delay between the two.
ReplayIsLate ==
  \A r, q \in Request : Repeated(r, q) =>
    /\ claimed[q] <= claimed[r] + 2 * Skew + 2 * Drift + Delay
    /\ era[r] = era[q] => claimed[q] > claimed[r] + TTL

\* What docs/deployment-and-pilot.md:34 has a pilot verify, "`nonce_replay` on
\* duplicate": while Redis keeps its keys, no token is accepted twice.  Not so
\* with the default TTL.
NoReplay ==
  \A r, q \in Request : Repeated(r, q) => era[r] # era[q]

\* A request that is refused as a replay is one, unless its own SET was sent
\* twice: the SET of another request with the same agent and nonce took effect.
RefusalHasCause ==
  \A r \in Request :
    at[r] = "replayed" /\ tries[r] = 0 =>
      \E q \in Request \ {r} :
        /\ at[q] # "idle" /\ body[q].key = body[r].key
        /\ era[q] # -1 \/ tries[q] > 0

=============================================================================
