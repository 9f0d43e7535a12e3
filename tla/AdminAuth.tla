------------------------------ MODULE AdminAuth ------------------------------
(***************************************************************************)
(* Administrators: the API key of a deployment, the tokens that are        *)
(* exchanged for it (POST /admin/token) and what is admitted with either   *)
(* (backend/api/src/auth/admin.ts).                                        *)
(*                                                                         *)
(* A server reads the key from its environment when it starts; tokens are  *)
(* HMACs under it that no server keeps, each with an expiry by the clock   *)
(* of the server that issued it and judged by that of another.  The key is *)
(* rotated by starting the servers again, one after the other, and clocks  *)
(* are within Drift of the time of the model.                              *)
(***************************************************************************)
EXTENDS Integers, FiniteSets

CONSTANTS Server,
          Key,      \* API keys
          TTL,      \* ADMIN_JWT_TTL_SECONDS
          Drift,    \* of a server's clock
          Horizon,  \* bound: the last tick
          MaxTokens, \* bound: how many tokens are issued
          None      \* no key, or no token

ASSUME AdminAssumption ==
  TTL \in Nat \ {0} /\ Drift \in Nat /\ Horizon \in Nat /\ None \notin Key

VARIABLES
  now,          \* the time
  secret,       \* ADMIN_API_KEY as the secret manager has it
  adminApiKey,  \* the key a server read at its start
  tokens,       \* every token issued; issued is history, the time it was
  shown,        \* history: when a key was last accepted from a caller, -1 never
  admitted      \* history: the key of the server of the last admission, and when

vars == <<now, secret, adminApiKey, tokens, shown, admitted>>

Token == [key : Key, exp : Int, issued : Nat]
Nobody == [key |-> None, at |-> 0]

TypeOK ==
  /\ now \in Nat
  /\ secret \in Key
  /\ adminApiKey \in [Server -> Key]
  /\ tokens \subseteq Token
  /\ shown \in [Key -> Nat \cup {-1}]
  /\ admitted \in [key : Key, at : Nat] \cup {Nobody}

Init ==
  /\ now = 0
  /\ secret \in Key
  /\ adminApiKey = [s \in Server |-> secret]
  /\ tokens = {}
  /\ shown = [k \in Key |-> -1]
  /\ admitted = Nobody

-----------------------------------------------------------------------------
\* What a server's clock can read.
Clock == (now - Drift) .. (now + Drift)

\* The signature of a token, checked under the key of the server.
Under(s, token) == token.key = adminApiKey[s]

Unexpired(token, clock) == token.exp > clock

\* verifyAdminToken; issuer, audience and scope are the same for every token.
verifyAdminToken(s, token, clock) == Under(s, token) /\ Unexpired(token, clock)

\* verifyAdminAuth: the header with the API key, and only without the right one
\* the bearer token.
verifyAdminAuth(s, apiKey, bearer, clock) ==
  \/ apiKey = adminApiKey[s]
  \/ bearer \in tokens /\ verifyAdminToken(s, bearer, clock)

\* A caller lets a server see its key, in time for the reply.
Show(k) == shown' = [shown EXCEPT ![k] = now]

\* Mutant: POST /admin/token asks for what the other endpoints ask for.
ExchangeAnyAuth(s, apiKey, clock) ==
  \/ apiKey = adminApiKey[s]
  \/ \E t \in tokens : verifyAdminToken(s, t, clock)

\* The key in the body or in the header, and never a token.
Exchange(s, apiKey, clock) == apiKey = adminApiKey[s]

\* Mutant: the token is good until it was issued.
ExpiryNow(clock) == clock

\* Mutant: the token is signed without an expiry.
ExpiryUnset(clock) == None

Expiry(clock) == clock + TTL

\* POST /admin/token and issueAdminToken
IssueAdminToken(s, apiKey) ==
  /\ Cardinality(tokens) < MaxTokens
  /\ \E clock \in Clock :
       /\ Exchange(s, apiKey, clock)
       /\ tokens' = tokens \cup
            {[key |-> adminApiKey[s], exp |-> Expiry(clock), issued |-> now]}
  /\ IF apiKey = adminApiKey[s] THEN Show(apiKey) ELSE UNCHANGED shown
  /\ UNCHANGED <<now, secret, adminApiKey, admitted>>

\* Any operation that starts with verifyAdminAuth, such as POST /handshake/session:
\* from here on its handler does not look at the caller again.
AdminOperation(s, apiKey, bearer) ==
  /\ \E clock \in Clock : verifyAdminAuth(s, apiKey, bearer, clock)
  /\ admitted' = [key |-> adminApiKey[s], at |-> now]
  /\ IF apiKey = adminApiKey[s] THEN Show(apiKey) ELSE UNCHANGED shown
  /\ UNCHANGED <<now, secret, adminApiKey, tokens>>

-----------------------------------------------------------------------------
\* The operator's part: a new version of the secret, and restarts to pick it up.
Rotate(k) ==
  /\ secret' = k
  /\ UNCHANGED <<now, adminApiKey, tokens, shown, admitted>>

\* The process starts and reads its environment; a token outlives it.
Restart(s) ==
  /\ adminApiKey' = [adminApiKey EXCEPT ![s] = secret]
  /\ UNCHANGED <<now, secret, tokens, shown, admitted>>

Tick ==
  /\ now < Horizon
  /\ now' = now + 1
  /\ UNCHANGED <<secret, adminApiKey, tokens, shown, admitted>>

Next ==
  \/ \E s \in Server, k \in Key : IssueAdminToken(s, k)
  \/ \E s \in Server, k \in Key \cup {None}, t \in tokens \cup {None} : AdminOperation(s, k, t)
  \/ \E k \in Key : Rotate(k)
  \/ \E s \in Server : Restart(s)
  \/ Tick

Spec == Init /\ [][Next]_vars

-----------------------------------------------------------------------------
\* Whoever is admitted by a server has shown somebody that server's key, less
\* than the life of a token and twice the drift ago: a token cannot be used to
\* get the next one, and none is of use after the key of the servers changed.
AccessNeedsKey ==
  admitted # Nobody =>
    /\ shown[admitted.key] # -1
    /\ admitted.at < shown[admitted.key] + TTL + 2 * Drift

\* The other way round, the reply's expires_in is kept up to the drift: until
\* then every server with the key of the one that issued the token admits it.
ExpiresInIsKept ==
  \A t \in tokens, s \in Server :
    /\ adminApiKey[s] = t.key
    /\ now + 2 * Drift < t.issued + TTL
    => \A clock \in Clock : verifyAdminAuth(s, None, t, clock)
=============================================================================
