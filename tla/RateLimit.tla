----------------------------- MODULE RateLimit -----------------------------
(***************************************************************************)
(* enforceRateLimit: how many requests of one subject the API servers      *)
(* together let through in a minute, counted in Redis under a key that     *)
(* names the subject and the minute (backend/api/src/routes/index.ts).     *)
(*                                                                         *)
(* Five endpoints of every server share these counters.  Counting is two   *)
(* awaited calls, INCR and, for the request that finds itself the first,   *)
(* EXPIRE; the key has to outlive its minute, and to expire at all.        *)
(* Time is an integer number of ticks of Redis' clock, as in ReplayGuard.  *)
(***************************************************************************)
EXTENDS Integers, FiniteSets

CONSTANTS Subject,  \* x-agent-id headers, or addresses
          Request,  \* the bound: every request is handled once
          Limit,    \* RATE_LIMIT_PER_MINUTE
          Window,   \* 60 seconds
          KeyTTL,   \* 70 seconds
          Delay,    \* from reading the server's clock to the effect of the INCR
          Drift,    \* of a server's clock from that of Redis
          Resends,  \* how often the Redis client sends a call again
          Horizon,  \* bound: the last tick
          Restarts, \* bound: how often Redis loses keys
          None      \* not a subject

ASSUME LimitAssumption == Limit \in Nat \ {0}
ASSUME TimeAssumption ==
  /\ Window \in Nat \ {0} /\ KeyTTL \in Nat \ {0}
  /\ Delay \in Nat /\ Drift \in Nat /\ Resends \in Nat /\ Horizon \in Nat

\* The minutes that a server's clock can read before the last tick, and the
\* keys ratelimit:<subject>:<bucket>.
Bucket == 0 .. (Horizon + Drift) \div Window
Key == Subject \X Bucket

ASSUME NoneAssumption == None \notin Key

VARIABLES
  now,       \* Redis' clock
  restarts,  \* how often Redis lost keys
  count,     \* the value of each counter, 0 where there is none
  lease,     \* when it expires; -1 where it has no expiry
  at,        \* the call a request awaits, or the answer of enforceRateLimit
  key,       \* the counter of the request
  arrived,   \* when its server read the clock, for an INCR on its way
  value,     \* what INCR answered; 0 before that
  tries,     \* how often its INCR was executed and the answer lost
  era        \* history: the value of restarts when INCR answered

vars == <<now, restarts, count, lease, at, key, arrived, value, tries, era>>

Final == {"allowed", "limited", "error"}
Running == {"incr", "expire"}

TypeOK ==
  /\ now \in Nat /\ restarts \in Nat
  /\ count \in [Key -> Nat]
  /\ lease \in [Key -> Int]
  /\ at \in [Request -> {"idle"} \cup Running \cup Final]
  /\ key \in [Request -> Key \cup {None}]
  /\ \A r \in Request : at[r] # "idle" => key[r] \in Key
  /\ arrived \in [Request -> Nat]
  /\ value \in [Request -> Nat]
  /\ tries \in [Request -> Nat]
  /\ era \in [Request -> Nat]

Init ==
  /\ now = 0 /\ restarts = 0
  /\ count = [k \in Key |-> 0]
  /\ lease = [k \in Key |-> -1]
  /\ at = [r \in Request |-> "idle"]
  /\ key = [r \in Request |-> None]
  /\ arrived = [r \in Request |-> 0]
  /\ value = [r \in Request |-> 0]
  /\ tries = [r \in Request |-> 0]
  /\ era = [r \in Request |-> 0]

-----------------------------------------------------------------------------
Goto(r, label) == at' = [at EXCEPT ![r] = label]

\* When the minute of a counter begins, by the clock of the servers.
Start(k) == k[2] * Window

\* Math.floor(clock / 60000) is the bucket of k.
Names(k, clock) == Start(k) <= clock /\ clock < Start(k) + Window

\* Redis holds a key up to and including its expiry, for good if it has none.
Alive(k) == count[k] > 0 /\ (lease[k] = -1 \/ now <= lease[k])

\* The server reads its clock and sends the INCR without a break.
Begin(r, s) ==
  /\ at[r] = "idle"
  /\ \E k \in {s} \X Bucket :
       /\ \E clock \in (now - Drift) .. (now + Drift) : Names(k, clock)
       /\ key' = [key EXCEPT ![r] = k]
  /\ arrived' = [arrived EXCEPT ![r] = now]
  /\ Goto(r, "incr")
  /\ UNCHANGED <<now, restarts, count, lease, value, tries, era>>

\* INCR starts a counter that is not there or has expired, without an expiry.
Increment(k) ==
  /\ count' = [count EXCEPT ![k] = IF Alive(k) THEN @ + 1 ELSE 1]
  /\ lease' = [lease EXCEPT ![k] = IF Alive(k) THEN @ ELSE -1]

\* Mutant: the limit itself is over the limit.
DecideBelow(v) == IF v < Limit THEN "allowed" ELSE "limited"

Decide(v) == IF v <= Limit THEN "allowed" ELSE "limited"

\* INCR and its answer; only the request that reads 1 goes on to EXPIRE.
Incr(r) ==
  /\ at[r] = "incr"
  /\ Increment(key[r])
  /\ value' = [value EXCEPT ![r] = count'[key[r]]]
  /\ arrived' = [arrived EXCEPT ![r] = 0]
  /\ era' = [era EXCEPT ![r] = restarts]
  /\ Goto(r, IF value'[r] = 1 THEN "expire" ELSE Decide(value'[r]))
  /\ UNCHANGED <<now, restarts, key, tries>>

\* The connection breaks after the INCR took effect: ioredis reconnects and
\* sends the call it has no answer to again.
IncrUnanswered(r) ==
  /\ at[r] = "incr"
  /\ tries[r] < Resends
  /\ Increment(key[r])
  /\ tries' = [tries EXCEPT ![r] = @ + 1]
  /\ UNCHANGED <<now, restarts, at, key, arrived, value, era>>

\* Mutant: the expiry is left to the requests over the limit.
ExpireLater(r) ==
  /\ at[r] = "expire"
  /\ lease' = [lease EXCEPT ![key[r]] = IF Alive(key[r]) /\ value[r] > Limit THEN now + KeyTTL ELSE @]
  /\ \E answer \in {Decide(value[r]), "error"} : Goto(r, answer)
  /\ UNCHANGED <<now, restarts, count, key, arrived, value, tries, era>>

\* Mutant: the expiry is relative to the minute, and may be in the past.
ExpireAtMinute(r) ==
  /\ at[r] = "expire"
  /\ lease' = [lease EXCEPT ![key[r]] = IF Alive(key[r]) THEN Start(key[r]) + 1 ELSE @]
  /\ \E answer \in {Decide(value[r]), "error"} : Goto(r, answer)
  /\ UNCHANGED <<now, restarts, count, key, arrived, value, tries, era>>

\* EXPIRE of a key that is gone does nothing; its answer can be lost.
Expire(r) ==
  /\ at[r] = "expire"
  /\ lease' = [lease EXCEPT ![key[r]] = IF Alive(key[r]) THEN now + KeyTTL ELSE @]
  /\ \E answer \in {Decide(value[r]), "error"} : Goto(r, answer)
  /\ UNCHANGED <<now, restarts, count, key, arrived, value, tries, era>>

\* Mutant: a request that fails is taken off the counter, counted or not.
AbortUncounted(r) ==
  /\ at[r] \in Running
  /\ Goto(r, "error")
  /\ count' = [count EXCEPT ![key[r]] = @ - 1]
  /\ arrived' = [arrived EXCEPT ![r] = 0]
  /\ UNCHANGED <<now, restarts, lease, key, value, tries, era>>

\* A call rejects or the process dies.
Abort(r) ==
  /\ at[r] \in Running
  /\ Goto(r, "error")
  /\ arrived' = [arrived EXCEPT ![r] = 0]
  /\ UNCHANGED <<now, restarts, count, lease, key, value, tries, era>>

-----------------------------------------------------------------------------
\* Time passes, but not while an INCR has been on its way for Delay.
Tick ==
  /\ now < Horizon
  /\ \A r \in Request : at[r] = "incr" => now < arrived[r] + Delay
  /\ now' = now + 1
  /\ UNCHANGED <<restarts, count, lease, at, key, arrived, value, tries, era>>

\* Redis comes back with some counters as they were at its last snapshot:
\* lower or not there, or not yet with an expiry.
RedisRestart ==
  /\ restarts < Restarts
  /\ restarts' = restarts + 1
  /\ \E k \in Key :
       /\ count[k] > 0
       /\ \E c \in 0 .. count[k], e \in {-1, lease[k]} :
            /\ count' = [count EXCEPT ![k] = c]
            /\ lease' = [lease EXCEPT ![k] = e]
  /\ UNCHANGED <<now, at, key, arrived, value, tries, era>>

Step(r) == Incr(r) \/ IncrUnanswered(r) \/ Expire(r) \/ Abort(r)

Next ==
  \/ \E r \in Request : (\E s \in Subject : Begin(r, s)) \/ Step(r)
  \/ Tick
  \/ RedisRestart

Spec == Init /\ [][Next]_vars

-----------------------------------------------------------------------------
\* All servers together let through at most Limit requests of a subject in a
\* minute, as long as Redis does not lose the counter.
WithinLimit ==
  \A k \in Key, e \in 0 .. restarts :
    Cardinality({r \in Request : at[r] = "allowed" /\ key[r] = k /\ era[r] = e}) <= Limit

\* No request is limited for less than Limit others in its minute, unless
\* one of their INCRs was sent twice.
LimitedHasCause ==
  \A r \in Request :
    /\ at[r] = "limited"
    /\ \A q \in Request : key[q] = key[r] => tries[q] = 0
    => Cardinality({q \in Request \ {r} : key[q] = key[r] /\ value[q] > 0}) >= Limit

\* A counter is without an expiry only between the two calls of the request
\* that started it, or for good when that request failed in between, an INCR
\* was sent twice, or Redis restarted.
LeaseHasCause ==
  \A k \in Key :
    count[k] > 0 /\ lease[k] = -1 =>
      \/ restarts > 0
      \/ \E r \in Request : /\ at[r] # "idle" /\ key[r] = k
                            /\ at[r] \in {"expire", "error"} \/ tries[r] > 0
=============================================================================
