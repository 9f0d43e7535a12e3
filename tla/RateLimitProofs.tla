-------------------------- MODULE RateLimitProofs --------------------------
(***************************************************************************)
(* Proofs about RateLimit for any subjects and requests, any clock         *)
(* readings within Drift and any number of restarts of Redis.              *)
(*                                                                         *)
(* INCR answers each request of one life of a counter with a value of its  *)
(* own, and only the values 1 to Limit are let through.  What could hand   *)
(* out a value twice is the counter's expiry within its minute: KeyTTL has *)
(* to cover the minute, the clocks' disagreement and the way to Redis.     *)
(* The code's 70 seconds leave ten for the latter two.                     *)
(*                                                                         *)
(* The causes of a limit and of a counter that stays need none of that:    *)
(* they are kept whatever the TTL and the clocks.                          *)
(***************************************************************************)
EXTENDS RateLimit, FiniteSetTheorems, TLAPS

TTLCoversMinute == KeyTTL >= Window - 1 + 2 * Drift + Delay

\* What a request has established.  Its counter cannot have begun before the
\* minute, and an INCR on its way is in time for it.
RequestInv(r) ==
  /\ at[r] = "incr" =>
       /\ now <= arrived[r] + Delay
       /\ arrived[r] <= Start(key[r]) + Window - 1 + Drift
       /\ value[r] = 0
  /\ at[r] = "idle" => value[r] = 0
  /\ at[r] \in {"incr", "expire"} => now >= Start(key[r]) - Drift
  /\ at[r] = "allowed" => value[r] \in 1 .. Limit
  /\ at[r] = "expire" => value[r] > 0
  /\ value[r] > 0 => /\ era[r] <= restarts
                     /\ era[r] = restarts => count[key[r]] >= value[r]

\* Two requests were never answered the same by one life of a counter.
DistinctValues ==
  \A r, q \in Request :
    /\ r # q /\ value[r] > 0 /\ value[q] > 0
    /\ key[r] = key[q] /\ era[r] = era[q]
    => value[r] # value[q]

\* No counter expires while an INCR for its minute can be on its way.
LongLeases ==
  \A k \in Key : lease[k] # -1 => lease[k] >= Start(k) - Drift + KeyTTL

\* The inductive invariant.
IInv ==
  /\ TypeOK
  /\ \A r \in Request : RequestInv(r)
  /\ DistinctValues
  /\ LongLeases

-----------------------------------------------------------------------------
LEMMA StartType == \A k \in Key : Start(k) \in Int
BY TimeAssumption DEF Start, Key, Bucket

LEMMA InitTypeOK == Init => TypeOK
BY DEF Init, TypeOK

LEMMA IncrementType ==
  ASSUME TypeOK, NEW k \in Key, Increment(k)
  PROVE  /\ count' \in [Key -> Nat] /\ lease' \in [Key -> Int]
         /\ count'[k] >= 1
BY DEF TypeOK, Increment

LEMMA NextTypeOK == TypeOK /\ [Next]_vars => TypeOK'
<1>. SUFFICES ASSUME TypeOK, [Next]_vars PROVE TypeOK'
  OBVIOUS
<1>. USE TimeAssumption
<1>1. ASSUME NEW r \in Request, NEW s \in Subject, Begin(r, s) PROVE TypeOK'
  <2>1. {s} \X Bucket \subseteq Key
    BY DEF Key
  <2>. QED
    BY <1>1, <2>1 DEF TypeOK, Begin, Goto, Running, Final
<1>2. ASSUME NEW r \in Request, Incr(r) PROVE TypeOK'
  <2>1. key[r] \in Key
    BY <1>2 DEF TypeOK, Incr
  <2>2. count' \in [Key -> Nat] /\ lease' \in [Key -> Int]
    BY <1>2, <2>1, IncrementType DEF Incr
  <2>. QED
    BY <1>2, <2>1, <2>2 DEF TypeOK, Incr, Decide, Goto, Running, Final
<1>3. ASSUME NEW r \in Request, IncrUnanswered(r) PROVE TypeOK'
  <2>1. key[r] \in Key
    BY <1>3 DEF TypeOK, IncrUnanswered
  <2>2. count' \in [Key -> Nat] /\ lease' \in [Key -> Int]
    BY <1>3, <2>1, IncrementType DEF IncrUnanswered
  <2>. QED
    BY <1>3, <2>1, <2>2 DEF TypeOK, IncrUnanswered
<1>4. ASSUME NEW r \in Request, Expire(r) PROVE TypeOK'
  BY <1>4 DEF TypeOK, Expire, Decide, Goto, Running, Final
<1>5. ASSUME NEW r \in Request, Abort(r) PROVE TypeOK'
  BY <1>5 DEF TypeOK, Abort, Goto, Running, Final
<1>6. CASE Tick
  BY <1>6 DEF TypeOK, Tick
<1>7. CASE RedisRestart
  BY <1>7 DEF TypeOK, RedisRestart
<1>8. CASE UNCHANGED vars
  BY <1>8 DEF TypeOK, vars
<1>. QED
  BY <1>1, <1>2, <1>3, <1>4, <1>5, <1>6, <1>7, <1>8 DEF Next, Step

\* Every variable keeps to its type; counters are only written for requests
\* that have arrived.
THEOREM TypeCorrect == Spec => []TypeOK
BY InitTypeOK, NextTypeOK, PTL DEF Spec

-----------------------------------------------------------------------------
LEMMA InitIInv == Init => IInv
BY InitTypeOK DEF Init, IInv, RequestInv, DistinctValues, LongLeases

\* An INCR on its way meets a counter that has not expired, so that counting
\* goes on from what the requests before it were answered.
LEMMA IncrementCounts ==
  ASSUME TTLCoversMinute, IInv, NEW r \in Request, at[r] = "incr", Increment(key[r])
  PROVE  /\ count' = [count EXCEPT ![key[r]] = @ + 1]
         /\ \A k \in Key : lease'[k] # -1 => lease'[k] = lease[k]
<1>1. key[r] \in Key /\ Start(key[r]) \in Int
  BY StartType DEF IInv, TypeOK
<1>2. /\ count[key[r]] \in Nat /\ lease[key[r]] \in Int
      /\ now \in Int /\ arrived[r] \in Int
  BY <1>1 DEF IInv, TypeOK
<1>3. /\ now <= arrived[r] + Delay
      /\ arrived[r] <= Start(key[r]) + Window - 1 + Drift
      /\ lease[key[r]] # -1 => lease[key[r]] >= Start(key[r]) - Drift + KeyTTL
  BY <1>1 DEF IInv, RequestInv, LongLeases
<1>4. lease[key[r]] = -1 \/ now <= lease[key[r]]
  BY <1>1, <1>2, <1>3, TimeAssumption DEF TTLCoversMinute
<1>5. Alive(key[r]) <=> count[key[r]] # 0
  BY <1>2, <1>4 DEF Alive
<1>6. count' = [count EXCEPT ![key[r]] = @ + 1]
  <2>1. CASE count[key[r]] # 0
    BY <1>5, <2>1 DEF Increment
  <2>2. CASE count[key[r]] = 0
    BY <1>5, <2>2 DEF Increment
  <2>. QED
    BY <2>1, <2>2
<1>7. \A k \in Key : lease'[k] # -1 => lease'[k] = lease[k]
  BY <1>1, <1>2 DEF Increment, IInv, TypeOK
<1>. QED
  BY <1>6, <1>7

LEMMA NextIInv == TTLCoversMinute /\ IInv /\ [Next]_vars => IInv'
<1>. SUFFICES ASSUME TTLCoversMinute, IInv, [Next]_vars PROVE IInv'
  OBVIOUS
<1>. USE TimeAssumption, LimitAssumption
<1>0. TypeOK /\ TypeOK'
  BY NextTypeOK DEF IInv
<1>a. \A q \in Request : at[q] # "idle" => key[q] \in Key /\ Start(key[q]) \in Int
  BY <1>0, StartType DEF TypeOK
<1>1. ASSUME NEW r \in Request, NEW s \in Subject, Begin(r, s) PROVE IInv'
  <2>. PICK k \in {s} \X Bucket, clock \in (now - Drift) .. (now + Drift) :
         Names(k, clock) /\ key' = [key EXCEPT ![r] = k]
    BY <1>1 DEF Begin
  <2>1. k \in Key /\ Start(k) \in Int
    BY StartType DEF Key
  <2>2. /\ at' = [at EXCEPT ![r] = "incr"] /\ key' = [key EXCEPT ![r] = k]
        /\ arrived' = [arrived EXCEPT ![r] = now]
        /\ UNCHANGED <<now, restarts, count, lease, value, tries, era>>
        /\ at[r] = "idle" /\ value[r] = 0
    BY <1>1 DEF Begin, Goto, IInv, RequestInv
  <2>3. RequestInv(r)'
    BY <1>0, <2>1, <2>2 DEF RequestInv, Names, Start, TypeOK
  <2>4. ASSUME NEW q \in Request \ {r} PROVE RequestInv(q)'
    BY <1>0, <2>2 DEF IInv, RequestInv, Start, TypeOK
  <2>5. DistinctValues'
    BY <1>0, <2>2 DEF IInv, DistinctValues, TypeOK
  <2>6. LongLeases'
    BY <2>2 DEF IInv, LongLeases, Start
  <2>. QED
    BY <1>0, <2>3, <2>4, <2>5, <2>6 DEF IInv
<1>2. ASSUME NEW r \in Request, Incr(r) PROVE IInv'
  <2>1. /\ count' = [count EXCEPT ![key[r]] = @ + 1]
        /\ \A k \in Key : lease'[k] # -1 => lease'[k] = lease[k]
    BY <1>2, IncrementCounts DEF Incr
  <2>2. /\ value' = [value EXCEPT ![r] = count[key[r]] + 1]
        /\ era' = [era EXCEPT ![r] = restarts]
        /\ at' = [at EXCEPT ![r] = at'[r]]
        /\ at'[r] = "expire" \/ at'[r] = Decide(count[key[r]] + 1)
        /\ arrived' = [arrived EXCEPT ![r] = 0]
        /\ UNCHANGED <<now, restarts, key, tries>>
        /\ at[r] = "incr" /\ key[r] \in Key /\ count[key[r]] \in Nat
    BY <1>0, <1>2, <1>a, <2>1 DEF Incr, Goto, TypeOK
  <2>3. RequestInv(r)'
    BY <1>0, <1>a, <2>1, <2>2 DEF IInv, RequestInv, Decide, Start, TypeOK
  <2>4. ASSUME NEW q \in Request \ {r} PROVE RequestInv(q)'
    <3>1. value[q] > 0 => key[q] \in Key
      BY <1>0, <1>a DEF IInv, RequestInv, TypeOK
    <3>2. key[q] \in Key => count[key[q]] \in Nat /\ count'[key[q]] >= count[key[q]]
      BY <1>0, <2>1, <2>2 DEF TypeOK
    <3>. QED
      BY <1>0, <2>2, <3>1, <3>2 DEF IInv, RequestInv, Start, TypeOK
  <2>5. DistinctValues'
    <3>1. ASSUME NEW q \in Request \ {r}, value[q] > 0, key[q] = key[r], era[q] = restarts
          PROVE  value[q] # count[key[r]] + 1
      BY <1>0, <2>2, <3>1 DEF IInv, RequestInv, TypeOK
    <3>. QED
      BY <1>0, <2>2, <3>1 DEF IInv, DistinctValues, TypeOK
  <2>6. LongLeases'
    BY <2>1 DEF IInv, LongLeases, Start
  <2>. QED
    BY <1>0, <2>3, <2>4, <2>5, <2>6 DEF IInv
<1>3. ASSUME NEW r \in Request, IncrUnanswered(r) PROVE IInv'
  <2>1. /\ count' = [count EXCEPT ![key[r]] = @ + 1]
        /\ \A k \in Key : lease'[k] # -1 => lease'[k] = lease[k]
    BY <1>3, IncrementCounts DEF IncrUnanswered
  <2>2. /\ UNCHANGED <<now, restarts, at, key, arrived, value, era>>
        /\ key[r] \in Key /\ count[key[r]] \in Nat
    BY <1>0, <1>3, <1>a DEF IncrUnanswered, TypeOK
  <2>3. ASSUME NEW q \in Request PROVE RequestInv(q)'
    <3>1. value[q] > 0 => key[q] \in Key
      BY <1>0, <1>a DEF IInv, RequestInv, TypeOK
    <3>2. key[q] \in Key => count[key[q]] \in Nat /\ count'[key[q]] >= count[key[q]]
      BY <1>0, <2>1, <2>2 DEF TypeOK
    <3>. QED
      BY <1>0, <2>2, <3>1, <3>2 DEF IInv, RequestInv, Start, TypeOK
  <2>4. DistinctValues' /\ LongLeases'
    BY <2>1, <2>2 DEF IInv, DistinctValues, LongLeases, Start
  <2>. QED
    BY <1>0, <2>3, <2>4 DEF IInv
<1>4. ASSUME NEW r \in Request, Expire(r) PROVE IInv'
  <2>. PICK answer \in {Decide(value[r]), "error"} : at' = [at EXCEPT ![r] = answer]
    BY <1>4 DEF Expire, Goto
  <2>1. /\ at' = [at EXCEPT ![r] = answer]
        /\ UNCHANGED <<now, restarts, count, key, arrived, value, tries, era>>
        /\ at[r] = "expire" /\ key[r] \in Key /\ Start(key[r]) \in Int
        /\ now >= Start(key[r]) - Drift /\ value[r] > 0
    BY <1>4, <1>a DEF Expire, IInv, RequestInv
  <2>2. ASSUME NEW q \in Request PROVE RequestInv(q)'
    BY <1>0, <2>1 DEF IInv, RequestInv, Decide, Start, TypeOK
  <2>3. DistinctValues'
    BY <2>1 DEF IInv, DistinctValues
  <2>4. LongLeases'
    BY <1>0, <1>4, <2>1 DEF Expire, IInv, LongLeases, Start, TypeOK
  <2>. QED
    BY <1>0, <2>2, <2>3, <2>4 DEF IInv
<1>5. ASSUME NEW r \in Request, Abort(r) PROVE IInv'
  <2>1. ASSUME NEW q \in Request PROVE RequestInv(q)'
    BY <1>0, <1>5 DEF Abort, Goto, Running, IInv, RequestInv, Start, TypeOK
  <2>2. DistinctValues' /\ LongLeases'
    BY <1>5 DEF Abort, IInv, DistinctValues, LongLeases, Start
  <2>. QED
    BY <1>0, <2>1, <2>2 DEF IInv
<1>6. CASE Tick
  <2>1. ASSUME NEW q \in Request PROVE RequestInv(q)'
    BY <1>0, <1>6, <1>a DEF Tick, IInv, RequestInv, Start, TypeOK
  <2>2. DistinctValues' /\ LongLeases'
    BY <1>6 DEF Tick, IInv, DistinctValues, LongLeases, Start
  <2>. QED
    BY <1>0, <2>1, <2>2 DEF IInv
<1>7. CASE RedisRestart
  <2>1. ASSUME NEW q \in Request PROVE RequestInv(q)'
    BY <1>0, <1>7 DEF RedisRestart, IInv, RequestInv, Start, TypeOK
  <2>2. DistinctValues' /\ LongLeases'
    BY <1>0, <1>7 DEF RedisRestart, IInv, DistinctValues, LongLeases, Start, TypeOK
  <2>. QED
    BY <1>0, <2>1, <2>2 DEF IInv
<1>8. CASE UNCHANGED vars
  BY <1>0, <1>8 DEF vars, IInv, RequestInv, DistinctValues, LongLeases, Start
<1>. QED
  BY <1>1, <1>2, <1>3, <1>4, <1>5, <1>6, <1>7, <1>8 DEF Next, Step

\* The requests let through hold different values between 1 and Limit.
LEMMA AllowedIsBounded ==
  ASSUME IInv, NEW k \in Key, NEW e \in Nat
  PROVE  Cardinality({r \in Request : at[r] = "allowed" /\ key[r] = k /\ era[r] = e}) <= Limit
<1>. DEFINE Allowed == {r \in Request : at[r] = "allowed" /\ key[r] = k /\ era[r] = e}
            f == [r \in Allowed |-> value[r]]
<1>1. f \in Injection(Allowed, 1 .. Limit)
  <2>1. \A r \in Allowed : value[r] \in 1 .. Limit /\ value[r] > 0
    BY LimitAssumption DEF IInv, RequestInv
  <2>2. \A r, q \in Allowed : r # q => value[r] # value[q]
    BY <2>1 DEF IInv, DistinctValues
  <2>3. f \in [Allowed -> 1 .. Limit]
    BY <2>1
  <2>4. \A r, q \in Allowed : f[r] = f[q] => r = q
    BY <2>2
  <2>. QED
    BY <2>3, <2>4 DEF Injection, IsInjective
<1>2. IsFiniteSet(1 .. Limit) /\ Cardinality(1 .. Limit) = Limit
  BY FS_Interval, LimitAssumption
<1>3. Cardinality(Allowed) <= Cardinality(1 .. Limit)
  BY <1>1, <1>2, FS_Injection
<1>. QED
  BY <1>2, <1>3

\* If the TTL covers the minute, the clocks' disagreement and the way to
\* Redis, then no subject is let through more than Limit times in a minute.
THEOREM LimitIsKept == ASSUME TTLCoversMinute PROVE Spec => []WithinLimit
<1>1. IInv => WithinLimit
  BY AllowedIsBounded DEF WithinLimit, IInv, TypeOK
<1>2. IInv /\ [Next]_vars => IInv'
  BY NextIInv
<1>. QED
  BY <1>1, <1>2, InitIInv, PTL DEF Spec

-----------------------------------------------------------------------------
(* The causes of a limit and of a counter that stays *)

LEMMA LeaseCauseStep == TypeOK /\ LeaseHasCause /\ [Next]_vars => LeaseHasCause'
<1>. SUFFICES ASSUME TypeOK, LeaseHasCause, [Next]_vars,
                     NEW k \in Key, count'[k] > 0, lease'[k] = -1
              PROVE  \/ restarts' > 0
                     \/ \E r \in Request : /\ at'[r] # "idle" /\ key'[r] = k
                                           /\ at'[r] \in {"expire", "error"} \/ tries'[r] > 0
  BY DEF LeaseHasCause
<1>. USE TimeAssumption
<1>1. count[k] > 0 /\ lease[k] = -1 =>
        \/ restarts > 0
        \/ \E r \in Request : /\ at[r] # "idle" /\ key[r] = k
                              /\ at[r] \in {"expire", "error"} \/ tries[r] > 0
  BY DEF LeaseHasCause
<1>2. ASSUME NEW r \in Request, NEW s \in Subject, Begin(r, s) PROVE LeaseHasCause'
  BY <1>2 DEF TypeOK, LeaseHasCause, Begin, Goto
<1>3. ASSUME NEW r \in Request, Incr(r)
      PROVE  \/ restarts' > 0
             \/ \E q \in Request : /\ at'[q] # "idle" /\ key'[q] = k
                                   /\ at'[q] \in {"expire", "error"} \/ tries'[q] > 0
  <2>1. CASE key[r] = k /\ ~Alive(k)
    <3>1. count'[k] = 1
      BY <1>3, <2>1 DEF TypeOK, Incr, Increment
    <3>2. value'[r] = 1
      BY <1>3, <2>1, <3>1 DEF TypeOK, Incr
    <3>3. at'[r] = "expire" /\ key'[r] = k
      BY <1>3, <2>1, <3>2 DEF TypeOK, Incr, Goto
    <3>. QED
      BY <3>3
  <2>2. CASE key[r] # k \/ Alive(k)
    <3>1. count[k] > 0 /\ lease[k] = -1
      BY <1>3, <2>2 DEF TypeOK, Incr, Increment, Alive
    <3>2. /\ at' = [at EXCEPT ![r] = at'[r]] /\ at'[r] # "idle" /\ at[r] = "incr"
          /\ UNCHANGED <<restarts, key, tries>>
      BY <1>3 DEF TypeOK, Incr, Goto, Decide
    <3>. QED
      BY <1>1, <3>1, <3>2 DEF TypeOK
  <2>. QED
    BY <2>1, <2>2
<1>4. ASSUME NEW r \in Request, IncrUnanswered(r)
      PROVE  \/ restarts' > 0
             \/ \E q \in Request : /\ at'[q] # "idle" /\ key'[q] = k
                                   /\ at'[q] \in {"expire", "error"} \/ tries'[q] > 0
  <2>1. CASE key[r] = k
    BY <1>4, <2>1 DEF TypeOK, IncrUnanswered
  <2>2. CASE key[r] # k
    <3>1. count[k] > 0 /\ lease[k] = -1
      BY <1>4, <2>2 DEF TypeOK, IncrUnanswered, Increment
    <3>. QED
      BY <1>1, <1>4, <3>1 DEF TypeOK, IncrUnanswered
  <2>. QED
    BY <2>1, <2>2
<1>5. ASSUME NEW r \in Request, Expire(r)
      PROVE  \/ restarts' > 0
             \/ \E q \in Request : /\ at'[q] # "idle" /\ key'[q] = k
                                   /\ at'[q] \in {"expire", "error"} \/ tries'[q] > 0
  <2>1. count[k] > 0 /\ lease[k] = -1 /\ key[r] # k
    BY <1>5 DEF TypeOK, Expire, Alive
  <2>. QED
    BY <1>1, <1>5, <2>1 DEF TypeOK, Expire, Goto
<1>6. ASSUME NEW r \in Request, Abort(r) PROVE LeaseHasCause'
  BY <1>6 DEF TypeOK, LeaseHasCause, Abort, Goto
<1>7. CASE Tick
  BY <1>1, <1>7 DEF Tick
<1>8. CASE RedisRestart
  BY <1>8 DEF TypeOK, RedisRestart
<1>9. CASE UNCHANGED vars
  BY <1>1, <1>9 DEF vars
<1>. QED
  BY <1>2, <1>3, <1>4, <1>5, <1>6, <1>7, <1>8, <1>9 DEF Next, Step, LeaseHasCause

\* Whatever the TTL, the clocks and the crashes: a counter that has no expiry is
\* about to get one, or its EXPIRE failed, its INCR was sent twice, or Redis restarted.
THEOREM LeaseIsCaused == Spec => []LeaseHasCause
<1>1. Init => LeaseHasCause
  BY DEF Init, LeaseHasCause
<1>. QED
  BY <1>1, LeaseCauseStep, TypeCorrect, PTL DEF Spec

\* The requests of a counter that were answered.
Counted(k) == {q \in Request : key[q] = k /\ value[q] > 0}

SentOnce(k) == \A q \in Request : key[q] = k => tries[q] = 0

\* A request that has not been answered is not counted, and one that is limited
\* read more than the limit.
AnsweredInv(r) ==
  /\ at[r] \in {"idle", "incr"} => value[r] = 0
  /\ at[r] = "idle" => key[r] = None
  /\ at[r] = "limited" => value[r] > Limit

\* Sent once each, the INCRs of a counter number no less than it and than any of
\* their answers.
CountInv(k) ==
  /\ IsFiniteSet(Counted(k))
  /\ SentOnce(k) => /\ count[k] <= Cardinality(Counted(k))
                    /\ \A q \in Counted(k) : value[q] <= Cardinality(Counted(k))

CInv == TypeOK /\ (\A r \in Request : AnsweredInv(r)) /\ (\A k \in Key : CountInv(k))

LEMMA InitCInv == Init => CInv
<1>. SUFFICES ASSUME Init PROVE CInv
  OBVIOUS
<1>1. ASSUME NEW k \in Key PROVE CountInv(k)
  <2>1. Counted(k) = {}
    BY DEF Init, Counted
  <2>2. count[k] = 0
    BY DEF Init
  <2>. QED
    BY <2>1, <2>2, FS_EmptySet DEF CountInv
<1>. QED
  BY <1>1, InitTypeOK DEF Init, CInv, AnsweredInv

\* A step that answers nobody and moves no key leaves what is counted as it was.
LEMMA CountedStays ==
  ASSUME NEW k \in Key, CountInv(k), Counted(k)' = Counted(k), SentOnce(k)' => SentOnce(k),
         \A q \in Counted(k) : value'[q] = value[q],
         SentOnce(k)' => count'[k] <= count[k],
         count'[k] \in Nat, count[k] \in Nat
  PROVE  CountInv(k)'
<1>1. Cardinality(Counted(k)) \in Nat
  BY FS_CardinalityType DEF CountInv
<1>. QED
  BY <1>1 DEF CountInv

LEMMA NextCInv == CInv /\ [Next]_vars => CInv'
<1>. SUFFICES ASSUME CInv, [Next]_vars PROVE CInv'
  OBVIOUS
<1>. USE LimitAssumption, NoneAssumption
<1>0. TypeOK /\ TypeOK'
  BY NextTypeOK DEF CInv
<1>a. \A k \in Key : count[k] \in Nat /\ count'[k] \in Nat
  BY <1>0 DEF TypeOK
<1>1. ASSUME NEW r \in Request, NEW s \in Subject, Begin(r, s) PROVE CInv'
  <2>1. value[r] = 0 /\ key[r] = None /\ \A q \in Request \ {r} : key'[q] = key[q]
    BY <1>0, <1>1 DEF CInv, AnsweredInv, Begin, TypeOK
  <2>2. \A q \in Request : AnsweredInv(q)'
    BY <1>0, <1>1 DEF CInv, AnsweredInv, Begin, Goto, TypeOK
  <2>3. ASSUME NEW k \in Key PROVE CountInv(k)'
    <3>1. Counted(k)' = Counted(k)
      BY <1>1, <2>1 DEF Counted, Begin
    <3>2. SentOnce(k)' => SentOnce(k)
      BY <1>1, <2>1 DEF SentOnce, Begin
    <3>. QED
      BY <1>1, <1>a, <3>1, <3>2, CountedStays DEF CInv, Begin
  <2>. QED
    BY <1>0, <2>2, <2>3 DEF CInv
<1>2. ASSUME NEW r \in Request, Incr(r) PROVE CInv'
  <2>1. /\ key[r] \in Key /\ value[r] = 0
        /\ value' = [value EXCEPT ![r] = count'[key[r]]]
        /\ at' = [at EXCEPT ![r] = at'[r]]
        /\ at'[r] = "expire" \/ at'[r] = Decide(count'[key[r]])
        /\ UNCHANGED <<key, tries>>
    BY <1>0, <1>2 DEF CInv, AnsweredInv, TypeOK, Incr, Goto
  <2>2. /\ count'[key[r]] \in Nat /\ count'[key[r]] >= 1 /\ count'[key[r]] <= count[key[r]] + 1
        /\ \A k \in Key \ {key[r]} : count'[k] = count[k]
    BY <1>0, <1>2, <1>a, <2>1 DEF Incr, Increment, TypeOK
  <2>3. \A q \in Request : AnsweredInv(q)'
    BY <1>0, <2>1, <2>2 DEF CInv, AnsweredInv, Decide, TypeOK
  <2>4. ASSUME NEW k \in Key, k # key[r] PROVE CountInv(k)'
    <3>1. Counted(k)' = Counted(k) /\ (SentOnce(k)' => SentOnce(k))
      BY <1>0, <2>1, <2>4 DEF Counted, SentOnce, TypeOK
    <3>2. \A q \in Counted(k) : value'[q] = value[q]
      BY <1>0, <2>1, <2>4 DEF Counted, TypeOK
    <3>. QED
      BY <1>a, <2>2, <2>4, <3>1, <3>2, CountedStays DEF CInv
  <2>5. CountInv(key[r])'
    <3>. DEFINE C == Counted(key[r])
    <3>1. /\ IsFiniteSet(C) /\ Cardinality(C) \in Nat
          /\ SentOnce(key[r]) => /\ count[key[r]] <= Cardinality(C)
                                 /\ \A q \in C : value[q] <= Cardinality(C)
      BY <2>1, FS_CardinalityType DEF CInv, CountInv
    <3>2. Counted(key[r])' = C \cup {r} /\ r \notin C
      BY <1>0, <2>1, <2>2 DEF Counted, TypeOK
    <3>3. IsFiniteSet(C \cup {r}) /\ Cardinality(C \cup {r}) = Cardinality(C) + 1
      BY <3>1, <3>2, FS_AddElement
    <3>4. SentOnce(key[r])' => SentOnce(key[r])
      BY <2>1 DEF SentOnce
    <3>5. \A q \in C : value'[q] = value[q] /\ value[q] \in Nat
      BY <1>0, <2>1, <3>2 DEF Counted, TypeOK
    <3>6. value'[r] = count'[key[r]] /\ count[key[r]] \in Nat
      BY <1>0, <1>a, <2>1 DEF TypeOK
    <3>7. key'[r] = key[r]
      BY <2>1
    <3>. HIDE DEF C
    <3>8. SentOnce(key[r])' =>
            /\ count'[key[r]] <= Cardinality(C \cup {r})
            /\ \A q \in C \cup {r} : value'[q] <= Cardinality(C \cup {r})
      BY <2>2, <3>1, <3>3, <3>4, <3>5, <3>6
    <3>. QED
      BY <3>2, <3>3, <3>7, <3>8 DEF CountInv
  <2>. QED
    BY <1>0, <2>3, <2>4, <2>5, <2>1 DEF CInv
<1>3. ASSUME NEW r \in Request, IncrUnanswered(r) PROVE CInv'
  <2>1. key[r] \in Key
    BY <1>0, <1>3 DEF TypeOK, IncrUnanswered
  <2>2. \A q \in Request : AnsweredInv(q)'
    BY <1>3 DEF CInv, AnsweredInv, IncrUnanswered
  <2>3. ASSUME NEW k \in Key PROVE CountInv(k)'
    <3>1. Counted(k)' = Counted(k) /\ \A q \in Counted(k) : value'[q] = value[q]
      BY <1>3 DEF Counted, IncrUnanswered
    <3>2. CASE k = key[r]
      <4>1. ~SentOnce(k)'
        BY <1>0, <1>3, <3>2 DEF SentOnce, IncrUnanswered, TypeOK
      <4>. QED
        BY <1>a, <3>1, <4>1, CountedStays DEF CInv
    <3>3. CASE k # key[r]
      <4>1. count'[k] = count[k] /\ (SentOnce(k)' => SentOnce(k))
        BY <1>0, <1>3, <3>3 DEF SentOnce, IncrUnanswered, Increment, TypeOK
      <4>. QED
        BY <1>a, <3>1, <4>1, CountedStays DEF CInv
    <3>. QED
      BY <3>2, <3>3
  <2>. QED
    BY <1>0, <2>2, <2>3 DEF CInv
<1>4. ASSUME UNCHANGED <<key, value, tries>>, \A k \in Key : count'[k] <= count[k],
             \A q \in Request : AnsweredInv(q)'
      PROVE  CInv'
  <2>1. ASSUME NEW k \in Key PROVE CountInv(k)'
    <3>1. Counted(k)' = Counted(k) /\ (SentOnce(k)' => SentOnce(k))
      BY <1>4 DEF Counted, SentOnce
    <3>. QED
      BY <1>4, <1>a, <3>1, CountedStays DEF CInv
  <2>. QED
    BY <1>0, <1>4, <2>1 DEF CInv
<1>5. ASSUME NEW r \in Request, Expire(r) PROVE CInv'
  <2>1. \A q \in Request : AnsweredInv(q)'
    <3>. PICK answer \in {Decide(value[r]), "error"} : at' = [at EXCEPT ![r] = answer]
      BY <1>5 DEF Expire, Goto
    <3>. QED
      BY <1>0, <1>5 DEF CInv, AnsweredInv, Expire, Decide, TypeOK
  <2>. QED
    BY <1>4, <1>5, <1>a, <2>1 DEF Expire
<1>6. ASSUME NEW r \in Request, Abort(r) PROVE CInv'
  <2>1. \A q \in Request : AnsweredInv(q)'
    BY <1>0, <1>6 DEF CInv, AnsweredInv, Abort, Goto, Running, TypeOK
  <2>. QED
    BY <1>4, <1>6, <1>a, <2>1 DEF Abort
<1>7. CASE Tick
  BY <1>4, <1>7, <1>a DEF Tick, CInv, AnsweredInv
<1>8. CASE RedisRestart
  BY <1>0, <1>4, <1>8, <1>a DEF RedisRestart, CInv, AnsweredInv, TypeOK
<1>9. CASE UNCHANGED vars
  BY <1>4, <1>9, <1>a DEF vars, CInv, AnsweredInv
<1>. QED
  BY <1>1, <1>2, <1>3, <1>5, <1>6, <1>7, <1>8, <1>9 DEF Next, Step

\* Whatever the TTL, the clocks and the crashes: no request is limited while its
\* minute has counted fewer than Limit others, if each INCR was sent once.
THEOREM LimitIsCaused == Spec => []LimitedHasCause
<1>1. CInv => LimitedHasCause
  <2>. SUFFICES ASSUME CInv, NEW r \in Request, at[r] = "limited",
                       \A q \in Request : key[q] = key[r] => tries[q] = 0
                PROVE  Cardinality({q \in Request \ {r} : key[q] = key[r] /\ value[q] > 0}) >= Limit
    BY DEF LimitedHasCause
  <2>. DEFINE C == Counted(key[r])
  <2>1. key[r] \in Key /\ value[r] \in Nat /\ value[r] > Limit /\ r \in C
    BY LimitAssumption DEF CInv, TypeOK, AnsweredInv, Counted
  <2>2. IsFiniteSet(C) /\ Cardinality(C) \in Nat /\ value[r] <= Cardinality(C)
    BY <2>1, FS_CardinalityType DEF CInv, CountInv, SentOnce
  <2>3. {q \in Request \ {r} : key[q] = key[r] /\ value[q] > 0} = C \ {r}
    BY DEF Counted
  <2>4. Cardinality(C \ {r}) = Cardinality(C) - 1
    BY <2>1, <2>2, FS_RemoveElement
  <2>. HIDE DEF C
  <2>5. Cardinality(C \ {r}) >= Limit
    BY <2>1, <2>2, <2>4, LimitAssumption
  <2>. QED
    BY <2>3, <2>5, Zenon
<1>. QED
  BY <1>1, InitCInv, NextCInv, PTL DEF Spec
=============================================================================
