-------------------------- MODULE TrustScoreProofs --------------------------
(***************************************************************************)
(* Proofs about TrustScore for any agents, reports and computations.       *)
(*                                                                         *)
(* The log only grows, and a computation reads it after it began: what it  *)
(* saw lies between began and the end of the log (Ordered).  When nothing  *)
(* about the agent was inserted between those two, whatever lies between   *)
(* them is the same.                                                       *)
(*                                                                         *)
(* The arithmetic needs no induction: counts and sums are cardinalities,   *)
(* ratios are pairs, and one event more is one element more.               *)
(***************************************************************************)
EXTENDS TrustScore, TLAPS, FiniteSetTheorems

Between(low, mid, high) == low <= mid /\ mid <= high

\* What a computation, by its label, and a stored score have seen.
Ordered ==
  /\ \A r \in Request :
       /\ at[r] \in Running => began[r] <= Len(events)
       /\ at[r] \in {"uptime", "agent", "store"} => Between(began[r], seen[r], Len(events))
       /\ at[r] \in {"agent", "store"} => Between(began[r], heard[r], Len(events))
  /\ \A a \in Agent : trust_scores[a] # None =>
       /\ Between(trust_scores[a].began, trust_scores[a].seen, Len(events))
       /\ Between(trust_scores[a].began, trust_scores[a].heard, Len(events))

IInv == TypeOK /\ Ordered

-----------------------------------------------------------------------------
LEMMA InitTypeOK == Init => TypeOK
BY DEF Init, TypeOK

LEMMA LengthIsNat == TypeOK => Len(events) \in Nat
BY DEF TypeOK

LEMMA NextTypeOK == TypeOK /\ [Next]_vars => TypeOK'
<1>. SUFFICES ASSUME TypeOK, [Next]_vars PROVE TypeOK'
  OBVIOUS
<1>. USE DEF Running
<1>0. Len(events) \in Nat
  BY LengthIsNat
<1>1. ASSUME NEW a \in Enrolled, NEW e \in Report, RecordEvent(a, e) PROVE TypeOK'
  <2>1. events' \in Seq([agent : Enrolled, report : Report])
    BY <1>1 DEF TypeOK, RecordEvent
  <2>. QED
    BY <1>1, <2>1 DEF TypeOK, RecordEvent
<1>2. ASSUME NEW r \in Request, Compute(r) PROVE TypeOK'
  <2>1. CASE Begin(r)
    BY <1>0, <2>1 DEF TypeOK, Begin, Goto
  <2>2. CASE ReadCounts(r)
    BY <1>0, <2>2 DEF TypeOK, ReadCounts, Goto, SeenNow
  <2>3. CASE ReadUptime(r)
    BY <1>0, <2>3 DEF TypeOK, ReadUptime, Goto
  <2>4. CASE ReadAgent(r)
    <3>1. CASE Goto(r, "agent", "store") /\ UNCHANGED <<seen, heard, began>>
      BY <2>4, <3>1 DEF TypeOK, ReadAgent, Goto
    <3>2. CASE End(r, "agent")
      BY <2>4, <3>2 DEF TypeOK, ReadAgent, End, Goto
    <3>. QED
      BY <2>4, <3>1, <3>2 DEF ReadAgent
  <2>5. CASE StoreScore(r)
    <3>1. RowOf(r) \in Row /\ subject[r] \in Agent
      BY DEF TypeOK, RowOf, Row
    <3>. QED
      BY <2>5, <3>1 DEF TypeOK, StoreScore, End, Goto
  <2>6. CASE Abort(r)
    BY <2>6 DEF TypeOK, Abort, End, Goto
  <2>. QED
    BY <1>2, <2>1, <2>2, <2>3, <2>4, <2>5, <2>6 DEF Compute
<1>3. CASE UNCHANGED vars
  BY <1>3 DEF TypeOK, vars
<1>. QED
  BY <1>1, <1>2, <1>3 DEF Next

\* Every variable keeps to its type; a stored score was made of counts, and of
\* nothing that was not read.
THEOREM TypeCorrect == Spec => []TypeOK
BY InitTypeOK, NextTypeOK, PTL DEF Spec

-----------------------------------------------------------------------------
LEMMA InitIInv == Init => IInv
BY InitTypeOK DEF Init, IInv, Ordered, Running

LEMMA NextIInv == IInv /\ [Next]_vars => IInv'
<1>. SUFFICES ASSUME IInv, [Next]_vars PROVE IInv'
  OBVIOUS
<1>. USE DEF Running, Between
<1>0. TypeOK /\ TypeOK' /\ Ordered /\ Len(events) \in Nat
  BY NextTypeOK, LengthIsNat DEF IInv
<1>1. ASSUME NEW a \in Enrolled, NEW e \in Report, RecordEvent(a, e) PROVE Ordered'
  <2>1. Len(events') = Len(events) + 1
    BY <1>0, <1>1 DEF RecordEvent, TypeOK
  <2>2. \A r \in Request : began[r] \in Nat /\ seen[r] \in Nat /\ heard[r] \in Nat
    BY <1>0 DEF TypeOK
  <2>3. \A b \in Agent : trust_scores[b] # None =>
          /\ trust_scores[b].began \in Nat /\ trust_scores[b].seen \in Nat
          /\ trust_scores[b].heard \in Nat
    BY <1>0 DEF TypeOK, Row
  <2>. QED
    BY <1>0, <1>1, <2>1, <2>2, <2>3 DEF Ordered, RecordEvent
<1>2. ASSUME NEW r \in Request, Compute(r) PROVE Ordered'
  <2>0. began[r] \in Nat /\ seen[r] \in Nat /\ heard[r] \in Nat
    BY <1>0 DEF TypeOK
  <2>1. CASE Begin(r)
    BY <1>0, <2>0, <2>1 DEF Ordered, TypeOK, Begin, Goto
  <2>2. CASE ReadCounts(r)
    BY <1>0, <2>0, <2>2 DEF Ordered, TypeOK, ReadCounts, Goto, SeenNow
  <2>3. CASE ReadUptime(r)
    BY <1>0, <2>0, <2>3 DEF Ordered, TypeOK, ReadUptime, Goto
  <2>4. CASE ReadAgent(r)
    BY <1>0, <2>4 DEF Ordered, TypeOK, ReadAgent, End, Goto
  <2>5. CASE StoreScore(r)
    <3>1. \A a \in Agent :
            trust_scores'[a] = IF a = subject[r] THEN RowOf(r) ELSE trust_scores[a]
      BY <1>0, <2>5 DEF TypeOK, StoreScore
    <3>2. /\ Between(RowOf(r).began, RowOf(r).seen, Len(events))
          /\ Between(RowOf(r).began, RowOf(r).heard, Len(events))
      BY <1>0, <2>5 DEF Ordered, StoreScore, End, Goto, RowOf
    <3>. QED
      BY <1>0, <2>5, <3>1, <3>2 DEF Ordered, TypeOK, StoreScore, End, Goto
  <2>6. CASE Abort(r)
    BY <1>0, <2>6 DEF Ordered, TypeOK, Abort, End, Goto
  <2>. QED
    BY <1>2, <2>1, <2>2, <2>3, <2>4, <2>5, <2>6 DEF Compute
<1>3. ASSUME UNCHANGED vars PROVE Ordered'
  BY <1>0, <1>3 DEF Ordered, vars
<1>4. Ordered'
  BY <1>1, <1>2, <1>3 DEF Next
<1>. QED
  BY <1>0, <1>4 DEF IInv

LEMMA SameBetween ==
  ASSUME NEW log, NEW a, NEW low \in Nat, NEW mid \in Nat, NEW high \in Nat,
         Between(low, mid, high), Of(log, a, low) = Of(log, a, high)
  PROVE  Of(log, a, mid) = Of(log, a, high)
BY DEF Between, Of

\* A stored score whose computation began after the agent's last event is made
\* of all of its events, whatever else runs and whichever computation writes last.
THEOREM ScoreIsCurrent == Spec => []CurrentWhenQuiet
<1>1. ASSUME IInv PROVE CurrentWhenQuiet
  <2>1. SUFFICES ASSUME NEW a \in Agent, trust_scores[a] # None,
                        Of(events, a, trust_scores[a].began) = Of(events, a, Len(events))
                 PROVE  /\ Of(events, a, trust_scores[a].seen) = Of(events, a, Len(events))
                        /\ Of(events, a, trust_scores[a].heard) = Of(events, a, Len(events))
    BY DEF CurrentWhenQuiet
  <2>2. /\ trust_scores[a].began \in Nat /\ trust_scores[a].seen \in Nat
        /\ trust_scores[a].heard \in Nat
    BY <1>1, <2>1 DEF IInv, TypeOK, Row
  <2>3. /\ Between(trust_scores[a].began, trust_scores[a].seen, Len(events))
        /\ Between(trust_scores[a].began, trust_scores[a].heard, Len(events))
    BY <1>1, <2>1 DEF IInv, Ordered
  <2>. QED
    BY <1>1, <2>1, <2>2, <2>3, LengthIsNat, SameBetween DEF IInv
<1>. QED
  BY <1>1, InitIInv, NextIInv, PTL DEF Spec

-----------------------------------------------------------------------------
(* Fractions, as pairs: sums, multiples and rounding keep bounds and order. *)

Fraction == Nat \X (Nat \ {0})

\* p is at most the number k; p is at most q.
Within(p, k) == p[1] <= k * p[2]
AtMost(p, q) == p[1] * q[2] <= q[1] * p[2]

Round(p) == (2 * p[1] + p[2]) \div (2 * p[2])

\* Monotone multiplication and distribution, one factor at a time for the provers.
LEMMA TimesOrder ==
  ASSUME NEW x \in Int, NEW y \in Int, NEW z \in Nat, x <= y
  PROVE  x * z <= y * z
OBVIOUS

LEMMA Distribute ==
  ASSUME NEW x \in Int, NEW y \in Int, NEW z \in Int
  PROVE  (x + y) * z = x * z + y * z /\ x * (y + z) = x * y + x * z
OBVIOUS

LEMMA PlusWithin ==
  ASSUME NEW p \in Fraction, NEW q \in Fraction, NEW k \in Nat, NEW l \in Nat,
         Within(p, k), Within(q, l)
  PROVE  Plus(p, q) \in Fraction /\ Within(Plus(p, q), k + l)
<1>. DEFINE a == p[1]  b == p[2]  c == q[1]  d == q[2]
<1>0. a \in Nat /\ b \in Nat \ {0} /\ c \in Nat /\ d \in Nat \ {0}
  BY DEF Fraction
<1>1. Plus(p, q) = <<a * d + c * b, b * d>>
  BY DEF Plus
<1>. HIDE DEF a, b, c, d
<1>2. a * d <= (k * b) * d /\ c * b <= (l * d) * b
  <2>1. a <= k * b /\ c <= l * d
    BY DEF Within, a, b, c, d
  <2>. QED
    BY <1>0, <2>1, TimesOrder
<1>3. (k * b) * d + (l * d) * b = (k + l) * (b * d)
  BY <1>0
<1>4. a * d \in Nat /\ c * b \in Nat /\ b * d \in Nat /\ b * d # 0
  BY <1>0
<1>. QED
  BY <1>0, <1>1, <1>2, <1>3, <1>4 DEF Fraction, Within

LEMMA TimesWithin ==
  ASSUME NEW p \in Fraction, NEW k \in Nat, Within(p, 1)
  PROVE  Times(k, p) \in Fraction /\ Within(Times(k, p), k)
<1>0. p[1] \in Nat /\ p[2] \in Nat \ {0} /\ p[1] <= p[2]
  BY DEF Fraction, Within
<1>1. k * p[1] \in Nat /\ p[1] * k <= p[2] * k
  BY <1>0, TimesOrder
<1>. QED
  BY <1>0, <1>1 DEF Fraction, Within, Times

LEMMA PlusOrder ==
  ASSUME NEW p \in Fraction, NEW q \in Fraction, NEW s \in Fraction, NEW t \in Fraction,
         AtMost(p, s), AtMost(q, t)
  PROVE  AtMost(Plus(p, q), Plus(s, t))
<1>. DEFINE a == p[1]  b == p[2]  c == q[1]  d == q[2]
            e == s[1]  f == s[2]  g == t[1]  h == t[2]
<1>0. /\ a \in Nat /\ b \in Nat /\ c \in Nat /\ d \in Nat
      /\ e \in Nat /\ f \in Nat /\ g \in Nat /\ h \in Nat
  BY DEF Fraction
<1>1. a * f <= e * b /\ c * h <= g * d
  BY DEF AtMost
<1>2. Plus(p, q) = <<a * d + c * b, b * d>> /\ Plus(s, t) = <<e * h + g * f, f * h>>
  BY DEF Plus
<1>. HIDE DEF a, b, c, d, e, f, g, h
<1>3. (a * f) * (d * h) <= (e * b) * (d * h) /\ (c * h) * (b * f) <= (g * d) * (b * f)
  BY <1>0, <1>1, TimesOrder
<1>4. /\ (a * d + c * b) * (f * h) = (a * f) * (d * h) + (c * h) * (b * f)
      /\ (e * h + g * f) * (b * d) = (e * b) * (d * h) + (g * d) * (b * f)
  BY <1>0
<1>. QED
  BY <1>0, <1>2, <1>3, <1>4 DEF AtMost

LEMMA TimesKeepsOrder ==
  ASSUME NEW p \in Fraction, NEW q \in Fraction, NEW k \in Nat, AtMost(p, q)
  PROVE  AtMost(Times(k, p), Times(k, q))
<1>0. p[1] \in Nat /\ p[2] \in Nat /\ q[1] \in Nat /\ q[2] \in Nat
  BY DEF Fraction
<1>1. (p[1] * q[2]) * k <= (q[1] * p[2]) * k
  BY <1>0, TimesOrder DEF AtMost
<1>2. (k * p[1]) * q[2] = (p[1] * q[2]) * k /\ (k * q[1]) * p[2] = (q[1] * p[2]) * k
  BY <1>0
<1>. QED
  BY <1>1, <1>2 DEF AtMost, Times

LEMMA WholePart ==
  ASSUME NEW n \in Nat, NEW d \in Nat \ {0}
  PROVE  /\ n \div d \in Nat
         /\ (n \div d) * d <= n
         /\ \A x \in Int : x * d <= n => x <= n \div d
         /\ \A x \in Int : n < (x + 1) * d => n \div d <= x
OBVIOUS

LEMMA RoundWithin ==
  ASSUME NEW p \in Fraction, NEW k \in Nat, Within(p, k)
  PROVE  Round(p) \in 0 .. k
<1>. DEFINE n == 2 * p[1] + p[2]  d == 2 * p[2]
<1>0. p[1] \in Nat /\ p[2] \in Nat \ {0} /\ n \in Nat /\ d \in Nat \ {0}
  BY DEF Fraction
<1>1. n < (k + 1) * d
  <2>. DEFINE c == p[2]
  <2>1. c \in Nat \ {0} /\ p[1] <= k * c /\ n = 2 * p[1] + c /\ d = 2 * c
    BY <1>0 DEF Within
  <2>. HIDE DEF c, n, d
  <2>2. (k + 1) * (2 * c) = 2 * (k * c) + 2 * c
    BY <2>1
  <2>. QED
    BY <1>0, <2>1, <2>2
<1>. HIDE DEF n, d
<1>2. n \div d \in Nat /\ n \div d <= k
  BY <1>0, <1>1, WholePart
<1>. QED
  BY <1>2 DEF Round, n, d

LEMMA RoundOrder ==
  ASSUME NEW p \in Fraction, NEW q \in Fraction, AtMost(p, q)
  PROVE  Round(p) <= Round(q)
<1>. DEFINE a == p[1]  b == p[2]  c == q[1]  d == q[2]
            x == Round(p)
<1>0. a \in Nat /\ b \in Nat \ {0} /\ c \in Nat /\ d \in Nat \ {0} /\ a * d <= c * b
  BY DEF Fraction, AtMost
<1>1. x = (2 * a + b) \div (2 * b) /\ Round(q) = (2 * c + d) \div (2 * d)
  BY DEF Round
<1>. HIDE DEF a, b, c, d, x
<1>2. x \in Nat /\ x * (2 * b) <= 2 * a + b
  <2>1. 2 * a + b \in Nat /\ 2 * b \in Nat \ {0}
    BY <1>0
  <2>. QED
    BY <1>1, <2>1, WholePart
<1>3. (x * (2 * b)) * d <= (2 * a + b) * d
  BY <1>0, <1>2, TimesOrder
<1>4. (x * (2 * d)) * b <= (2 * c + d) * b
  <2>1. (x * (2 * b)) * d = (x * (2 * d)) * b
    BY <1>0, <1>2
  <2>2. (2 * a + b) * d = 2 * (a * d) + b * d /\ (2 * c + d) * b = 2 * (c * b) + b * d
    BY <1>0
  <2>. QED
    BY <1>0, <1>2, <1>3, <2>1, <2>2
<1>5. x * (2 * d) <= 2 * c + d
  <2>1. SUFFICES ASSUME 2 * c + d + 1 <= x * (2 * d) PROVE FALSE
    BY <1>0, <1>2
  <2>2. (2 * c + d + 1) * b <= (x * (2 * d)) * b
    BY <1>0, <1>2, <2>1, TimesOrder
  <2>. QED
    BY <1>0, <1>2, <1>4, <2>2
<1>. QED
  BY <1>0, <1>1, <1>2, <1>5, WholePart DEF x

-----------------------------------------------------------------------------
(* The score stays in range: every ratio is at most one, because what it      *)
(* counts is part of what it divides by, and the weights add up to 100.       *)

LEMMA RowsAreFinite ==
  ASSUME NEW log, NEW a, NEW n \in Nat
  PROVE  IsFiniteSet(Of(log, a, n)) /\ Cardinality(Of(log, a, n)) \in Nat
<1>1. Of(log, a, n) \in SUBSET (1 .. n)
  BY DEF Of
<1>2. IsFiniteSet(1 .. n)
  BY FS_Interval
<1>. QED
  BY <1>1, <1>2, FS_Subset, FS_CardinalityType

LEMMA PartCounts ==
  ASSUME NEW S, IsFiniteSet(S), NEW T, T \subseteq S
  PROVE  IsFiniteSet(T) /\ Cardinality(T) \in Nat /\ Cardinality(T) <= Cardinality(S)
BY FS_Subset, FS_CardinalityType

\* What the aggregates count.
Succeeded(log, S) == {i \in S : log[i].report.success}
Disputed(log, S) == {i \in S : log[i].report.dispute}
InTime(log, S) == {i \in S : log[i].report.sla = "met"}
Agreed(log, S) == {i \in S : log[i].report.sla # "absent"}
Units(log, S) == {u \in S \X (1 .. Full) : u[2] <= log[u[1]].report.uptime}

LEMMA Counts ==
  ASSUME NEW log, NEW S
  PROVE  /\ Quantify(S, LAMBDA i : Success(log[i].report)) = Cardinality(Succeeded(log, S))
         /\ Quantify(S, LAMBDA i : Dispute(log[i].report)) = Cardinality(Disputed(log, S))
         /\ Quantify(S, LAMBDA i : SlaMet(log[i].report)) = Cardinality(InTime(log, S))
         /\ Quantify(S, LAMBDA i : SlaKnown(log[i].report)) = Cardinality(Agreed(log, S))
BY DEF Quantify, Success, Dispute, SlaMet, SlaKnown, Succeeded, Disputed, InTime, Agreed

\* The counts behind the three rates, and what the rates add up to.
LEMMA ConductIs ==
  ASSUME NEW log, NEW a, NEW n \in Nat
  PROVE  \E c, s, d \in Nat :
           /\ c = Cardinality(Of(log, a, n))
           /\ s = Cardinality(Succeeded(log, Of(log, a, n))) /\ s <= c
           /\ d = Cardinality(Disputed(log, Of(log, a, n))) /\ d <= c
           /\ Conduct(log, a, n) = IF c = 0 THEN <<35, 1>> ELSE <<55 * s + 15 * c - 15 * d, c>>
<1>. DEFINE rows == Of(log, a, n)
            c == Cardinality(rows)
            s == Cardinality(Succeeded(log, rows))
            d == Cardinality(Disputed(log, rows))
<1>1. IsFiniteSet(rows) /\ c \in Nat /\ (c = 0 <=> rows = {})
  BY RowsAreFinite, FS_EmptySet
<1>2. s \in Nat /\ s <= c /\ d \in Nat /\ d <= c
  BY <1>1, PartCounts DEF Succeeded, Disputed
<1>3. Conduct(log, a, n) =
        LET total == IF c = 0 THEN 1 ELSE c
        IN <<35 * s + 20 * (total - (c - s)) + 15 * (total - d), total>>
  BY <1>1, Counts DEF Conduct
<1>. HIDE DEF c, s, d
<1>4. Conduct(log, a, n) = IF c = 0 THEN <<35, 1>> ELSE <<55 * s + 15 * c - 15 * d, c>>
  <2>1. CASE c = 0
    <3>1. s = 0 /\ d = 0
      BY <1>2, <2>1
    <3>. QED
      BY <1>3, <2>1, <3>1
  <2>2. CASE c # 0
    <3>1. 35 * s + 20 * (c - (c - s)) + 15 * (c - d) = 55 * s + 15 * c - 15 * d
      BY <1>1, <1>2
    <3>. QED
      BY <1>3, <2>2, <3>1
  <2>. QED
    BY <2>1, <2>2
<1>. QED
  BY <1>1, <1>2, <1>4 DEF c, s, d

LEMMA ConductWithin ==
  ASSUME NEW log, NEW a, NEW n \in Nat
  PROVE  Conduct(log, a, n) \in Fraction /\ Within(Conduct(log, a, n), 70)
BY ConductIs DEF Fraction, Within

LEMMA SlaWithin ==
  ASSUME NEW log, NEW a, NEW n \in Nat, NEW p \in Fraction, Within(p, 1)
  PROVE  SlaRatio(log, a, n, p) \in Fraction /\ Within(SlaRatio(log, a, n, p), 1)
<1>. DEFINE rows == Of(log, a, n)
            m == Cardinality(InTime(log, rows))
            t == Cardinality(Agreed(log, rows))
<1>1. IsFiniteSet(Agreed(log, rows)) /\ t \in Nat
  BY RowsAreFinite, PartCounts DEF Agreed
<1>2. InTime(log, rows) \subseteq Agreed(log, rows)
  BY DEF InTime, Agreed
<1>3. m \in Nat /\ m <= t
  BY <1>1, <1>2, PartCounts
<1>4. SlaRatio(log, a, n, p) = IF t > 0 THEN <<m, t>> ELSE p
  BY Counts DEF SlaRatio
<1>. HIDE DEF m, t
<1>. QED
  BY <1>1, <1>3, <1>4 DEF Fraction, Within

LEMMA UnitsAreFinite ==
  ASSUME NEW log, NEW S, IsFiniteSet(S)
  PROVE  /\ IsFiniteSet(Units(log, S)) /\ Cardinality(Units(log, S)) \in Nat
         /\ Cardinality(Units(log, S)) <= Cardinality(S) * Full
<1>1. Full \in Nat \ {0} /\ IsFiniteSet(1 .. Full) /\ Cardinality(1 .. Full) = Full
  BY ScoreAssumption, FS_Interval
<1>2. IsFiniteSet(S \X (1 .. Full)) /\ Cardinality(S \X (1 .. Full)) = Cardinality(S) * Full
  BY <1>1, FS_Product
<1>. QED
  BY <1>2, PartCounts DEF Units

LEMMA UptimeIs ==
  ASSUME NEW log, NEW a, NEW m \in Nat
  PROVE  /\ IsFiniteSet(Reports(log, a, m))
         /\ Cardinality(Reports(log, a, m)) \in Nat
         /\ UptimeSum(log, a, m) = Cardinality(Units(log, Reports(log, a, m)))
         /\ UptimeSum(log, a, m) \in Nat
         /\ UptimeSum(log, a, m) <= Cardinality(Reports(log, a, m)) * Full
         /\ Reports(log, a, m) = {} => UptimeSum(log, a, m) = 0
<1>1. /\ IsFiniteSet(Reports(log, a, m)) /\ Cardinality(Reports(log, a, m)) \in Nat
  BY RowsAreFinite, PartCounts DEF Reports
<1>2. UptimeSum(log, a, m) = Cardinality(Units(log, Reports(log, a, m)))
  BY DEF UptimeSum, Units
<1>3. Reports(log, a, m) = {} => Units(log, Reports(log, a, m)) = {}
  BY DEF Units
<1>. QED
  BY <1>1, <1>2, <1>3, UnitsAreFinite, FS_EmptySet

LEMMA UptimeWithin ==
  ASSUME NEW log, NEW a, NEW n \in Nat, NEW m \in Nat
  PROVE  Uptime(log, a, n, m) \in Fraction /\ Within(Uptime(log, a, n, m), 1)
<1>. DEFINE sum == UptimeSum(log, a, m)
            k == Cardinality(Reports(log, a, m))
<1>1. sum \in Nat /\ k \in Nat /\ sum <= k * Full /\ k * Full \in Nat
  BY ScoreAssumption, UptimeIs
<1>2. <<95, 100>> \in Fraction /\ Within(<<95, 100>>, 1)
  BY DEF Fraction, Within
<1>3. Uptime(log, a, n, m) = IF sum > 0 THEN <<sum, k * Full>> ELSE SlaRatio(log, a, n, <<95, 100>>)
  BY DEF Uptime
<1>4. CASE sum > 0
  <2>. HIDE DEF sum, k
  <2>1. k * Full # 0
    BY <1>1, <1>4
  <2>. QED
    BY <1>1, <1>3, <1>4, <2>1 DEF Fraction, Within
<1>5. CASE ~(sum > 0)
  BY <1>2, <1>3, <1>5, SlaWithin
<1>. QED
  BY <1>4, <1>5

\* The two terms of Raw that no event changes.
Age(age) == <<Least(age, Year), Year>>
Tier(tier) == <<5 * TierWeight[tier], 10>>

LEMMA AgeWithin ==
  ASSUME NEW age \in Nat
  PROVE  Age(age) \in Fraction /\ Within(Age(age), 1)
BY DEF Age, Least, Year, Fraction, Within

LEMMA TierWithin ==
  ASSUME NEW tier \in DOMAIN TierWeight
  PROVE  Tier(tier) \in Fraction /\ Within(Tier(tier), 5)
BY DEF Tier, TierWeight, Fraction, Within

LEMMA RawIs ==
  ASSUME NEW log, NEW a, NEW n, NEW m, NEW age, NEW tier
  PROVE  /\ Raw(log, a, n, m, age, tier) =
              Plus(Conduct(log, a, n),
              Plus(Times(12, SlaRatio(log, a, n, <<1, 2>>)),
              Plus(Times(8, Uptime(log, a, n, m)),
              Plus(Times(5, Age(age)), Tier(tier)))))
         /\ Score(log, a, n, m, age, tier) = Round(Raw(log, a, n, m, age, tier))
BY DEF Raw, Score, Round, Age, Tier

LEMMA HalfWithin == <<1, 2>> \in Fraction /\ Within(<<1, 2>>, 1)
BY DEF Fraction, Within

LEMMA RawWithin ==
  ASSUME NEW log, NEW a, NEW n \in Nat, NEW m \in Nat,
         NEW age \in Nat, NEW tier \in DOMAIN TierWeight
  PROVE  /\ Raw(log, a, n, m, age, tier) \in Fraction
         /\ Within(Raw(log, a, n, m, age, tier), 100)
<1>. DEFINE p == Times(12, SlaRatio(log, a, n, <<1, 2>>))
            q == Times(8, Uptime(log, a, n, m))
            s == Times(5, Age(age))
            t == Plus(s, Tier(tier))
            u == Plus(q, t)
            v == Plus(p, u)
<1>1. p \in Fraction /\ Within(p, 12)
  BY HalfWithin, SlaWithin, TimesWithin
<1>2. q \in Fraction /\ Within(q, 8)
  BY UptimeWithin, TimesWithin
<1>3. s \in Fraction /\ Within(s, 5)
  BY AgeWithin, TimesWithin
<1>. HIDE DEF p, q, s
<1>4. t \in Fraction /\ Within(t, 10)
  BY <1>3, TierWithin, PlusWithin
<1>. HIDE DEF t
<1>5. u \in Fraction /\ Within(u, 18)
  BY <1>2, <1>4, PlusWithin
<1>. HIDE DEF u
<1>6. v \in Fraction /\ Within(v, 30)
  BY <1>1, <1>5, PlusWithin
<1>. HIDE DEF v
<1>7. Plus(Conduct(log, a, n), v) \in Fraction /\ Within(Plus(Conduct(log, a, n), v), 100)
  BY <1>6, ConductWithin, PlusWithin
<1>. QED
  BY <1>7, RawIs DEF p, q, s, t, u, v

\* No stored score leaves the range of 0 to 100, whatever its two statements saw:
\* computeTrustScore needs no clamp.
THEOREM ScoreIsInRange == Spec => []ScoreInRange
<1>1. ASSUME TypeOK PROVE ScoreInRange
  <2>. SUFFICES ASSUME NEW a \in Agent, NEW age \in Ages, NEW tier \in DOMAIN TierWeight,
                       trust_scores[a] # None
                PROVE  Score(events, a, trust_scores[a].seen, trust_scores[a].heard, age, tier)
                         \in 0 .. 100
    BY DEF ScoreInRange
  <2>1. trust_scores[a].seen \in Nat /\ trust_scores[a].heard \in Nat /\ age \in Nat
    BY <1>1, ScoreAssumption DEF TypeOK, Row
  <2>. QED
    BY <2>1, RawWithin, RoundWithin, RawIs
<1>. QED
  BY <1>1, TypeCorrect, PTL

-----------------------------------------------------------------------------
(* A good event: every term of the score is at least what it was, and so is   *)
(* their sum, and what it is rounded to.                                       *)

\* The log with one event more: log, of length n, and e, an event of a.
Extended(log, more, a, n, e) ==
  /\ n \in Nat /\ \A i \in 1 .. n : more[i] = log[i]
  /\ more[n + 1] = [agent |-> a, report |-> e]

LEMMA OneRowMore ==
  ASSUME NEW log, NEW more, NEW a, NEW n, NEW e, Extended(log, more, a, n, e)
  PROVE  /\ Of(more, a, n + 1) = Of(log, a, n) \cup {n + 1}
         /\ n + 1 \notin Of(log, a, n)
         /\ more[n + 1].report = e
         /\ \A i \in Of(log, a, n) : more[i] = log[i]
BY DEF Extended, Of

LEMMA OneCountedMore ==
  ASSUME NEW S, IsFiniteSet(S), NEW x, x \notin S, NEW T, T \subseteq S
  PROVE  Cardinality(T \cup {x}) = Cardinality(T) + 1
<1>1. IsFiniteSet(T) /\ x \notin T
  BY PartCounts
<1>. QED
  BY <1>1, FS_AddElement

LEMMA GoodConduct ==
  ASSUME NEW log, NEW more, NEW a, NEW n, NEW e \in ReportRecord,
         Extended(log, more, a, n, e), e.success, ~e.dispute
  PROVE  AtMost(Conduct(log, a, n), Conduct(more, a, n + 1))
<1>. DEFINE rows == Of(log, a, n)
            rows2 == Of(more, a, n + 1)
<1>0. n \in Nat /\ n + 1 \in Nat /\ IsFiniteSet(rows)
  BY RowsAreFinite DEF Extended
<1>1. /\ Succeeded(more, rows2) = Succeeded(log, rows) \cup {n + 1}
      /\ Disputed(more, rows2) = Disputed(log, rows)
      /\ n + 1 \notin rows /\ rows2 = rows \cup {n + 1}
  BY OneRowMore DEF Succeeded, Disputed
<1>2. /\ Cardinality(Succeeded(more, rows2)) = Cardinality(Succeeded(log, rows)) + 1
      /\ Cardinality(rows2) = Cardinality(rows) + 1
  <2>1. Succeeded(log, rows) \subseteq rows
    BY DEF Succeeded
  <2>2. Cardinality(Succeeded(log, rows) \cup {n + 1}) = Cardinality(Succeeded(log, rows)) + 1
    BY <1>0, <1>1, <2>1, OneCountedMore
  <2>3. Cardinality(rows \cup {n + 1}) = Cardinality(rows) + 1
    BY <1>0, <1>1, OneCountedMore
  <2>. QED
    BY <1>1, <2>2, <2>3
<1>3. PICK c, s, d \in Nat :
        /\ c = Cardinality(rows) /\ s = Cardinality(Succeeded(log, rows)) /\ s <= c
        /\ d = Cardinality(Disputed(log, rows)) /\ d <= c
        /\ Conduct(log, a, n) = IF c = 0 THEN <<35, 1>> ELSE <<55 * s + 15 * c - 15 * d, c>>
  BY <1>0, ConductIs
<1>4. Conduct(more, a, n + 1) = <<55 * (s + 1) + 15 * (c + 1) - 15 * d, c + 1>>
  BY <1>0, <1>1, <1>2, <1>3, ConductIs
<1>5. CASE c = 0
  <2>1. s = 0 /\ d = 0
    BY <1>3, <1>5
  <2>. QED
    BY <1>3, <1>4, <1>5, <2>1 DEF AtMost
<1>6. CASE c # 0
  <2>. DEFINE x == 55 * s + 15 * c - 15 * d
  <2>1. x \in Nat /\ x <= 70 * c /\ 55 * (s + 1) + 15 * (c + 1) - 15 * d = x + 70
    BY <1>3
  <2>2. Conduct(log, a, n) = <<x, c>> /\ Conduct(more, a, n + 1) = <<x + 70, c + 1>>
    BY <1>3, <1>4, <1>6, <2>1
  <2>. HIDE DEF x
  <2>3. c \in Int /\ x \in Int
    BY <1>3, <2>1
  <2>4. x * (c + 1) = x * c + x * 1 /\ (x + 70) * c = x * c + 70 * c
    BY <2>3, Distribute
  <2>5. x * c \in Int
    BY <2>3
  <2>. QED
    BY <1>3, <2>1, <2>2, <2>4, <2>5 DEF AtMost
<1>. QED
  BY <1>5, <1>6

LEMMA GoodSla ==
  ASSUME NEW log, NEW more, NEW a, NEW n, NEW e \in ReportRecord,
         Extended(log, more, a, n, e), e.sla # "missed", NEW p \in Fraction, Within(p, 1)
  PROVE  AtMost(SlaRatio(log, a, n, p), SlaRatio(more, a, n + 1, p))
<1>. DEFINE rows == Of(log, a, n)
            rows2 == Of(more, a, n + 1)
            m == Cardinality(InTime(log, rows))
            t == Cardinality(Agreed(log, rows))
            yes == e.sla = "met"
<1>0. n \in Nat /\ IsFiniteSet(rows) /\ n + 1 \notin rows
  <2>1. n \in Nat
    BY DEF Extended
  <2>. QED
    BY <2>1, OneRowMore, RowsAreFinite
<1>1. e.sla \in {"met", "absent"}
  BY DEF ReportRecord
<1>2. /\ InTime(more, rows2) = IF yes THEN InTime(log, rows) \cup {n + 1} ELSE InTime(log, rows)
      /\ Agreed(more, rows2) = IF yes THEN Agreed(log, rows) \cup {n + 1} ELSE Agreed(log, rows)
  BY <1>1, OneRowMore DEF InTime, Agreed
<1>3. InTime(log, rows) \subseteq Agreed(log, rows) /\ Agreed(log, rows) \subseteq rows
      /\ InTime(log, rows) \subseteq rows
  BY DEF InTime, Agreed
<1>4. m \in Nat /\ t \in Nat /\ m <= t
  BY <1>0, <1>3, PartCounts
<1>5. /\ Cardinality(InTime(more, rows2)) = IF yes THEN m + 1 ELSE m
      /\ Cardinality(Agreed(more, rows2)) = IF yes THEN t + 1 ELSE t
  <2>1. /\ Cardinality(InTime(log, rows) \cup {n + 1}) = m + 1
        /\ Cardinality(Agreed(log, rows) \cup {n + 1}) = t + 1
    BY <1>0, <1>3, OneCountedMore
  <2>. HIDE DEF yes
  <2>. QED
    BY <1>2, <2>1
<1>6. /\ SlaRatio(log, a, n, p) = IF t > 0 THEN <<m, t>> ELSE p
      /\ SlaRatio(more, a, n + 1, p) =
           IF yes THEN IF t + 1 > 0 THEN <<m + 1, t + 1>> ELSE p
                  ELSE IF t > 0 THEN <<m, t>> ELSE p
  BY <1>5, Counts DEF SlaRatio
<1>7. p[1] \in Nat /\ p[2] \in Nat /\ p[1] <= p[2]
  BY DEF Fraction, Within
<1>. HIDE DEF m, t, yes
<1>8. CASE yes /\ t > 0
  <2>1. m * (t + 1) = m * t + m /\ (m + 1) * t = m * t + t /\ m * t \in Nat
    BY <1>4
  <2>. QED
    BY <1>4, <1>6, <1>8, <2>1 DEF AtMost
<1>9. CASE yes /\ ~(t > 0)
  <2>1. t = 0 /\ m = 0
    BY <1>4, <1>9
  <2>. QED
    BY <1>6, <1>7, <1>9, <2>1 DEF AtMost
<1>10. CASE ~yes
  BY <1>4, <1>6, <1>7, <1>10 DEF AtMost
<1>. QED
  BY <1>8, <1>9, <1>10

\* A report of full uptime adds Full units to the sum, and no report none.
LEMMA OneReportMore ==
  ASSUME NEW log, NEW more, NEW a, NEW n, NEW e \in ReportRecord, Extended(log, more, a, n, e)
  PROVE  /\ e.uptime = NoReport =>
              /\ Reports(more, a, n + 1) = Reports(log, a, n)
              /\ UptimeSum(more, a, n + 1) = UptimeSum(log, a, n)
         /\ e.uptime >= Full =>
              /\ Cardinality(Reports(more, a, n + 1)) = Cardinality(Reports(log, a, n)) + 1
              /\ UptimeSum(more, a, n + 1) = UptimeSum(log, a, n) + Full
<1>. DEFINE S == Reports(log, a, n)
            T == Reports(more, a, n + 1)
            new == {n + 1} \X (1 .. Full)
<1>0. /\ n \in Nat /\ n + 1 \in Nat /\ n + 1 \notin S /\ Full \in Nat \ {0}
      /\ \A i \in S : more[i] = log[i]
  <2>1. S \subseteq Of(log, a, n)
    BY DEF Reports
  <2>2. n \in Nat /\ n + 1 \in Nat
    BY DEF Extended
  <2>. QED
    BY <2>1, <2>2, ScoreAssumption, OneRowMore
<1>1. ASSUME e.uptime = NoReport
      PROVE  T = S /\ UptimeSum(more, a, n + 1) = UptimeSum(log, a, n)
  <2>1. T = S
    BY <1>1, OneRowMore DEF Reports
  <2>2. Units(more, T) = Units(log, S)
    BY <1>0, <2>1 DEF Units
  <2>. QED
    BY <1>0, <2>1, <2>2, UptimeIs
<1>2. ASSUME e.uptime >= Full
      PROVE  /\ Cardinality(T) = Cardinality(S) + 1
             /\ UptimeSum(more, a, n + 1) = UptimeSum(log, a, n) + Full
  <2>0. e.uptime \in Nat /\ e.uptime # NoReport
    BY <1>0, <1>2 DEF ReportRecord, NoReport
  <2>1. T = S \cup {n + 1}
    BY <2>0, OneRowMore DEF Reports
  <2>2. IsFiniteSet(S) /\ IsFiniteSet(Units(log, S)) /\ Cardinality(Units(log, S)) \in Nat
    BY <1>0, UptimeIs, UnitsAreFinite
  <2>3. Units(more, T) = Units(log, S) \cup new
    <3>1. ASSUME NEW i \in S, NEW k \in 1 .. Full
          PROVE  <<i, k>> \in Units(more, T) <=> <<i, k>> \in Units(log, S)
      BY <1>0, <2>1 DEF Units
    <3>2. ASSUME NEW k \in 1 .. Full PROVE <<n + 1, k>> \in Units(more, T)
      BY <1>0, <1>2, <2>0, <2>1, OneRowMore DEF Units
    <3>3. Units(more, T) \subseteq T \X (1 .. Full) /\ Units(log, S) \subseteq S \X (1 .. Full)
      BY DEF Units
    <3>. QED
      BY <2>1, <3>1, <3>2, <3>3
  <2>4. IsFiniteSet(new) /\ Cardinality(new) = Full
    <3>1. IsFiniteSet(1 .. Full) /\ Cardinality(1 .. Full) = Full
      BY <1>0, FS_Interval
    <3>2. IsFiniteSet({n + 1}) /\ Cardinality({n + 1}) = 1
      BY FS_Singleton
    <3>3. IsFiniteSet(new) /\ Cardinality(new) = 1 * Full
      BY <3>1, <3>2, FS_Product
    <3>. QED
      BY <1>0, <3>3
  <2>5. Units(log, S) \cap new = {}
    BY <1>0 DEF Units
  <2>6. Cardinality(Units(more, T)) = Cardinality(Units(log, S)) + Full
    <3>1. Cardinality({}) = 0
      BY FS_EmptySet
    <3>. HIDE DEF new
    <3>2. Cardinality(Units(log, S) \cup new) =
            Cardinality(Units(log, S)) + Cardinality(new) - Cardinality(Units(log, S) \cap new)
      BY <2>2, <2>4, FS_Union
    <3>3. Cardinality(Units(log, S) \cap new) = 0
      BY <2>5, <3>1
    <3>4. Cardinality(Units(more, T)) = Cardinality(Units(log, S) \cup new)
      BY <2>3, Zenon
    <3>. QED
      BY <1>0, <2>2, <2>4, <3>2, <3>3, <3>4
  <2>. QED
    BY <1>0, <2>1, <2>2, <2>6, FS_AddElement, UptimeIs
<1>. QED
  BY <1>1, <1>2

LEMMA GoodUptime ==
  ASSUME NEW log, NEW more, NEW a, NEW n, NEW e \in ReportRecord,
         Extended(log, more, a, n, e), e.sla # "missed",
         \/ e.uptime = NoReport
         \/ e.uptime >= Full /\ (Reports(log, a, n) = {} \/ UptimeSum(log, a, n) > 0)
  PROVE  AtMost(Uptime(log, a, n, n), Uptime(more, a, n + 1, n + 1))
<1>. DEFINE S == UptimeSum(log, a, n)
            T == UptimeSum(more, a, n + 1)
            k == Cardinality(Reports(log, a, n))
            l == Cardinality(Reports(more, a, n + 1))
            p == SlaRatio(log, a, n, <<95, 100>>)
            q == SlaRatio(more, a, n + 1, <<95, 100>>)
<1>0. n \in Nat /\ n + 1 \in Nat /\ Full \in Nat \ {0}
  BY ScoreAssumption DEF Extended
<1>1. /\ S \in Nat /\ k \in Nat /\ S <= k * Full /\ T \in Nat /\ l \in Nat
      /\ Reports(log, a, n) = {} => S = 0 /\ k = 0
  BY <1>0, UptimeIs, FS_EmptySet
<1>2. /\ Uptime(log, a, n, n) = IF S > 0 THEN <<S, k * Full>> ELSE p
      /\ Uptime(more, a, n + 1, n + 1) = IF T > 0 THEN <<T, l * Full>> ELSE q
  BY DEF Uptime
<1>3. AtMost(p, q) /\ p[1] \in Nat /\ p[2] \in Nat /\ p[1] <= p[2]
  <2>1. <<95, 100>> \in Fraction /\ Within(<<95, 100>>, 1)
    BY DEF Fraction, Within
  <2>2. p \in Fraction /\ Within(p, 1) /\ AtMost(p, q)
    BY <1>0, <2>1, SlaWithin, GoodSla
  <2>. HIDE DEF p, q
  <2>. QED
    BY <2>2 DEF Fraction, Within
<1>4. /\ e.uptime = NoReport => T = S /\ l = k
      /\ e.uptime >= Full => T = S + Full /\ l = k + 1
  BY OneReportMore
<1>. HIDE DEF S, T, k, l, p, q
<1>5. CASE e.uptime = NoReport
  <2>1. k * Full \in Nat
    BY <1>0, <1>1
  <2>. QED
    BY <1>1, <1>2, <1>3, <1>4, <1>5, <2>1 DEF AtMost
<1>6. CASE e.uptime >= Full /\ Reports(log, a, n) = {}
  <2>1. S = 0 /\ T = Full /\ l * Full = Full
    BY <1>0, <1>1, <1>4, <1>6
  <2>2. p[1] * Full <= p[2] * Full /\ Full * p[2] = p[2] * Full
    BY <1>0, <1>3, TimesOrder
  <2>. QED
    BY <1>0, <1>2, <2>1, <2>2 DEF AtMost
<1>7. CASE e.uptime >= Full /\ S > 0
  <2>. DEFINE x == k * Full
  <2>1. x \in Nat /\ S <= x /\ l * Full = x + Full /\ T = S + Full
    BY <1>0, <1>1, <1>4, <1>7
  <2>2. Uptime(log, a, n, n) = <<S, x>> /\ Uptime(more, a, n + 1, n + 1) = <<S + Full, x + Full>>
    BY <1>0, <1>1, <1>2, <1>7, <2>1
  <2>. HIDE DEF x
  <2>3. S * Full <= x * Full
    BY <1>0, <1>1, <2>1, TimesOrder
  <2>4. S * (x + Full) = S * x + S * Full /\ (S + Full) * x = S * x + x * Full
    BY <1>0, <1>1, <2>1
  <2>5. S * x \in Nat /\ S * Full \in Nat /\ x * Full \in Nat
    BY <1>0, <1>1, <2>1
  <2>. QED
    BY <2>2, <2>3, <2>4, <2>5 DEF AtMost
<1>. QED
  BY <1>5, <1>6, <1>7 DEF S

LEMMA Reflexive ==
  ASSUME NEW p \in Fraction
  PROVE  AtMost(p, p)
BY DEF Fraction, AtMost

LEMMA GoodScore ==
  ASSUME NEW log, NEW more, NEW a, NEW n, NEW e \in ReportRecord,
         NEW age \in Nat, NEW tier \in DOMAIN TierWeight,
         Extended(log, more, a, n, e), e.success, ~e.dispute, e.sla # "missed",
         \/ e.uptime = NoReport
         \/ e.uptime >= Full /\ (Reports(log, a, n) = {} \/ UptimeSum(log, a, n) > 0)
  PROVE  Score(log, a, n, n, age, tier) <= Score(more, a, n + 1, n + 1, age, tier)
<1>. DEFINE c1 == Conduct(log, a, n)                c2 == Conduct(more, a, n + 1)
            s1 == Times(12, SlaRatio(log, a, n, <<1, 2>>))
            s2 == Times(12, SlaRatio(more, a, n + 1, <<1, 2>>))
            u1 == Times(8, Uptime(log, a, n, n))    u2 == Times(8, Uptime(more, a, n + 1, n + 1))
            same == Plus(Times(5, Age(age)), Tier(tier))
            v1 == Plus(u1, same)                    v2 == Plus(u2, same)
            w1 == Plus(s1, v1)                      w2 == Plus(s2, v2)
<1>0. n \in Nat /\ n + 1 \in Nat
  BY DEF Extended
<1>1. c1 \in Fraction /\ c2 \in Fraction /\ AtMost(c1, c2)
  BY <1>0, ConductWithin, GoodConduct
<1>2. s1 \in Fraction /\ s2 \in Fraction /\ AtMost(s1, s2)
  BY <1>0, HalfWithin, SlaWithin, TimesWithin, GoodSla, TimesKeepsOrder
<1>3. u1 \in Fraction /\ u2 \in Fraction /\ AtMost(u1, u2)
  BY <1>0, UptimeWithin, TimesWithin, GoodUptime, TimesKeepsOrder
<1>4. same \in Fraction /\ Within(same, 10) /\ AtMost(same, same)
  <2>1. Times(5, Age(age)) \in Fraction /\ Within(Times(5, Age(age)), 5)
    BY AgeWithin, TimesWithin
  <2>2. same \in Fraction /\ Within(same, 5 + 5)
    BY <2>1, TierWithin, PlusWithin
  <2>. HIDE DEF same
  <2>. QED
    BY <2>2, Reflexive
<1>5. Within(u1, 8) /\ Within(u2, 8) /\ Within(s1, 12) /\ Within(s2, 12)
      /\ Within(c1, 70) /\ Within(c2, 70)
  BY <1>0, UptimeWithin, HalfWithin, SlaWithin, TimesWithin, ConductWithin
<1>. HIDE DEF c1, c2, s1, s2, u1, u2, same
<1>6. v1 \in Fraction /\ v2 \in Fraction /\ AtMost(v1, v2) /\ Within(v1, 18) /\ Within(v2, 18)
  BY <1>3, <1>4, <1>5, PlusWithin, PlusOrder
<1>. HIDE DEF v1, v2
<1>7. w1 \in Fraction /\ w2 \in Fraction /\ AtMost(w1, w2) /\ Within(w1, 30) /\ Within(w2, 30)
  BY <1>2, <1>5, <1>6, PlusWithin, PlusOrder
<1>. HIDE DEF w1, w2
<1>8. /\ Plus(c1, w1) \in Fraction /\ Plus(c2, w2) \in Fraction
      /\ AtMost(Plus(c1, w1), Plus(c2, w2))
  BY <1>1, <1>5, <1>7, PlusWithin, PlusOrder
<1>9. Round(Plus(c1, w1)) <= Round(Plus(c2, w2))
  BY <1>8, RoundOrder
<1>. QED
  BY <1>9, RawIs DEF c1, c2, s1, s2, u1, u2, same, v1, v2, w1, w2

\* A success without a dispute and in time never lowers the score of its agent,
\* for all logs, ages, tiers and reports within the bounds the property names.
THEOREM GoodEventsHelp == Spec => []GoodEventsNeverHurt
<1>1. ASSUME TypeOK PROVE GoodEventsNeverHurt
  <2>. SUFFICES ASSUME NEW a \in Enrolled, NEW e \in Report, NEW age \in Ages,
                       NEW tier \in DOMAIN TierWeight,
                       e.success, ~e.dispute, e.sla # "missed",
                       \/ e.uptime = NoReport
                       \/ /\ e.uptime >= Full
                          /\ Reports(events, a, Len(events)) = {} \/ UptimeSum(events, a, Len(events)) > 0
                PROVE  Score(Append(events, [agent |-> a, report |-> e]), a,
                             Len(events) + 1, Len(events) + 1, age, tier)
                       >= Score(events, a, Len(events), Len(events), age, tier)
    BY Zenon DEF GoodEventsNeverHurt
  <2>. DEFINE log == Append(events, [agent |-> a, report |-> e])
              n == Len(events)
  <2>1. Extended(events, log, a, n, e)
    BY <1>1 DEF TypeOK, Extended
  <2>2. e \in ReportRecord /\ age \in Nat
    BY ScoreAssumption
  <2>3. /\ Score(events, a, n, n, age, tier) \in Int
        /\ Score(log, a, n + 1, n + 1, age, tier) \in Int
    <3>1. n \in Nat /\ n + 1 \in Nat
      BY <1>1, LengthIsNat
    <3>. HIDE DEF log, n
    <3>. QED
      BY <2>2, <3>1, RawWithin, RoundWithin, RawIs
  <2>. HIDE DEF log, n
  <2>4. Score(events, a, n, n, age, tier) <= Score(log, a, n + 1, n + 1, age, tier)
    BY <2>1, <2>2, GoodScore DEF n
  <2>. QED
    BY <2>3, <2>4 DEF log, n
<1>. QED
  BY <1>1, TypeCorrect, PTL
=============================================================================
