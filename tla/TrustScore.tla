----------------------------- MODULE TrustScore -----------------------------
(***************************************************************************)
(* Trust events and the score made of them: POST /trust/events inserts a   *)
(* row, GET /agents/:agentId/trust aggregates the rows in two statements,  *)
(* reads the agent and its organization, computes (backend/api/src/trust/  *)
(* engine.ts) and stores the result.  Computations interleave at every     *)
(* awaited call with each other and with insertions.                       *)
(*                                                                         *)
(* Rows of trust_events are never changed, so what a statement saw is a    *)
(* prefix of events, and a stored score is kept as what it was made of.    *)
(* Ratios are pairs of integers, numerator and denominator.                *)
(***************************************************************************)
EXTENDS Integers, Sequences, FiniteSets, FiniteSetsExt

CONSTANTS Agent,
          Enrolled,  \* the agents with a row, and the rows are there to stay
          Request,   \* computations; bound: each is run once
          Report,    \* the events that are sent, see ReportRecord
          Full,      \* an uptime_reliability of 1, in the unit of the reports
          Ages,      \* identity ages, in days
          MaxEvents, \* bound on the insertions
          None       \* no stored score

Year == 365
NoReport == -1

\* success, dispute, sla_met (or absent), raw.uptime_reliability (or nothing
\* that the regular expression matches: a negative number is nothing)
ReportRecord == [success : BOOLEAN, dispute : BOOLEAN,
                 sla : {"met", "missed", "absent"}, uptime : Nat \cup {NoReport}]

ASSUME ScoreAssumption ==
  /\ Enrolled \subseteq Agent /\ Report \subseteq ReportRecord /\ Ages \subseteq Nat
  /\ Full \in Nat \ {0}

VARIABLES
  events,       \* trust_events, in the order of the insertions
  at,           \* what a computation awaits; its answer is not kept
  subject,      \* its agent
  seen, heard,  \* what its aggregates of counts and of uptime saw
  began,        \* history: the events there when it began
  trust_scores  \* per agent the last stored score, or None

vars == <<events, at, subject, seen, heard, began, trust_scores>>

Running == {"counts", "uptime", "agent", "store"}
Row == [seen : Nat, heard : Nat, began : Nat]

TypeOK ==
  /\ events \in Seq([agent : Enrolled, report : Report])
  /\ at \in [Request -> {"idle", "over"} \cup Running]
  /\ subject \in [Request -> Agent]
  /\ seen \in [Request -> Nat] /\ heard \in [Request -> Nat] /\ began \in [Request -> Nat]
  /\ trust_scores \in [Agent -> Row \cup {None}]

Init ==
  /\ events = <<>>
  /\ at = [r \in Request |-> "idle"]
  /\ subject \in [Request -> Agent]
  /\ seen = [r \in Request |-> 0] /\ heard = seen /\ began = seen
  /\ trust_scores = [a \in Agent |-> None]

-----------------------------------------------------------------------------
(* The arithmetic, of the first n rows of a log for the counts and the first *)
(* m for the uptime.                                                         *)

Of(log, a, n) == {i \in 1 .. n : log[i].agent = a}
Least(x, y) == IF x < y THEN x ELSE y

Success(e) == e.success
Dispute(e) == e.dispute
SlaMet(e) == e.sla = "met"

\* Mutant: sla_total_count counts the events without sla_met.
SlaAny(e) == TRUE

SlaKnown(e) == e.sla # "absent"

Reports(log, a, m) == {i \in Of(log, a, m) : log[i].report.uptime # NoReport}

\* The sum of the reports, of which each counts for Full at most: one pair for
\* each unit of each report.
UptimeSum(log, a, m) ==
  Cardinality({u \in Reports(log, a, m) \X (1 .. Full) : u[2] <= log[u[1]].report.uptime})

\* slaMetCount / slaTotalCount, or otherwise.
SlaRatio(log, a, n, otherwise) ==
  LET met   == Quantify(Of(log, a, n), LAMBDA i : SlaMet(log[i].report))
      total == Quantify(Of(log, a, n), LAMBDA i : SlaKnown(log[i].report))
  IN IF total > 0 THEN <<met, total>> ELSE otherwise

\* The mean of the reports; a mean of zero is replaced by the fallback.
Uptime(log, a, n, m) ==
  IF UptimeSum(log, a, m) > 0
  THEN <<UptimeSum(log, a, m), Cardinality(Reports(log, a, m)) * Full>>
  ELSE SlaRatio(log, a, n, <<95, 100>>)

\* orgTierWeight, in tenths
TierWeight == [enterprise |-> 10, verified |-> 6, unverified |-> 3]

\* Mutant: the disputes are those of the second statement.
ConductMixed(log, a, n) ==
  LET rows  == Of(log, a, n)
      s     == Quantify(rows, LAMBDA i : Success(log[i].report))
      total == IF rows = {} THEN 1 ELSE Cardinality(rows)
  IN <<35 * s + 20 * (total - (Cardinality(rows) - s))
       + 15 * (total - Quantify(Of(log, a, Len(log)), LAMBDA i : Dispute(log[i].report))), total>>

\* 35 successRate + 20 (1 - failureRate) + 15 (1 - disputeRate)
Conduct(log, a, n) ==
  LET rows  == Of(log, a, n)
      s     == Quantify(rows, LAMBDA i : Success(log[i].report))
      total == IF rows = {} THEN 1 ELSE Cardinality(rows)
  IN <<35 * s + 20 * (total - (Cardinality(rows) - s))
       + 15 * (total - Quantify(rows, LAMBDA i : Dispute(log[i].report))), total>>

Plus(p, q) == <<p[1] * q[2] + q[1] * p[2], p[2] * q[2]>>
Times(k, p) == <<k * p[1], p[2]>>

Raw(log, a, n, m, age, tier) ==
  Plus(Conduct(log, a, n),
  Plus(Times(12, SlaRatio(log, a, n, <<1, 2>>)),
  Plus(Times(8, Uptime(log, a, n, m)),
  Plus(Times(5, <<Least(age, Year), Year>>), <<5 * TierWeight[tier], 10>>))))

\* Math.round, without the clamp to 0 .. 100
Score(log, a, n, m, age, tier) ==
  LET raw == Raw(log, a, n, m, age, tier)
  IN (2 * raw[1] + raw[2]) \div (2 * raw[2])

-----------------------------------------------------------------------------
Goto(r, from, to) == at[r] = from /\ at' = [at EXCEPT ![r] = to]

\* A computation ends, and its locals are gone.
End(r, from) ==
  /\ Goto(r, from, "over")
  /\ seen' = [seen EXCEPT ![r] = 0] /\ heard' = [heard EXCEPT ![r] = 0]
  /\ began' = [began EXCEPT ![r] = 0]

\* POST /trust/events: the INSERT, its reply on the way or lost.  A request that
\* is limited, or names an agent without a row, inserts nothing.
RecordEvent(a, e) ==
  /\ Len(events) < MaxEvents
  /\ events' = Append(events, [agent |-> a, report |-> e])
  /\ UNCHANGED <<at, subject, seen, heard, began, trust_scores>>

\* GET /agents/:agentId/trust
Begin(r) ==
  /\ Goto(r, "idle", "counts")
  /\ began' = [began EXCEPT ![r] = Len(events)]
  /\ UNCHANGED <<events, subject, seen, heard, trust_scores>>

\* Mutant: the counts of a stored score are used again.
SeenBefore(r) ==
  IF trust_scores[subject[r]] = None THEN Len(events) ELSE trust_scores[subject[r]].seen

SeenNow(r) == Len(events)

ReadCounts(r) ==
  /\ Goto(r, "counts", "uptime")
  /\ seen' = [seen EXCEPT ![r] = SeenNow(r)]
  /\ UNCHANGED <<events, subject, heard, began, trust_scores>>

ReadUptime(r) ==
  /\ Goto(r, "uptime", "agent")
  /\ heard' = [heard EXCEPT ![r] = Len(events)]
  /\ UNCHANGED <<events, subject, seen, began, trust_scores>>

\* getAgent and the organization's tier: neither changes.
ReadAgent(r) ==
  /\ \/ /\ subject[r] \in Enrolled
        /\ Goto(r, "agent", "store") /\ UNCHANGED <<seen, heard, began>>
     \/ subject[r] \notin Enrolled /\ End(r, "agent")
  /\ UNCHANGED <<events, subject, trust_scores>>

\* Mutant: the row has no counts when there are none.
RowOrNull(r) == [seen |-> IF seen[r] = 0 THEN None ELSE seen[r], heard |-> heard[r], began |-> began[r]]

RowOf(r) == [seen |-> seen[r], heard |-> heard[r], began |-> began[r]]

\* The upsert.
StoreScore(r) ==
  /\ End(r, "store")
  /\ trust_scores' = [trust_scores EXCEPT ![subject[r]] = RowOf(r)]
  /\ UNCHANGED <<events, subject>>

\* A call rejects or the process dies.
Abort(r) ==
  /\ at[r] \in Running
  /\ End(r, at[r])
  /\ UNCHANGED <<events, subject, trust_scores>>

Compute(r) ==
  Begin(r) \/ ReadCounts(r) \/ ReadUptime(r) \/ ReadAgent(r) \/ StoreScore(r) \/ Abort(r)

Next ==
  \/ \E a \in Enrolled, e \in Report : RecordEvent(a, e)
  \/ \E r \in Request : Compute(r)

Spec == Init /\ [][Next]_vars

-----------------------------------------------------------------------------
\* A stored score whose computation began after the last event of its agent is
\* made of all of them, in both statements, whichever computations ran beside it
\* and wrote before.  (One that began earlier may write last; then began tells.)
CurrentWhenQuiet ==
  \A a \in Agent :
    LET row == trust_scores[a] IN
    row # None /\ Of(events, a, row.began) = Of(events, a, Len(events)) =>
      /\ Of(events, a, row.seen) = Of(events, a, Len(events))
      /\ Of(events, a, row.heard) = Of(events, a, Len(events))

\* The weights add up: no score needs the clamp, not even one of two different
\* snapshots.
ScoreInRange ==
  \A a \in Agent, age \in Ages, tier \in DOMAIN TierWeight :
    trust_scores[a] # None =>
      Score(events, a, trust_scores[a].seen, trust_scores[a].heard, age, tier) \in 0 .. 100

\* A success without a dispute, in time if it has an SLA, never lowers the score;
\* nor with a report of full uptime, unless the reports so far are all zero: these
\* count as none, and the fallback in their place is higher than a mean.
GoodEventsNeverHurt ==
  \A a \in Enrolled, e \in Report, age \in Ages, tier \in DOMAIN TierWeight :
    LET n   == Len(events)
        log == Append(events, [agent |-> a, report |-> e])
    IN /\ e.success /\ ~e.dispute /\ e.sla # "missed"
       /\ \/ e.uptime = NoReport
          \/ e.uptime >= Full /\ (Reports(events, a, n) = {} \/ UptimeSum(events, a, n) > 0)
       => Score(log, a, n + 1, n + 1, age, tier) >= Score(events, a, n, n, age, tier)
=============================================================================
