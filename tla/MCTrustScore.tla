---------------------------- MODULE MCTrustScore ----------------------------
(* Instance of TrustScore for TLC: one agent with a row and one without, two computations. *)
EXTENDS TrustScore, TLC

CONSTANTS a1, a2, r1, r2

TwoAgents == {a1, a2}
OneEnrolled == {a1}
TwoRequests == {r1, r2}
AgesInDays == {100}

\* Every outcome, SLA and dispute, with and without a report of each kind.
Event(success, dispute, sla, uptime) ==
  [success |-> success, dispute |-> dispute, sla |-> sla, uptime |-> uptime]
FourReports ==
  { Event(TRUE, FALSE, "absent", -1), Event(TRUE, FALSE, "met", -1),
    Event(TRUE, FALSE, "met", 3), Event(FALSE, TRUE, "missed", 0) }

Symmetry == Permutations(Request)
=============================================================================
