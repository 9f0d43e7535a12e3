CONSTANTS
  a1 = a1  a2 = a2
  r1 = r1  r2 = r2
  None = None
  Agent <- TwoAgents
  Enrolled <- OneEnrolled
  Request <- TwoRequests
  Report <- FourReports
  Full = 2
  Ages <- AgesInDays
  MaxEvents = 3
SPECIFICATION Spec
SYMMETRY Symmetry
CHECK_DEADLOCK FALSE
INVARIANTS TypeOK CurrentWhenQuiet ScoreInRange GoodEventsNeverHurt
