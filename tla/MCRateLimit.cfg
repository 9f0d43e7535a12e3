CONSTANTS
  r1 = r1  r2 = r2  r3 = r3
  s1 = s1
  None = None
  Subject <- OneSubject
  Request <- ThreeRequests
  Limit = 2
  Window = 3
  KeyTTL = 5
  Delay = 1
  Drift = 1
  Resends = 1
  Horizon = 6
  Restarts = 1
SPECIFICATION Spec
SYMMETRY Symmetry
CHECK_DEADLOCK FALSE
INVARIANTS TypeOK WithinLimit LimitedHasCause LeaseHasCause
