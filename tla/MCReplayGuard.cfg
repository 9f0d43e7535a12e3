CONSTANTS
  r1 = r1  r2 = r2
  t1 = t1  t2 = t2
  k1 = k1  k2 = k2
  None = None
  Token <- TwoTokens
  Key <- TwoKeys
  Stamp <- TwoStamps
  Request <- TwoRequests
  keyOf <- SameNonce
  tsOf <- TokenTime
  Skew = 1
  TTL = 2
  Delay = 1
  Drift = 1
  Resends = 1
  Horizon = 8
  Restarts = 1
SPECIFICATION Spec
SYMMETRY Symmetry
CHECK_DEADLOCK FALSE
INVARIANTS TypeOK ReplayIsLate RefusalHasCause
