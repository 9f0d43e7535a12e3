CONSTANTS
  r1 = r1  r2 = r2
  t1 = t1  t2 = t2
  k1 = k1  k2 = k2
  None = None
  Token <- OneToken
  Key <- OneKey
  Stamp <- Minute
  Request <- TwoRequests
  keyOf <- SameNonce
  tsOf <- AtMinute
  Skew = 60
  TTL = 120
  Delay = 1
  Drift = 0
  Resends = 0
  Horizon = 125
  Restarts = 0
SPECIFICATION Spec
SYMMETRY Symmetry
CHECK_DEADLOCK FALSE
INVARIANT NoReplay
