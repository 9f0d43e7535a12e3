CONSTANTS
  s1 = s1  s2 = s2
  k1 = k1  k2 = k2
  None = None
  Server <- TwoServers
  Key <- TwoKeys
  TTL = 5
  Drift = 1
  Horizon = 7
  MaxTokens = 2
SPECIFICATION Spec
SYMMETRY Symmetry
INVARIANTS TypeOK AccessNeedsKey ExpiresInIsKept
