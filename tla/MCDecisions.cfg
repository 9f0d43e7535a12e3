CONSTANTS
  a1 = a1  a2 = a2  pay = pay  read = read  send = send  audit = audit
  n1 = n1  n2 = n2
  Absent = Absent
  Empty = Empty
  Agent <- TwoAgents
  Scope <- TwoScopes
  Operation <- TwoOperations
  Manifest <- Manifests
  Amount <- TwoAmounts
  ScopeList <- Lists
  Nonce <- TwoNonces
  Foreign <- ForeignTokens
  Skew = 1
  RequestExpiry = 2
  HandshakeExpiry = 3
  Horizon = 3
SPECIFICATION Spec
INVARIANTS TypeOK VerifiedMeansGranted SdkIsVerified KindsApart HandshakeIsBound LessIsAllowed LibraryAgrees
PROPERTIES ExtendingKeepsGrants
