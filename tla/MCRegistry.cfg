CONSTANTS
  r1 = r1  r2 = r2  r3 = r3
  a1 = a1  a2 = a2  o1 = o1  o2 = o2
  m1 = m1  m2 = m2
  None = None
  Org <- TwoOrgs
  Enrolled <- OneAgent
  Agent <- TwoAgents
  Manifest <- TwoManifests
  Request <- ThreeRequests
SPECIFICATION Spec
SYMMETRY Symmetry
CHECK_DEADLOCK FALSE
INVARIANTS TypeOK CacheBacked RevocationEnforced AuditTrail HashFollowsManifest
PROPERTIES VerifyEnforcesStatus HandshakeEnforcesListing AcknowledgedIsInForce
