CONSTANTS
  i1 = i1  i2 = i2  i3 = i3  i4 = i4
  k1 = k1  k2 = k2  n1 = n1  n2 = n2  eu = eu  us = us
  None = None
  Issuer <- FourIssuers
  Key <- TwoKeys
  Name <- TwoNames
  Bundle <- Bundles
  Jurisdiction <- TwoJurisdictions
  Metadata <- MetadataOfKeys
  Policy <- Policies
SPECIFICATION Spec
INVARIANTS TypeOK StoreFollowsBundles VerdictIsMonotone
