CONSTANTS
  self = self  other = other  dot = dot
  k1 = k1  k2 = k2  rsa = rsa
  None = None  Torn = Torn
  Self = self
  Issuer <- ThreeIssuers
  Hidden <- Dotted
  Key <- Keys
  RSA <- RSAKeys
  Mint <- OwnKeys
  Manifest <- Bundles
  Kms = None
SPECIFICATION FairSpec
INVARIANTS TypeOK OnlyOffered NewestIsTrusted OwnCertificatesVerify
PROPERTY LoadEnds
