CONSTANTS
  self = self
  k1 = k1  k2 = k2
  None = None  Torn = Torn
  Self = self
  Issuer <- OwnIssuer
  Hidden <- Nothing
  Key <- OwnKeys
  RSA <- Nothing
  Mint <- OwnKeys
  Manifest <- Nothing
  Kms = None
SPECIFICATION RotationSpec
INVARIANT OldCertificatesStayValid
