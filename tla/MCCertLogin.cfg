CONSTANTS
  l1 = l1
  l2 = l2
  e1 = e1
  e2 = e2
  e3 = e3
  p1 = p1
  p2 = p2
  p3 = p3
  device = device
  unknown = unknown
  noCN = noCN
  none = none
  Logins <- MCLogins
  Certs <- MCCerts
  Prints <- MCPrints
  CommonNames <- MCCommonNames
  NoCN = noCN
  Unknown = unknown
  Prefix <- MCPrefix
  Ids <- MCIds
  NoId = none
  MaxRetries = 1
  MaxFaults = 1
  MaxRemoved = 1
SPECIFICATION Spec
INVARIANTS
  TypeOK
  SeparateIdentities
  OneIdentity
  FailureHasCause
  TokensAccounted
SYMMETRY Symmetry
