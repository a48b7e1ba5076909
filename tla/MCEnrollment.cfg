CONSTANTS
  r1 = r1
  r2 = r2
  bearer = bearer
  expired = expired
  service = service
  server = server
  none = none
  Requests <- MCRequests
  Inputs <- MCInputs
  Policies = {"role"}
  Enabled <- MCEnabled
  BearerTokens <- MCBearerTokens
  ValidBearers <- MCValidBearers
  ServiceToken = service
  Server = server
  NoToken = none
  MaxRetries = 1
  EncryptPrivateKey = TRUE
  MaxFaults = 2
  MaxRevoked = 1
SPECIFICATION Spec
INVARIANTS
  TypeOK
  SignedUnderOwnToken
  RecordsAgree
  LostOnlyToFaults
  RetriesBounded
  ChainIsComplete
  LoginsBounded
SYMMETRY Symmetry
