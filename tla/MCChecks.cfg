CONSTANTS
  a = a
  b = b
  k1 = k1
  k2 = k2
  Inputs <- MCInputs
  Settings <- MCSettings
  Messages <- MCMessages
  Values <- MCValues
  Keys <- MCKeys
  NoCSR = NoCSR
  NoCert = NoCert
  DefaultLimit = 2
  DefaultKeygenLimit = 1
SPECIFICATION Spec
INVARIANTS
  TypeOK
  AskedForGood
  StatusTruthful
