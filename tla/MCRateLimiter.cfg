CONSTANTS
  q1 = q1
  q2 = q2
  q3 = q3
  none = none
  alice = alice
  bob = bob
  proxy = proxy
  noHeader = noHeader
  Requests <- MCTwo
  Addresses <- MCAddresses
  Sources <- MCSources
  TrustedPeers <- MCTrustedPeers
  NoHeader = noHeader
  NoBucket = none
  Rate = 1
  Burst = 1
  Cleanup = 2
  MaxHold = 1
  MaxTime = 4
SPECIFICATION Spec
INVARIANTS
  TypeOK
  AdmittedWithinRate
  RejectedOnlyWhenSpent
PROPERTIES
  ImplementsBuckets
  AlwaysDecided
  IdleForgotten
