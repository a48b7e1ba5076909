CONSTANTS
  h1 = h1
  h2 = h2
  Requests <- MCRequests
  MaxHours = 3
SPECIFICATION Spec
INVARIANTS
  TypeOK
  CutOnlyWhenOverdue
  ExitTruthful
PROPERTIES
  AcceptedBeforeExpiry
  AlwaysStops
