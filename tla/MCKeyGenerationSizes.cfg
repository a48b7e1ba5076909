CONSTANTS
  k1 = k1
  k2 = k2
  none = none
  Requests <- MCRequests
  Configs <- MCConfigs
  NoKey = none
  MaxRetries = 1
  MaxFaults = 0
  MaxTime = 1
SPECIFICATION Spec
INVARIANT SizeRestricted
