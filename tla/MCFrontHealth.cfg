CONSTANTS
  r1 = r1
  r2 = r2
  near = near
  far = far
  Requests <- MCRequests
  Clients <- MCClients
  Settings <- MCSettings
  CertHours <- MCCertHours
  Asked <- MCAsked
  Delays <- MCDelays
  NoConfig = NoConfig
  NoRequest = NoRequest
  DefaultRate = 1
  DefaultBurst = 2
  DefaultAuthRate = 1
  DefaultAuthBurst = 1
  MaxTicks = 1
  MaxSweeps = 1
SPECIFICATION Spec
INVARIANT DegradedIsUnavailable
