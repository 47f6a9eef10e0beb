SPECIFICATION Spec
CONSTANTS
  Req = {r1, r2}
  Request <- MCRequest
  Setup <- MCSetup
  HeaderValue <- MCHeaderValue
  UriAuthority <- MCUriAuthority
  MaxTtl = 1
  MaxTries = 2
  MaxTime = 1
  MaxPurges = 1
  NoHost = NoHost  NoRoute = NoRoute  NoObj = NoObj  NoReq = NoReq
SYMMETRY Perms
CHECK_DEADLOCK FALSE
INVARIANTS GatesHold UpstreamSeesRoutedHost AttemptsAlike PurgeHolds CachedIsOwn
