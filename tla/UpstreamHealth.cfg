SPECIFICATION FairSpec
CONSTANTS
  Backend = {b1, b2}
  VirtualJs = {b2}
  Req = {r1, r2}
  Retries = 1
  Window = 1
  MaxAttempts = 1
  IncludeHttpErrors = TRUE
  Iterations = {0, 2}
  HashKeyRule = TRUE
  MaxRetries = 3
  MaxTime = 1
  FaultTime = 0
  NoBackend = NoBackend
INVARIANTS ConnectFailuresBounded LockoutBounded RefusedForCause
PROPERTIES SkippedForCause EverythingSettles
CHECK_DEADLOCK FALSE
