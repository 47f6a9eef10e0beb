SPECIFICATION Spec
CONSTANTS
  Backend = {b1}
  VirtualJs = {}
  Req = {r1, r2}
  Retries = 1
  Window = 1
  MaxAttempts = 1
  IncludeHttpErrors = TRUE
  Iterations = {3}
  HashKeyRule = FALSE
  MaxRetries = 3
  MaxTime = 2
  FaultTime = 2
  NoBackend = NoBackend
INVARIANT HttpErrorsCount
CHECK_DEADLOCK FALSE
