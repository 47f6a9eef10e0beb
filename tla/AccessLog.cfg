SPECIFICATION Spec
CONSTANTS
  r1 = r1  r2 = r2  r3 = r3  v1 = v1  v2 = v2
  Build = {b1, b2}
  Req = {r1, r2, r3}
  Server = {v1, v2}
  Home <- MCHome
  Cap = 1
  Parts = 2
  None = None
CHECK_DEADLOCK FALSE
INVARIANTS LostForCause SinkWritesInOrder
PROPERTY AcceptedIsWritten
