CONSTANTS
  Key = {k1}
  Inst = {i1, i2, i3}
  Env = {e1, e2}
  Req = {r1}
  NoInst = NoInst
  QueueSize = 1
SPECIFICATION Spec
CHECK_DEADLOCK FALSE
INVARIANT NoDuplicate
