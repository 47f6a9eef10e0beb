CONSTANTS
  Key = {k1}
  Inst = {i1, i2}
  Env = {e1, e2}
  Req = {r1, r2}
  NoInst = NoInst
  QueueSize = 1
SPECIFICATION FairSpec
CHECK_DEADLOCK FALSE
INVARIANTS OnlyLetThrough RespondsAsAsked DeadHandlerRemoved
PROPERTIES RemovedForCause EveryRequestDecided
