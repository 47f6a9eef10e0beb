SPECIFICATION FairSpec
CONSTANTS
  k1 = k1
  Key = {k1}
  Instance = {i1, i2}
  KeyOf <- MCKeyOf
  Conn = {c1}
  JsThread = {j1}
  QueueMax = 1
  NoInst = NoInst
  NoConn = NoConn
CHECK_DEADLOCK FALSE
INVARIANTS RegisteredIffActive UnregisteredStreamsDead ConnectionRefsLive NoStrayEntry
PROPERTIES
  ConnectSettles
