SPECIFICATION FairSpec
CONSTANTS
  Server = {s1, s2, s3}
  Caller = {a, b}
  NoServer = NoServer
CHECK_DEADLOCK FALSE
INVARIANTS
  OneServer
  StoppedIsDown
PROPERTIES
  ImplementsServerStates
  StopAnswers
  CollectedExits
