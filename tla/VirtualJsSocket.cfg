SPECIFICATION FairSpec
CONSTANTS
  Pusher = {p1, p2}
  MaxBytes = 3
  MaxChunk = 2
  MaxPending = 2
  MaxRoom = 2
CHECK_DEADLOCK FALSE
INVARIANTS NoLostWakeup
PROPERTIES ImplementsByteStream
  ReaderGetsAll
