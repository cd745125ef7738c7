\* One session on two nodes, two streams; the buffer and the channel overflow.
CONSTANTS
  Sessions = {s1}
  Streams = {k1, k2}
  Nodes = 2
  MaxSessions = 1
  MaxEvents = 2
  Capacity = 2
  MaxEmitted = 3
  NoSession = NoSession
SPECIFICATION FairSpec
INVARIANTS
  TypeOK
  CountedSessionIsLive
  BufferIsWindow
  DoneStreamIsAccounted
  PanicNeedsGiveUp
  CompletedTracedAllNodes
PROPERTIES
  WorkEnds
CHECK_DEADLOCK FALSE
