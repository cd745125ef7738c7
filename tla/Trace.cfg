\* One trace, two stops or deletes, one stream, a ring buffer of two.
CONSTANTS
  Traces = {t1}
  Clients = {k1, k2}
  Streams = {s1}
  NoTrace = NoTrace
  RingSize = 2
  MaxCaptured = 3
  MaxFaults = 1
SPECIFICATION FairSpec
INVARIANTS
  TypeOK
  SessionHasOwner
  EventsInOrder
  StreamIsGapless
PROPERTIES
  TimedTraceStops
  StreamEnds
CHECK_DEADLOCK FALSE
