\* No statement fails; one trace is stopped once.
CONSTANTS
  Traces = {t1}
  Clients = {k1}
  Streams = {s1}
  NoTrace = NoTrace
  RingSize = 2
  MaxCaptured = 2
  MaxFaults = 0
SPECIFICATION Spec
INVARIANT LateEventsAreKept
CHECK_DEADLOCK FALSE
