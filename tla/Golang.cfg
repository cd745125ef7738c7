\* Two creates and a limit of one; two runs; two candidate ports of an endpoint.
CONSTANTS
  Sessions = {s1, s2}
  Runs = {r1, r2}
  MaxSessions = 1
  Candidates = 2
  NoSession = NoSession
SPECIFICATION FairSpec
INVARIANTS
  TypeOK
  ForwardHasOwner
  LimitNeedsOverlap
  RunsGoWithTheirSession
PROPERTIES
  EndIsFinal
  RunEnds
CHECK_DEADLOCK FALSE
