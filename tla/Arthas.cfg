\* Three create requests race on one pod with two containers.
CONSTANTS
  Requests = {r1, r2, r3}
  r1 = r1
  Pods = {p1}
  Containers = {c1, c2}
  c1 = c1
  NoOne = NoOne
  MaxRestarts = 1
SPECIFICATION MCSpec
INVARIANTS
  TypeOK
  PendingJobHasItsWorker
  ReportedSessionIsUsable
  OpenForwardHasOwner
PROPERTIES
  OwnsTargetsExclusively
  JobSettles
CHECK_DEADLOCK FALSE
