\* Three starts, a registry that keeps two jobs: pruning meets running,
\* finished and stopped jobs.
CONSTANTS
  Calls = {c1, c2, c3}
  Keep = 2
SYMMETRY Symmetry
SPECIFICATION Spec
INVARIANTS
  TypeOK
  RunCanBeStopped
  CancelledIsReportedStopped
PROPERTIES
  ForgottenForNewerJobs
  FollowsLifecycle
CHECK_DEADLOCK FALSE
