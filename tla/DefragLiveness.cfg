\* Two starts under the fairness of the Go scheduler.
CONSTANTS
  Calls = {c1, c2}
  Keep = 1
SPECIFICATION FairSpec
PROPERTIES
  CutJobEnds
CHECK_DEADLOCK FALSE
