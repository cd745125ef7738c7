\* Three jobs, one index to drop and restore, one failing statement, one restart.
SPECIFICATION Spec
CONSTANTS
  Calls = {c1, c2, c3}
  Indexes = {i1}
  i1 = i1
  Batches <- MCBatches
  Keep = 2
  MaxFaults = 1
  MaxCrashes = 1
SYMMETRY Symmetry
INVARIANTS
  TypeOK
  ReportIsComplete
  DropsComeLast
  DroppedIsRecoverableOrReported
  AtMostOneLateStatement
CHECK_DEADLOCK FALSE
