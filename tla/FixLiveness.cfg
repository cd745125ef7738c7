\* Two calls under the fairness of the Go scheduler and of the SQL server, one restart.
SPECIFICATION FairSpec
CONSTANTS
  Calls = {c1, c2}
  Indexes = {i1}
  i1 = i1
  Batches <- MCBatches
  Keep = 1
  MaxFaults = 1
  MaxCrashes = 1
PROPERTY StoppedJobEnds
CHECK_DEADLOCK FALSE
