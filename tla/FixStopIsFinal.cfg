\* A stop meets the end of the job.
SPECIFICATION Spec
CONSTANTS
  Calls = {c1, c2}
  Indexes = {i1}
  i1 = i1
  Batches <- MCBatches
  Keep = 2
  MaxFaults = 0
  MaxCrashes = 0
PROPERTY StopIsFinal
CHECK_DEADLOCK FALSE
