SPECIFICATION Spec
CONSTANTS
  Lo = 1
  Hi = 4
  LeafOf <- MCLeafOf
  NLeaves = 3
  NaN = NaN
  Inputs <- MCInputs
  small_run_cutoff = 2
INVARIANTS
  RunsPartition
  
PROPERTIES
  Ends
CHECK_DEADLOCK FALSE
