SPECIFICATION FitSpec
CONSTANTS
  InputDim = 2
  Samples <- MCSamples
  Tol = 1
  Inputs <- MCInputs
  Bins <- MCBins
  Before <- MCBefore
  TotalBins <- MCTotalBins
  SizePoly = 2
  SizeNode = 1
  MaxTableBits = 16
  kLeafSentinel = 63
INVARIANT
  HardCap
CHECK_DEADLOCK FALSE
