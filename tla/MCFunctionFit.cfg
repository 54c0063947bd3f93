SPECIFICATION FitSpec
CONSTANTS
  InputDim = 2
  Samples <- MCSamples
  Tol = 1
  Inputs <- MCInputs
  Bins <- MCBins
  Before <- MCBefore
  TotalBins <- MCTotalBins
  SizePoly = 2
  SizeNode = 1
  MaxTableBits = 16
  kLeafSentinel = 63
INVARIANTS
  FitTypeOK
  PoolNumbersLeaves
  PanelsOfEveryBin
  FitAccurate
PROPERTIES
  ImplementsFitTiling
CHECK_DEADLOCK FALSE
