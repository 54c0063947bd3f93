SPECIFICATION Spec
CONSTANTS
  InputDim = 1
  Samples <- MCSamples
  Tol = 1
  Inputs <- MCInputs
  Bins <- MCBins
  Before <- MCBefore
  SizePoly = 2
  SizeNode = 1
  MaxTableBits = 16
  kLeafSentinel = 7
INVARIANTS
  TypeOK
  ChildLinks
  LeafPool
  LeafDepth
  ScaleIsLoudest
  Accurate
  PanelsExact
  TableCovers
PROPERTIES
  ImplementsTiling
CHECK_DEADLOCK FALSE
