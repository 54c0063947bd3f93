SPECIFICATION Spec
CONSTANTS
  a = a
  b = b
  c = c
  o = o
  Points = {a, b, c, o}
  n_leaves = 3
  LeafOf <- MCLeafOf
  output_dim = 2
  Batches <- MCBatches
  kSortThreshold = 3
  kDefaultTileK = 2
  kMinPtsPerLeaf = 1
  NaN = NaN
  Garbage = Garbage
INVARIANTS
  Cursors
  StablePacking
  OwnPoints
PROPERTIES
  ImplementsPointwise
  Finishes
CHECK_DEADLOCK FALSE
