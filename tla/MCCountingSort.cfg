SPECIFICATION Spec
CONSTANTS
  a = a
  b = b
  c = c
  oa = oa
  ob = ob
  Points = {a, b, c, oa, ob}
  RegimeOf <- MCRegimeOf
  IdOf <- MCIdOf
  La = 2
  Lb = 1
  Batches <- MCBatches
  capacity = 3
  MaxCalls = 2
  NaN = NaN
  Garbage = Garbage
INVARIANTS
  CountsStage
  Permutation
PROPERTY
  ImplementsPointwise
CHECK_DEADLOCK FALSE
