SPECIFICATION Spec
CONSTANTS
  Fits <- MCFits
  BatchesOf <- MCBatchesOf
  lanes = 4
  word = 8
  NaN = NaN
  ood_id = ood_id
INVARIANTS
  TypeOK
  OneId
  ReadsTable
  OwnPanel
  TableIsDescent
CHECK_DEADLOCK FALSE
