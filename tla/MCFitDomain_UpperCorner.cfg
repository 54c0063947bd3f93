CONSTANTS
  p = 5
  Emin <- MCEmin
  Corners <- MCCorners
  xp <- MCxp
  Subtrees = {1, 2, 3}
  TableBits = {2}
  MinWidth = 3
  Slack = 3
  ood_id = ood_id
SPECIFICATION Spec
CHECK_DEADLOCK FALSE
INVARIANT
  ClosedUpperEndpoint
