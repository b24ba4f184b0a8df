SPECIFICATION Spec
CONSTANTS
  Workers = {w1, w2, w3}
  Plans <- MCPlans
  FREE = "FREE"
  Allowance <- MCAllowance
  MaxQuantity = 2
  None = None
CONSTRAINT MCBound
SYMMETRY MCSymmetry
INVARIANTS
  AllowanceKept
  OvershootBounded
CHECK_DEADLOCK FALSE
