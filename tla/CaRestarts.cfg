SPECIFICATION CaSpec
CONSTANTS
  Instances = {i1, i2}
  Generations = {g1, g2, g3}
  NoGeneration = NoGeneration
SYMMETRY MCSymmetry
INVARIANTS
  ChainsVerify
CHECK_DEADLOCK FALSE
