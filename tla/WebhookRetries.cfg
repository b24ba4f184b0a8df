SPECIFICATION FairSpec
CONSTANTS
  Hooks = {h1}
  Workers = {w1, w2}
  MaxAttempts = 3
  MaxStalls = 1
  None = None
INVARIANTS
  PostsBounded
  StatusIsBacked
  EndsDecided
PROPERTIES
  ImplementsLog
  DeliverySettles
CHECK_DEADLOCK FALSE
