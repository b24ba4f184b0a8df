SPECIFICATION FairSpec
CONSTANTS
  N = 3
  Workers = {w1, w2}
  MaxResumes = 2
  MayFail = TRUE
  MayStray = TRUE
INVARIANTS
  StepsInOrder
  EveryStepDecided
  NeverRerunAlone
  BranchesFollowOutputs
PROPERTIES
  CompletedStays
  RunSettles
CONSTRAINTS
  OneMishap
  ShortConditions
CHECK_DEADLOCK FALSE
