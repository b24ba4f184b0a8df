SPECIFICATION IdentityFairSpec
CONSTANTS
  Docs = {d1, d2}
  Requests = {w1, w2}
  Scores <- MCScores
  NoDoc = NoDoc
INVARIANTS
  ApprovedIsClean
PROPERTIES
  RunDecides
CHECK_DEADLOCK FALSE
