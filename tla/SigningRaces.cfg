SPECIFICATION Spec
CONSTANTS
  Docs = {d1, d2}
  Keys = {k1, k2}
  Contents = {c1, c2}
  Certs = {x1}
  Workers = {w1, w2}
  None = None
SYMMETRY MCSymmetry
INVARIANTS
  HistoryIsDense
  SignaturesCoverVersions
  VerdictIsFair
CHECK_DEADLOCK FALSE
