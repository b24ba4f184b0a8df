SPECIFICATION Spec
CONSTANTS
  Sessions = {s1, s2}
  Tokens = {t1, t2, t3}
  Passwords = {p1, p2}
  Workers = {w1, w2}
  None = None
  MayFail = TRUE
SYMMETRY Symmetry
INVARIANTS
  SpentForGood
  OneLineage
  ReplayRevokes
  
CHECK_DEADLOCK FALSE
