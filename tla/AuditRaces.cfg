SPECIFICATION Spec
CONSTANTS
  Events = {e1, e2, e3, e4}
  Chains = {k1, k2}
  OtherPayload = OtherPayload
  MaxAppendRetries = 3
  MaxSkew = 1
  MaxNow = 1
  MayFail = TRUE
  MayAlter = TRUE
SYMMETRY Symmetry
CONSTRAINT FewFaults
INVARIANTS
  VerifyIsExact
  Linked
  StoredOnce
  Chronological
  GivesUpOnlyWhenOvertaken
CHECK_DEADLOCK FALSE
