SPECIFICATION Spec
CONSTANTS
  Signers = {s1, s2}
  Workers = {w1, w2}
  NoSigner = NoSigner
  Orders = {1, 2}
  ExpiresAt = {"none"}
  Requests = {"view", "consent", "sign", "decline", "addSigner", "send"}
  MayFail = TRUE
SYMMETRY Symmetry
CONSTRAINT CanonicalOrder
VIEW AllButEnqueued
INVARIANTS
  SignedHasSignature
  SigningOrderKept
  CompletedHasSignatures
CHECK_DEADLOCK FALSE
