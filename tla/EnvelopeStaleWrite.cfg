SPECIFICATION FairSpec
CONSTANTS
  Signers = {s1, s2}
  Workers = {w1, w2}
  NoSigner = NoSigner
  Orders = {1, 2}
  ExpiresAt = {"future"}
  Requests = {"sign", "send", "expire"}
  MayFail = FALSE
PROPERTIES
  ImplementsLifecycle
CONSTRAINT OneSend
CHECK_DEADLOCK FALSE
