SPECIFICATION FairSpec
CONSTANTS
  Signers = {s1, s2, s3}
  Workers = {w1}
  NoSigner = NoSigner
  Orders = {1, 2}
  ExpiresAt = {"none", "future", "passed"}
  Requests = {"view", "consent", "sign", "decline", "addSigner", "send", "void", "expire"}
  MayFail = FALSE
INVARIANTS
  AllSignedIsTerminal
  CompletedIsAllSigned
  DeclineTerminates
  TurnIsAnnounced
PROPERTIES
  ImplementsLifecycle
  OverdueEnds
CHECK_DEADLOCK FALSE
