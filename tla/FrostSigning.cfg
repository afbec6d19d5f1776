CONSTANTS
  n1 = n1
  n2 = n2
  n3 = n3
  s1 = s1
  s2 = s2
  s3 = s3
  s4 = s4
  Verifier <- TwoNodes
  Node <- TwoNodes
  Session <- FourSessions
  Body <- FourSessions
  Transports <- MixedLists
  SignerLists <- AllLists
  Group <- TwoNodes
  Threshold = 2
  MinSigners = 2
  Ttl = 1
  Faults <- AllFaults
  Durable = TRUE
  MaxOpen = 2
  MaxTime = 2
  MaxNonce = 4
  PendingTTL = 1
  Conn <- Conns
  Epochs <- MCEpochs
  Expiry <- MCExpiry
  Registry <- NoRegistry
CHECK_DEADLOCK FALSE
SPECIFICATION Spec
SYMMETRY Alike
INVARIANTS
  CoTypeOK
  EnvelopeIsQuorumSigned
  OneNonceSetSigned
  PackageIsGenuine
  NoncesConsumed
  ApprovalsAreEarned
PROPERTIES
  LifecycleFollowed
  ImplementsThresholdSigning
