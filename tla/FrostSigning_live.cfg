CONSTANTS
  n1 = n1
  n2 = n2
  n3 = n3
  s1 = s1
  s2 = s2
  s3 = s3
  s4 = s4
  Verifier <- TwoNodes
  Node <- TwoNodes
  Session <- TwoSessions
  Body <- TwoSessions
  Transports <- PairLists
  SignerLists <- AllLists
  Group <- TwoNodes
  Threshold = 2
  MinSigners = 2
  Ttl = 1
  Faults <- NodeFaults
  Durable = TRUE
  MaxOpen = 2
  MaxTime = 2
  MaxNonce = 2
  PendingTTL = 1
  Conn <- Conns
  Epochs <- MCEpochs
  Expiry <- MCExpiry
  Registry <- NoRegistry
CHECK_DEADLOCK FALSE
SPECIFICATION LiveSpec
PROPERTY
  SessionsReturn
