CONSTANTS
  n1 = n1
  n2 = n2
  n3 = n3
  s1 = s1
  s2 = s2
  s3 = s3
  s4 = s4
  Verifier <- ThreeNodes
  Node <- ThreeNodes
  Session <- OneSession
  Body <- OneSession
  Transports <- TripleLists
  SignerLists <- ListTriple
  Group <- ThreeNodes
  Threshold = 2
  MinSigners = 2
  Ttl = 1
  Faults <- NodeFaults
  Durable = TRUE
  MaxOpen = 1
  MaxTime = 1
  MaxNonce = 1
  PendingTTL = 2
  Conn <- Conns
  Epochs <- MCEpochs
  Expiry <- MCExpiry
  Registry <- NoRegistry
CHECK_DEADLOCK FALSE
SPECIFICATION Spec
INVARIANT NodeFailureTolerated
