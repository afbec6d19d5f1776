CONSTANTS
  n1 = n1
  v2 = v2
  s1 = s1
  s2 = s2
  b1 = b1
  Verifier <- MCVerifier
  Node <- MCNode
  Session <- MCSession
  Body <- MCBody
  SignerLists <- MCSignerLists
  Conn <- MCConn
  Epochs <- MCEpochs
  Expiry <- MCExpiry
  Registry <- MCRegistry
  MinSigners = 2
  PendingTTL = 2
  MaxTime = 3
  MaxNonce = 2
SYMMETRY Symmetry
SPECIFICATION AuxSpec
PROPERTY HandshakeRoundKept
