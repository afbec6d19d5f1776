SPECIFICATION MCSpec
CONSTANTS
  Err = Err
  ZkNone = ZkNone
  TNone = TNone
  Nodes = 3
  Thresholds = {2, 3}
  MaxCeremonies = 2
  CoordConfigs <- MCCoordConfigs
  RcVids <- MCRcVids
  RcThreshold = 2
  RcSessions = {"s1", "s2"}
  MaxEvals = 3
  HSP_PROOF_MAX_AGE = 1
  MaxSessionDuration = 1
  AtSessions = {"s1", "s2"}
  Ttls <- MCTtls
  Conns <- MCConns
  DxConns <- MCDxConns
  Claims = {"b1", "b2"}
  Fresh = {"f1", "f2"}
  DvrfSets <- MCDvrfSets
  MaxClock = 3
  MaxAttempts = 2
  LVids <- MCLVids
  LThreshold = 2
  DefaultTtl = 1
  LReq = {"q1", "q2"}
  LRequests <- MCLRequests
  LRegistries <- MCLRegistries
  OcIds = {"o1", "o2"}
  OcAddresses = {"alice", "bob"}
  OcValues = {1, 2}
  OcTtls = {0, 1}
  OcGroupKeys <- MCOcGroupKeys
  OcKeys = {3, 4, 5, 6}
  OcAtts <- MCOcAtts
  OcIncomes <- MCOcIncomes
  Validity = 1
  MaxTime = 4
  MaxDepth = 2
  MaxOptions = 2
  Trapdoors <- MCTrapdoors
  PsShares <- MCPsShares
  PsRands = {5}
  PsRandom <- MCPsRandom
  ZkConns <- MCZkConns
  ZkShares <- MCZkShares
  ZkRands <- MCZkRands
  ZkRecords <- MCZkRecords
  ZkCerts <- MCZkCerts
  MaxCrs = 2
  MaxParties = 3
  TConfigs <- MCTConfigs
  TRequests <- MCTRequests
  TOLERANCE = 1
  MAX_FRAME = 10
  U32 = 16
  MaxTicks = 2
  MaxBinds = 2
  MaxCuts = 1
  TIds = {"a", "b"}
  MaxSends = 2
  HRequests <- MCHRequests
  BUF = 6
  CHUNK = 3
  Session = {"s1", "s2"}
  Verifier = {"v1", "v2"}
  Thread = {"t1", "t2"}
  Backends = {"memory", "sqlite"}
  Body = {"b1"}
  SignerLists <- MCSignerLists
  Conn = {1}
  Registry <- MCRegistry
  Epochs = {0, 1}
  Expiry = {0, 1, 2}
  MinSigners = 2
  PendingTTL = 2
  MaxNonce = 2
  Scenarios = {"prover"}
INVARIANT
  HandleVerifiesItsProofs
CHECK_DEADLOCK FALSE
