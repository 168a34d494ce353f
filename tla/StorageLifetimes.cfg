SPECIFICATION StorageSpec
CONSTANTS
  Address = {a1, cp, ci, cc}
  InvalidPrincipals = {}
  NoAddress = NoAddress
  WasmHash = {h1}
  UploadedWasm = {h1}
  DeployedWasm = h0
  MaxContractVersion = 2
  ProofId = {p1}
  Commitment = {k1}
  NoProof = NoProof
  ProofContract = cp
  IssuerContract = ci
  ConfigContract = cc
  IssuerServers = {ci}
  ConfigServers = {cc}
  Candidates = {a1}
  IssuerId = {i1, i2}
  Metadata = {m1}
  NoIssuer = NoIssuer
  NoRecord = NoRecord
  StampTime = 0
  MaxU32 = 4
  MaxSchema = 1
  MaxTime = 2
  TTL_THRESHOLD_LEDGERS = 2
  TTL_EXTEND_TO_LEDGERS = 7
  MinTtl = 1
  Horizon = 6
INVARIANT TouchesKeepAlive
PROPERTY RestoredInFull
