SPECIFICATION DeploySpec
CONSTRAINTS AddressBound StrangerBound SecondIssuerBound
CONSTANTS
  Account = {b1}
  Address = {a1, b1, x, cp, ci, cc}
  InvalidPrincipals = {}
  NoAddress = NoAddress
  WasmHash = {h1}
  UploadedWasm = {h1}
  DeployedWasm = h0
  MaxContractVersion = 1
  MaxU32 = 3
  MaxSchema = 1
  MaxTime = 1
  IssuerId = {i1, i2}
  Metadata = {m1}
  NoIssuer = NoIssuer
  NoRecord = NoRecord
  ProofId = {p1}
  Commitment = {k1}
  NoProof = NoProof
  ProofContract = cp
  IssuerContract = ci
  ConfigContract = cc
  IssuerServers = {ci, x}
  ConfigServers = {cc, x}
  Source = a1
  Admin = a1
  IssuerAddress = b1
  BackendIssuer = i1
  BackendMetadata = m1
  MaxRetries = 2
INVARIANTS DeploymentFailsClosed ManifestIsOperational
PROPERTIES AdmissionIsSound ProofsSpec
CHECK_DEADLOCK FALSE
