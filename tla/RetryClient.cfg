SPECIFICATION ClientSpec
CONSTANTS
  Address = {a1, cp, ci, cc}
  InvalidPrincipals = {}
  NoAddress = NoAddress
  WasmHash = {h1}
  UploadedWasm = {h1}
  DeployedWasm = h0
  MaxContractVersion = 1
  ProofId = {p1}
  Commitment = {k1, k2}
  OwnCommitment = k1
  Requesters = {a1, cp}
  NoProof = NoProof
  ProofContract = cp
  IssuerContract = ci
  ConfigContract = cc
  IssuerServers = {ci}
  ConfigServers = {cc}
  Candidates = {a1}
  MaxSchema = 1
  MaxTime = 2
INVARIANTS DroppedIsHopeless LostAnswersAreRecovered
PROPERTIES QueueDrains EveryProofEnds
