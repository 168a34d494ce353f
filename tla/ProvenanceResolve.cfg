SPECIFICATION ProvenanceSpec

CONSTANTS
  Account = {a1, a2}
  Address = {a1, a2, cp, ci, cc}
  InvalidPrincipals = {}
  NoAddress = NoAddress
  WasmHash = {h1}
  UploadedWasm = {h1}
  DeployedWasm = h0
  MaxContractVersion = 1
  MaxU32 = 2
  MaxSchema = 1
  MaxTime = 1
  IssuerId = {i1, i2}
  Metadata = {m1}
  NoIssuer = NoIssuer
  NoRecord = NoRecord
  ProofId = {p1}
  Commitment = {k1}
  NoProof = NoProof
  ProofContract = cp
  IssuerContract = ci
  ConfigContract = cc
  IssuerServers = {ci}
  ConfigServers = {cc}
INVARIANT ProofsResolveToTheirIssuer
