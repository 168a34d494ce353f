SPECIFICATION Spec
SYMMETRY Symmetry
CONSTRAINT AdminBound
CONSTANTS
  Address = {a1, x, zero, cp, ci, cc}
  InvalidPrincipals = {zero}
  NoAddress = NoAddress
  WasmHash = {h1}
  UploadedWasm = {h1}
  DeployedWasm = h0
  MaxContractVersion = 2
  ProofId = {p1, p2}
  Commitment = {k1}
  NoProof = NoProof
  ProofContract = cp
  IssuerContract = ci
  ConfigContract = cc
  IssuerServers = {ci, x}
  ConfigServers = {cc, x}
  Candidates = {a1, ci}
  MaxSchema = 1
  MaxTime = 2
INVARIANTS TypeOK MiswiredStaysEmpty TimestampsConsistent RevocationStaysOpen
PROPERTIES ProofsAreImmutable InvalidityIsFinal HopelessCallsStayHopeless
