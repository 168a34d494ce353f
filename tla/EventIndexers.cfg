SPECIFICATION IndexerSpec
SYMMETRY Symmetry
CONSTANTS
  Address = {a1, a2}
  InvalidPrincipals = {}
  NoAddress = NoAddress
  WasmHash = {h1}
  UploadedWasm = {h1}
  DeployedWasm = h0
  MaxContractVersion = 2
  IssuerId = {i1, i2}
  Metadata = {m1}
  NoIssuer = NoIssuer
  NoRecord = NoRecord
  MaxTime = 1
  MaxU32 = 4
  MaxSchema = 1
  MaxBacklog = 3
INVARIANTS IndexerRebuildsState GapsAreVisible NoFalseAlarms
