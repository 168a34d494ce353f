SPECIFICATION UpkeepSpec
CONSTANTS
  Address = {a1, a2}
  InvalidPrincipals = {}
  NoAddress = NoAddress
  WasmHash = {h1}
  UploadedWasm = {h1}
  DeployedWasm = h0
  MaxContractVersion = 1
  IssuerId = {i1}
  Metadata = {m1}
  NoIssuer = NoIssuer
  NoRecord = NoRecord
  MaxTime = 0
  TTL_THRESHOLD_LEDGERS = 1
  TTL_EXTEND_TO_LEDGERS = 3
  MinTtl = 1
  Horizon = 4
  Cadence = 1
INVARIANT IndexStaysLive
