SPECIFICATION ClientsSpec
CONSTANTS
  Address = {a1, a2, zero}
  InvalidPrincipals = {zero}
  NoAddress = NoAddress
  WasmHash = {h1, h2, h3}
  UploadedWasm = {h1, h2}
  DeployedWasm = h0
  MaxContractVersion = 3
  MaxU32 = 3
  MaxSchema = 1
  Operator = a1
  BuiltWasm = h1
  MaxRetries = 2
INVARIANTS TypeOK FailClosed EqualVersionsEqualConfig FailureIsContained
PROPERTIES
  CountsEveryChange HandoverMovesOnlyAuthority UpgradesSpendApprovals
  ManifestIsTrue SwapsUnderPause ScriptEnds
