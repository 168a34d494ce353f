SPECIFICATION Spec
CONSTANTS
  Address = {a1, a2, a3, zero}
  InvalidPrincipals = {zero}
  NoAddress = NoAddress
  WasmHash = {h1}
  UploadedWasm = {h1}
  DeployedWasm = h0
  MaxContractVersion = 2
  IssuerId = {i1, i2}
  Metadata = {m1, m2}
  NoIssuer = NoIssuer
  NoRecord = NoRecord
  MaxTime = 2
PROPERTY NeverCodesAreFinal
