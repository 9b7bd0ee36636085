SPECIFICATION LimiterSpec
SYMMETRY Symmetry
CONSTANTS
  Workers = {w1, w2}
  Addresses = {a1}
  Paths <- MCPaths
  LoginLimit = 2
  RegisterLimit = 1
  ResetLimit = 1
  TransferLimit = 1
  DefaultLimit = 1
  Window = 2
  NoAddress = NoAddress
INVARIANTS
  LimiterTypeOK
  AdmissionsAreBounded
  RefusalsAreEarned
