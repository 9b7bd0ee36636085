SPECIFICATION IdentitySpec
SYMMETRY Symmetry
CONSTRAINT FewRows
CONSTANTS
  Users = {u1}
  Emails = {e1}
  NationalIds = {}
  Clients = {c1}
  MaxAttempts = 1
  MaxCodes = 1
  NoUser = NoUser
  NoEmail = NoEmail
  NoId = NoId
  Requests = {r1, r2}
  MaxTokens = 3
  MaxSecrets = 2
  MaxPassword = 2
  MaxRows = 4
INVARIANTS
  IdentityTypeOK
  NoSessionBeforeVerification
  OneLiveTokenPerSession
  OldPasswordsOpenNothing
  ActiveSecretIsProven
CHECK_DEADLOCK FALSE
