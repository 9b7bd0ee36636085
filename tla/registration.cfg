SYMMETRY Symmetry
SPECIFICATION RegistrationSpec
CONSTANTS
  Users = {u1, u2}
  Emails = {e1, e2}
  NationalIds = {n1}
  Clients = {r1, r2}
  MaxAttempts = 2
  MaxCodes = 2
  NoUser = NoUser
  NoEmail = NoEmail
  NoId = NoId
INVARIANTS
  RegistrationTypeOK
  OneUserPerIdentity
  VerifiedByItsCode
  GuessesAreCounted
  OnlyAStopStrands
CHECK_DEADLOCK FALSE
