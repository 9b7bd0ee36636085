SPECIFICATION FairSpec
CONSTANTS
  t1 = t1
  t2 = t2
  t3 = t3
  r1 = r1
  r2 = r2
  w1 = w1
  Accounts = {1, 2}
  TxnIds = {t1}
  Requests = {r1, r2}
  Workers = {w1}
  Currency <- TwoCurrencies
  Opening <- OpeningBoth
  Amounts = {1}
  Rates <- OddRates
  MaxMoney = 3
  MaxAttempts = 2
  MaxCodes = 2
  NewStatuses = {}
  Enabled = {"initiate", "confirm", "expire", "resend"}
  NoTxn = NoTxn
  Nobody = Nobody
INVARIANTS
  EntriesMatchTransaction
  ExhaustedIsFailed
  MovedMeansVerified
PROPERTIES
  ResolvedStaysResolved
  PendingIsResolved
CHECK_DEADLOCK FALSE
