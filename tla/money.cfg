SPECIFICATION Spec
CONSTANTS
  t1 = t1
  t2 = t2
  t3 = t3
  r1 = r1
  r2 = r2
  w1 = w1
  Accounts = {1, 2}
  TxnIds = {t1, t2, t3}
  Requests = {r1, r2}
  Workers = {}
  Currency <- OneCurrency
  Opening <- OpeningBoth
  Amounts = {1}
  Rates <- NoRates
  MaxMoney = 2
  MaxAttempts = 1
  MaxCodes = 1
  NewStatuses = {"ACTIVE","BLOCKED"}
  Enabled = {"initiate", "confirm", "reverse", "deposit", "withdraw", "crash"}
  NoTxn = NoTxn
  Nobody = Nobody
SYMMETRY SymmetricIds
CONSTRAINT TwoOrders
INVARIANTS
  TypeOK
  LedgerExplainsBalance
  EntriesMatchTransaction
  ExecutorsAreCurrent
  ReversalsAreUnique
  ExecutorsNeverDeadlock
PROPERTIES
  OnlyActiveAccountsMove
  ImplementsBank
CHECK_DEADLOCK FALSE
