SPECIFICATION FairCardsSpec
CONSTANTS
  CardIds = {c1, c2}
  AccountIds = {a1}
  Customers = {u1}
  Owner <- MCOwner
  OpeningBalance <- MCOpening
  Prices = {1}
  Calls = {r1, r2}
  MaxEntries = 2
  NoCard = NoCard
  NoAccount = NoAccount
  Free = Free
INVARIANTS
  CardsTypeOK
  EntriesExplainBalance
PROPERTIES
  ChargesNeedAnActiveCard
  CallsEnd
CHECK_DEADLOCK FALSE
