SPECIFICATION FairSchedules
CONSTANTS
  Schedules = {s1, s2}
  Sweeps = {w1}
  Accounts = {1, 2}
  Customers = {c1}
  Owner <- OneCustomer
  From <- FromFirst
  To <- ToSecond
  Amount <- Ones
  Period <- Ones
  Poisoned = {s2}
  Opening <- TwoOnFirst
  LastDay = 1
  MaxInterruptions = 0
  Nothing = Nothing
PROPERTIES
  OneFailureNeverBlocksOthers
CHECK_DEADLOCK FALSE
