SPECIFICATION FairSchedules
CONSTANTS
  Schedules = {s1, s2}
  Sweeps = {w1}
  Accounts = {1, 2}
  Customers = {c1}
  Owner <- OneCustomer
  From <- FromFirst
  To <- ToSecond
  Amount <- Ones
  Period <- Ones
  Poisoned = {}
  Opening <- TwoOnFirst
  LastDay = 1
  MaxInterruptions = 1
  Nothing = Nothing
INVARIANTS
  SchedulesTypeOK
  DuplicatesAreInterruptions
PROPERTIES
  CancellationSticks
  CancelledIsOver
  DueIsHandled
CHECK_DEADLOCK FALSE
