SPECIFICATION BrowserSpec
SYMMETRY Symmetry
CONSTRAINT FewRows
VIEW View
CONSTANTS
  Tabs = {t1, t2}
  Requests = {r1, r2}
  MaxTokens = 3
  MaxPassword = 1
  MaxRows = 3
  User = u1
  NoUser = NoUser
  NoTab = NoTab
INVARIANTS
  BrowserTypeOK
  KeepsInStep
CHECK_DEADLOCK FALSE
