\* Two tabs, one fault and one blocking. All clicks end.
SPECIFICATION FairSpec
CONSTANTS
  r1 = r1
  r2 = r2
  r3 = r3
  None = None
  Requests = {r1, r2, r3}
  MaxOpen = 2
  MaxFaults = 1
  MaxBlockings = 1
INVARIANTS
  TypeOK
  SettledAgreement
  NotedWithRow
PROPERTIES
  EveryClickReturns
CHECK_DEADLOCK FALSE
