\* An Undo overtakes the transaction of the Follow it undoes.
SPECIFICATION Spec
CONSTANTS
  r1 = r1
  r2 = r2
  r3 = r3
  None = None
  Requests = {r1, r2, r3}
  MaxOpen = 2
  MaxFaults = 0
  MaxBlockings = 0
INVARIANTS
  UndoneMeansRemoved
CHECK_DEADLOCK FALSE
