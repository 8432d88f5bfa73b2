\* A review edited while it is being deleted leaves a tombstone with a rating.
SPECIFICATION Spec
CONSTANTS
  r1 = r1
  r2 = r2
  r3 = r3
  r4 = r4
  None = None
  Requests = {r1, r2, r3}
  MaxOpen = 2
INVARIANTS
  TombstonesAreEmpty
CHECK_DEADLOCK FALSE
