\* A film shelved while it is being marked watched ends on both shelves.
SPECIFICATION Spec
CONSTANTS
  r1 = r1
  r2 = r2
  r3 = r3
  r4 = r4
  None = None
  Requests = {r1, r2}
  MaxOpen = 2
INVARIANTS
  ShelvesAreExclusive
CHECK_DEADLOCK FALSE
