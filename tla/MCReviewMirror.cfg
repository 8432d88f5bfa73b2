\* Two reviews over a network that reorders, loses and repeats. The author stops
\* once the bounds are spent.
SPECIFICATION Spec
CONSTANTS
  s1 = s1
  s2 = s2
  Statuses = {s1, s2}
  MaxVersion = 3
  MaxShelvings = 2
  MaxLate = 2
  MaxLost = 2
  MaxAgain = 1
INVARIANTS
  Converged
  LatestVersionShown
  NothingInvented
PROPERTIES
  TombstoneIsFinal
CHECK_DEADLOCK FALSE
