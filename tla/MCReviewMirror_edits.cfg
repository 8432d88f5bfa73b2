\* A Create overtaken by its Update undoes the edit.
SPECIFICATION Spec
CONSTANTS
  s1 = s1
  s2 = s2
  Statuses = {s1}
  MaxVersion = 2
  MaxShelvings = 0
  MaxLate = 1
  MaxLost = 0
  MaxAgain = 0
PROPERTIES
  EditsAreNotUndone
CHECK_DEADLOCK FALSE
