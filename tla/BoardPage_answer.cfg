SPECIFICATION PageSpec
CONSTANTS
  Attempts = {w1}
  Asking = {w1}
  Pages = {p1}
  MaxChanges = 2
  MaxPresses = 2
  MaxLost = 1
PROPERTIES
  OneAnswer
CHECK_DEADLOCK FALSE
