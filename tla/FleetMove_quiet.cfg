\* One move, and one attempt that starts while it is under way.
SPECIFICATION Spec
CONSTANTS
  Place = {A, B}
  Birth = A
  Proc = {p1}
  Worktree = {w1}
  Deed = {"work"}
  MaxMoves = 1
  MaxFault = 1
  Relative = Relative
PROPERTIES MoveRefusesLiveWork
CHECK_DEADLOCK FALSE
