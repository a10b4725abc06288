\* Two moves that overtake each other; one move with work, faults and crashes.
\* One worker that asks the operator, one of opencode, the block, the quiet turn
\* and the long turn as short as their order allows.
SPECIFICATION StepsSpec
CONSTANTS
  Place = {A, B, C}
  Birth = A
  Proc = {p1, p2}
  Worktree = {w1, w2}
  Deed = {"mv", "undo", "init"}
  MaxMoves = 2
  MaxFault = 1
  Relative = Relative
  Sorts = {"ask", "opencode"}
  Grace = 1
  Wait = 1
  Long = 2
  MaxQueue = 1
  MaxDeeds = 3
  MaxLosses = 1
INVARIANTS MoveSafety AloneFindable LongOnce
PROPERTIES AloneSettles EndedSilent HeldKeeps DenyAfterKeys BlockedLabelled TurnEndTold
CHECK_DEADLOCK FALSE
