SPECIFICATION Spec
CONSTANTS
  AttemptId = {1}
  TermId = {1, 2}
  Proc = {p1, p2}
  Deed = {"detach"}
  MaxFault = 1
  NoAttempt = 0
  NoTerm = 0
SYMMETRY ProcSymmetry
INVARIANT CommitsKept
CHECK_DEADLOCK FALSE
