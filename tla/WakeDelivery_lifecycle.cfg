\* Three supervisor rows, switches of model and of harness, one event, no
\* messages.
CONSTANTS
  Run = {r1, r2}
  SupId = {1, 2, 3}
  InputId = {}
  EventId = {1}
  Model = {m1, m2}
  Commands = {"start", "resume", "harness", "switch"}
  WakeBatch = 1
  MaxFault = 1
  NoSup = 0
  NoModel = none
SPECIFICATION Spec
SYMMETRY RunAndModelSymmetry
INVARIANTS RowSafety
CHECK_DEADLOCK FALSE
