\* Two messages and two events, two supervisor rows, every operator command
\* but the switches.
CONSTANTS
  Run = {r1, r2}
  SupId = {1, 2}
  InputId = {1, 2}
  EventId = {1, 2}
  Model = {m1}
  Commands = {"start", "stop", "resume", "force", "type"}
  WakeBatch = 2
  MaxFault = 1
  NoSup = 0
  NoModel = none
SPECIFICATION Spec
SYMMETRY RunSymmetry
INVARIANTS DeliverySafety
PROPERTIES ImplementsQueue
CHECK_DEADLOCK FALSE
