\* Liveness: one run at a time, one message and one event, two faults.
CONSTANTS
  Run = {r1}
  SupId = {1, 2}
  InputId = {1}
  EventId = {1}
  Model = {m1}
  Commands = {"start"}
  WakeBatch = 2
  MaxFault = 2
  NoSup = 0
  NoModel = none
SPECIFICATION LiveSpec
PROPERTIES InputArrives WakeArrives StraysClosed
CHECK_DEADLOCK FALSE
