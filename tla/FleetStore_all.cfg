\* Two tasks and three workers that continue each other, or three timers under
\* a cap of two, a decision and a plan, while the task finishes.
CONSTANTS
  TaskId = {1, 2}
  AttemptId = {1, 2, 3}
  ReportId = {1}
  DecisionId = {1}
  TimerId = {1, 2, 3}
  Ref = {"pr"}
  MaxTimers = 2
  MaxRevision = 1
  NoTask = 0
SPECIFICATION Spec
INVARIANTS StoreSafety
PROPERTIES WorkerEndsWait FinishedIsFinal
CONSTRAINT Slices
CHECK_DEADLOCK FALSE
