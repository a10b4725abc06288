\* One attempt, two operations at a time, every deed and two faults.
SPECIFICATION FairSpec
CONSTANTS
  AttemptId = {1}
  TermId = {1, 2, 3}
  Proc = {p1, p2}
  Deed = {"edit", "commit", "push", "detach"}
  MaxFault = 2
  NoAttempt = 0
  NoTerm = 0
INVARIANTS LaunchSafety
PROPERTIES ImplementsStore LaunchSettles DeadWorkerNoticed
CHECK_DEADLOCK FALSE
