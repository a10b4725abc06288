\* One fleet and one worker, two pages, two requests; two boards, two watchers, and
\* two commands, one of another binary.
SPECIFICATION LiveSpec
CONSTANTS
  Fleets = {f1}
  Carried = TRUE
  MaxKills = 2
  MaxFails = 1
  MaxWork = 1
  Attempts = {w1}
  Asking = {w1}
  Pages = {p1, p2}
  MaxChanges = 2
  MaxPresses = 2
  MaxLost = 1
  Requests = {r1, r2}
  Homes = {a, b}
  Tries = 2
  MaxAsks = 2
  MaxMoves = 1
  Generations = {11, 12}
  Watchers = {1, 2}
  Commands = {c1, c2}
  Foreign = {c2}
  MaxMishaps = 2
  Nobody = 0
INVARIANTS ProcessesSafe KeeperSafety
PROPERTIES SwitchesRight EverythingReturns OpenPageComplete AnswersOnce ServedCurrent StoresClosed WatcherFollows
CHECK_DEADLOCK FALSE
