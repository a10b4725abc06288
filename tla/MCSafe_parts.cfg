SPECIFICATION SafeSpec
CONSTANTS
  AttemptId = {1, 2}
  TermId = {1, 2}
  Proc = {o1}
  Deed = {"commit", "detach"}
  MaxFault = 1
  NoAttempt = 0
  NoTerm = 0
  Phones = {p1, p2}
  Own = f1
  Others = {f2}
  PairFails = 2
  AddrFails = 1
  MaxCodes = 2
  MaxPosts = 2
  MaxTokens = 2
  MaxEvents = 2
  Conns = {c1, c2}
  PeerRequests = 1
  MaxRequests = 2
  MaxRows = 1
  Links = {k1, k2}
  Sources = {s1, s2}
  MaxConnections = 1
  Handshakes = 2
  PerSource = 1
  HandshakeWait = 1
  Quiet = 2
  Burst = 2
  MaxTime = 2
  MaxHome = 3
  Repos = {"r1", "r2"}
  MaxName = 2
  Imports = {i1, i2}
  MaxImports = 2
  MaxEdits = 1
  MaxMishaps = 1
  Home <- UserHome
  Routes <- MovedHomes
  Chunks <- CellChunks
  MaxChunks = 3
  Boards = {1, 2}
  Ports = {7777}
  DefaultPort = 7777
  Openers = {o1, o2}
  Attempts = 2
  MaxByHand = 1
  MaxStops = 1
  MaxFaults = 1
  MaxExits = 2
  None = None
  Harnesses = {"opencode", "agy", "codex", "copilot"}
  MaxRev = 4
  MaxPresses = 1
  MaxLate = 1
  MaxDrops = 1
  Files = {a, b}
  Pruners = {w, c}
  Watcher = w
  Nobody = nobody
  Ages = {0}
  TrashKeep = 0
  SnapshotKeep = 2
  MaxDay = 3
  MaxDeeds = 2
  MaxKills = 1
  Tasks = {t1, t2}
  Waiter = t1
  After = 2
  Every = 3
  StallAlert = 4
  StillFor = 1
  Horizon = 1
  Period = 2
  MaxDue = 3
  MaxStalls = 2
  MaxActs = 2
  Crew = {w1, w2}
  Chief = c0
  Batch = 1
  MaxAsked = 2
  MaxHappens = 2
INVARIANTS ContinueSafety ServicesSafe ImportsSafe TextsSafe TracesSafe IdleSafety
PROPERTIES PhoneRows
  NotesKept EndedAsStopped
CONSTRAINT Calm
CHECK_DEADLOCK FALSE
