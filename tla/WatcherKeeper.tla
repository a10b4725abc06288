--------------------------- MODULE WatcherKeeper ---------------------------
(***************************************************************************)
(* Who keeps the watcher of a fleet running, and for which board: every    *)
(* board sweeps over the fleets, and the commands that start work ensure a *)
(* watcher too; the generation of a board decides whose watcher may stay   *)
(* and which process may close a supervisor (cli/watch_ensure.go,          *)
(* board_watchers.go, generation.go, watch.go, stop.go, spawn.go).         *)
(*                                                                         *)
(* One fleet, which has a live supervisor, or one to be resumed, all the   *)
(* time (watcherWanted).  A generation is the number of the board that     *)
(* wrote it.                                                               *)
(* What a watcher does with the fleet is left out, but for the close of a  *)
(* supervisor, which a generation guards.                                  *)
(***************************************************************************)
EXTENDS Naturals

CONSTANTS
  Generations,  \* the boards of the machine, in the order they start; numbers
  Watchers,     \* the processes of watchers; numbers
  Commands,     \* runs of a command that ensures a watcher, or of `hand watch`
  Foreign,      \* the boards and commands that run another binary than the rest
  MaxMishaps,   \* kills, waits that run out, stops, and commands that are run
  Nobody

ASSUME WatcherKeeperAssumption ==
  /\ Generations \subseteq Nat /\ Watchers \subseteq Nat /\ MaxMishaps \in Nat
  /\ Generations \cap Watchers = {} /\ Nobody \notin Generations \cup Watchers
  /\ Foreign \subseteq Generations \cup Commands

Keepers == Generations \cup Commands

VARIABLES
  boards,       \* per board: "none", "up", "ending" or "gone"
  generation,  \* board.generation
  genLock,     \* who holds board.generation.lock
  process,     \* per watcher: where it is, the generation it holds, its binary
  held,        \* the watcher that holds watch.lock
  marked,      \* watch.generation
  watchPid,    \* watch.pid
  keeper,      \* per board's sweep and per command: where it is, for which generation,
               \* what it read of watch.pid, which process it waits for
  mishaps,
  exposed      \* history: the watcher that wrote watch.pid while a stop was about to remove it

kVars == <<boards, generation, genLock, process, held, marked, watchPid, keeper, mishaps, exposed>>

NoProcess == [at |-> "gone", gen |-> Nobody, exe |-> "hand"]
NoSweep(k) == [at |-> IF k \in Generations THEN "idle" ELSE "done", gen |-> Nobody, read |-> Nobody, pid |-> Nobody]
Exe(k) == IF k \in Foreign THEN "other" ELSE "hand"
Alive(w) == process[w] # NoProcess
Closers == Watchers \cup Generations
\* The generation a process goes by; Nobody guards nothing.
Holds(x) == IF x \in Watchers THEN process[x].gen ELSE x
Mishap == mishaps < MaxMishaps /\ mishaps' = mishaps + 1

(***************************************************************************)
(* Boards.                                                                 *)
(***************************************************************************)
BugRecordGeneration(b) ==
  /\ boards[b] = "none" /\ \A c \in Generations : boards[c] = "none" => b <= c
  /\ boards' = [boards EXCEPT ![b] = "up"] /\ generation' = b
  /\ UNCHANGED <<genLock, process, held, marked, watchPid, keeper, mishaps, exposed>>

\* recordGeneration: a board starts and writes its generation, under the lock.
RecordGeneration(b) ==
  /\ boards[b] = "none" /\ (\A c \in Generations : boards[c] = "none" => b <= c) /\ genLock = Nobody
  /\ boards' = [boards EXCEPT ![b] = "up"] /\ generation' = b
  /\ UNCHANGED <<genLock, process, held, marked, watchPid, keeper, mishaps, exposed>>

\* It is asked to end: no sweep begins any more, but one that stops or starts a
\* watcher goes on to its end.
EndBoard(b) ==
  /\ boards[b] = "up" /\ Mishap
  /\ boards' = [boards EXCEPT ![b] = "ending"]
  /\ UNCHANGED <<generation, genLock, process, held, marked, watchPid, keeper, exposed>>

\* forget: its generation is removed, when it is still the one on file.
ForgetGeneration(b) ==
  /\ boards[b] = "ending" /\ keeper[b].at = "idle" /\ genLock = Nobody
  /\ boards' = [boards EXCEPT ![b] = "gone"]
  /\ generation' = IF generation = b THEN Nobody ELSE generation
  /\ UNCHANGED <<genLock, process, held, marked, watchPid, keeper, mishaps, exposed>>

BoardKilled(b) ==
  /\ boards[b] \in {"up", "ending"} /\ Mishap
  /\ boards' = [boards EXCEPT ![b] = "gone"]
  /\ keeper' = [keeper EXCEPT ![b] = NoSweep(b)]
  /\ genLock' = IF genLock = b THEN Nobody ELSE genLock
  /\ UNCHANGED <<generation, process, held, marked, watchPid, exposed>>

(***************************************************************************)
(* A watcher (cmdWatch).                                                   *)
(***************************************************************************)
\* The process that is started next; a finished one's number is given again
\* once no record has it.
Unused(w) == ~Alive(w) /\ watchPid # w /\ \A k \in Keepers : w \notin {keeper[k].read, keeper[k].pid}
Launch(gen, exe, procs) ==
  \E w \in Watchers :
    /\ Unused(w) /\ \A v \in Watchers : Unused(v) => w <= v
    /\ process' = [procs EXCEPT ![w] = [at |-> "launched", gen |-> gen, exe |-> exe]]

\* watch.lock, tried for a moment: one that finds it held ends.
TakeWatchLock(w) ==
  /\ process[w].at = "launched"
  /\ IF held = Nobody THEN held' = w /\ process' = [process EXCEPT ![w].at = "locked"]
     ELSE UNCHANGED held /\ process' = [process EXCEPT ![w] = NoProcess]
  /\ UNCHANGED <<boards, generation, genLock, marked, watchPid, keeper, mishaps, exposed>>

\* writeWatchGeneration
WriteMark(w) ==
  /\ process[w].at = "locked"
  /\ marked' = process[w].gen /\ process' = [process EXCEPT ![w].at = "marked"]
  /\ UNCHANGED <<boards, generation, genLock, held, watchPid, keeper, mishaps, exposed>>

\* writePID
WritePid(w) ==
  /\ process[w].at = "marked"
  /\ watchPid' = w /\ process' = [process EXCEPT ![w].at = "running"]
  /\ exposed' = IF \E k \in Keepers : keeper[k].at = "remove" THEN w ELSE Nobody
  /\ UNCHANGED <<boards, generation, genLock, held, marked, keeper, mishaps>>

\* A watcher that was asked to end removes its record, then lets go of the lock.
\* Nobody else writes the file while it holds the lock: compare and remove are one step.
EndWatcher(w) ==
  /\ process[w].at = "asked" /\ genLock # w
  /\ watchPid' = IF watchPid = w THEN Nobody ELSE watchPid
  /\ held' = IF held = w THEN Nobody ELSE held
  /\ process' = [process EXCEPT ![w] = NoProcess]
  /\ UNCHANGED <<boards, generation, genLock, marked, keeper, mishaps, exposed>>

\* A killed one leaves its records; as a systemd unit it is run again with the
\* generation it was started with.
WatcherKilled(w) ==
  /\ Alive(w) /\ Mishap
  /\ held' = IF held = w THEN Nobody ELSE held
  /\ genLock' = IF genLock = w THEN Nobody ELSE genLock
  /\ LET dead == [process EXCEPT ![w] = NoProcess] IN
     \/ process' = dead
     \/ Launch(process[w].gen, process[w].exe, dead)
  /\ UNCHANGED <<boards, generation, marked, watchPid, keeper, exposed>>

\* `hand watch` in a terminal goes by the generation on file.
WatchByHand(c) ==
  /\ keeper[c].at = "idle" /\ keeper' = [keeper EXCEPT ![c].at = "done"] /\ Mishap
  /\ Launch(generation, Exe(c), process)
  /\ UNCHANGED <<boards, generation, genLock, held, marked, watchPid, exposed>>

(***************************************************************************)
(* ensureWatcher, of a board's sweep or of a command.                      *)
(***************************************************************************)
Keeping(k, spot) == keeper' = [keeper EXCEPT ![k].at = spot]
Over(k) == keeper' = [keeper EXCEPT ![k] = NoSweep(k)]

\* watchHeld tries the lock, so two that look at once, each about to look or just
\* past it, may take the other for a watcher.
SaysHeld(k, yes) ==
  \/ yes = (held # Nobody)
  \/ yes /\ \E l \in Keepers \ {k} :
            /\ keeper[l].at \in {"idle", "compare", "again", "await"}
            /\ IF l \in Generations THEN boards[l] \in {"up", "ending"} ELSE keeper[l].at # "idle"

\* startService: a watcher is started with this generation.
Start(k, gen) == Launch(gen, Exe(k), process) /\ keeper' = [keeper EXCEPT ![k] = [@ EXCEPT !.at = "await", !.gen = gen]]

\* keepWatcher, and what a command does: is a watcher there?  A command goes by
\* the generation on file.
Ensure(k) ==
  LET gen == IF k \in Generations THEN k ELSE generation IN
  /\ keeper[k].at = "idle"
  /\ IF k \in Generations THEN boards[k] = "up" /\ UNCHANGED mishaps ELSE Mishap
  /\ \/ SaysHeld(k, TRUE) /\ keeper' = [keeper EXCEPT ![k].at = "compare", ![k].gen = gen] /\ UNCHANGED process
     \/ SaysHeld(k, FALSE) /\ Start(k, gen)
  /\ UNCHANGED <<boards, generation, genLock, held, marked, watchPid, exposed>>

BugCompare(k) ==
  /\ keeper[k].at = "compare" /\ Over(k)
  /\ UNCHANGED <<boards, generation, genLock, process, held, marked, watchPid, mishaps, exposed>>

\* watch.generation names the holder's, unless it has not written it yet.
Compare(k) ==
  /\ keeper[k].at = "compare" /\ IF marked = keeper[k].gen THEN Over(k) ELSE Keeping(k, "stop")
  /\ UNCHANGED <<boards, generation, genLock, process, held, marked, watchPid, mishaps, exposed>>

\* stopPIDFile, which takes no lock.  It reads the record;
StopRead(k) ==
  /\ keeper[k].at = "stop" /\ keeper' = [keeper EXCEPT ![k].at = "live", ![k].read = watchPid]
  /\ UNCHANGED <<boards, generation, genLock, process, held, marked, watchPid, mishaps, exposed>>

\* then looks at who is on file by now, and asks it to end.  A live process of
\* another binary is left running, and the sweep fails.
Asked(w) == process' = [process EXCEPT ![w].at = "asked"]
StopOther(k) ==
  LET live == watchPid # Nobody /\ Alive(watchPid) IN
  /\ keeper[k].at = "live"
  /\ \/ watchPid = Nobody /\ keeper' = [keeper EXCEPT ![k].at = "again", ![k].read = Nobody] /\ UNCHANGED process
     \/ watchPid # Nobody /\ ~live /\ Keeping(k, "file") /\ UNCHANGED process
     \/ live /\ process[watchPid].exe # Exe(k) /\ Over(k) /\ UNCHANGED process
     \/ /\ live /\ process[watchPid].exe = Exe(k) /\ Asked(watchPid)
        /\ keeper' = [keeper EXCEPT ![k].at = "wait", ![k].pid = watchPid]
  /\ UNCHANGED <<boards, generation, genLock, held, marked, watchPid, mishaps, exposed>>

\* stopOne: it is gone within ten seconds, or the sweep fails.
StopWait(k) ==
  /\ keeper[k].at = "wait"
  /\ \/ ~Alive(keeper[k].pid) /\ keeper' = [keeper EXCEPT ![k].at = "file", ![k].pid = Nobody] /\ UNCHANGED mishaps
     \/ Alive(keeper[k].pid) /\ Mishap /\ Over(k)
  /\ UNCHANGED <<boards, generation, genLock, process, held, marked, watchPid, exposed>>

BugStopCompare(k) ==
  /\ keeper[k].at = "file" /\ Keeping(k, "remove")
  /\ UNCHANGED <<boards, generation, genLock, process, held, marked, watchPid, mishaps, exposed>>

\* removeIfSame: the file still says what was read of it,
StopCompare(k) ==
  /\ keeper[k].at = "file"
  /\ keeper' = [keeper EXCEPT ![k].read = Nobody,
                              ![k].at = IF watchPid # Nobody /\ watchPid = keeper[k].read THEN "remove" ELSE "again"]
  /\ UNCHANGED <<boards, generation, genLock, process, held, marked, watchPid, mishaps, exposed>>

\* and is removed, whatever it says by then.
StopRemove(k) ==
  /\ keeper[k].at = "remove" /\ Keeping(k, "again") /\ watchPid' = Nobody
  /\ UNCHANGED <<boards, generation, genLock, process, held, marked, mishaps, exposed>>

\* Still held, by one that no record names: a conflict.
LookAgain(k) ==
  /\ keeper[k].at = "again"
  /\ \/ SaysHeld(k, TRUE) /\ Over(k) /\ UNCHANGED process
     \/ SaysHeld(k, FALSE) /\ Start(k, keeper[k].gen)
  /\ UNCHANGED <<boards, generation, genLock, held, marked, watchPid, mishaps, exposed>>

\* awaitWatcher: somebody holds the lock; or the watcher ended, the board ends, or
\* three seconds are over.
Await(k) ==
  /\ keeper[k].at = "await"
  /\ \/ SaysHeld(k, TRUE) /\ UNCHANGED mishaps
     \/ /\ held = Nobody
        /\ \/ (\A w \in Watchers : process[w].at # "launched") /\ UNCHANGED mishaps
           \/ k \in Generations /\ boards[k] = "ending" /\ UNCHANGED mishaps
           \/ Mishap
  /\ Over(k)
  /\ UNCHANGED <<boards, generation, genLock, process, held, marked, watchPid, exposed>>

(***************************************************************************)
(* guardGeneration: who may close a supervisor.                            *)
(***************************************************************************)
MayClose(x) == IF x \in Watchers THEN process[x].at = "running" ELSE boards[x] = "up"

\* Under the lock of the file: a close begins while the generation on file is the
\* one the process holds, and its board lives.
Guard(x) ==
  /\ MayClose(x) /\ Holds(x) # Nobody /\ genLock = Nobody
  /\ generation = Holds(x) /\ boards[Holds(x)] \in {"up", "ending"}
  /\ genLock' = x
  /\ UNCHANGED <<boards, generation, process, held, marked, watchPid, keeper, mishaps, exposed>>

\* The supervisor is closed.
CloseSupervisor(x) ==
  /\ genLock = x /\ genLock' = Nobody
  /\ UNCHANGED <<boards, generation, process, held, marked, watchPid, keeper, mishaps, exposed>>

KeeperInit ==
  /\ boards = [b \in Generations |-> "none"]
  /\ generation = Nobody /\ genLock = Nobody 
  /\ process = [w \in Watchers |-> NoProcess]
  /\ held = Nobody /\ marked = Nobody /\ watchPid = Nobody
  /\ keeper = [k \in Keepers |-> [at |-> "idle", gen |-> Nobody, read |-> Nobody, pid |-> Nobody]]
  /\ mishaps = 0 /\ exposed = Nobody

Stopping(k) == StopRead(k) \/ StopOther(k) \/ StopWait(k) \/ StopCompare(k) \/ StopRemove(k)
Keep(k) == Ensure(k) \/ Compare(k) \/ Stopping(k) \/ LookAgain(k) \/ Await(k)
Watches(w) == TakeWatchLock(w) \/ WriteMark(w) \/ WritePid(w) \/ EndWatcher(w)

KeeperNext ==
  \/ \E b \in Generations : RecordGeneration(b) \/ EndBoard(b) \/ ForgetGeneration(b) \/ BoardKilled(b)
  \/ \E w \in Watchers : Watches(w) \/ WatcherKilled(w)
  \/ \E c \in Commands : WatchByHand(c)
  \/ \E k \in Keepers : Keep(k)
  \/ \E x \in Closers : Guard(x) \/ CloseSupervisor(x)

\* Boards sweep every thirty seconds; what a process has begun goes on.
KeeperFairness ==
  /\ \A b \in Generations : WF_kVars(Keep(b) \/ ForgetGeneration(b))
  /\ WF_kVars(\E c \in Commands : keeper[c].at # "idle" /\ Keep(c))
  /\ WF_kVars(\E w \in Watchers : Watches(w))
  /\ WF_kVars(\E x \in Closers : CloseSupervisor(x))

KeeperSpec == KeeperInit /\ [][KeeperNext]_kVars /\ KeeperFairness

(***************************************************************************)
(* Properties.                                                             *)
(***************************************************************************)
\* The type of each variable.
KeeperTypeOK ==
  /\ boards \in [Generations -> {"none", "up", "ending", "gone"}]
  /\ generation \in Generations \cup {Nobody} /\ genLock \in Closers \cup {Nobody}
  /\ process \in [Watchers -> [at : {"launched", "locked", "marked", "running", "asked", "gone"},
                               gen : Generations \cup {Nobody}, exe : {"hand", "other"}]]
  /\ held \in Watchers \cup {Nobody} /\ watchPid \in Watchers \cup {Nobody} /\ marked \in Generations \cup {Nobody}
  /\ keeper \in [Keepers -> [at : {"idle", "compare", "stop", "live", "wait", "file", "remove", "again", "await", "done"},
                             gen : Generations \cup {Nobody}, read : Watchers \cup {Nobody}, pid : Watchers \cup {Nobody}]]
  /\ mishaps \in 0 .. MaxMishaps /\ exposed \in Watchers \cup {Nobody}

\* docs/vocabulary.md: a close of a supervisor re-reads board.generation; when it
\* is another one nothing is changed.  From the look to the end of the close no
\* other board becomes the current one.
CloseInGeneration == \A x \in Closers : genLock = x => generation = Holds(x)

\* A sweep tells a watcher's generation from watch.generation and stops it by
\* watch.pid: once the holder of the lock has written them they name it, whatever
\* earlier watchers left there or take away as they end.  One case is left open by
\* removeIfSame: a record written while a stop is between its comparison and its
\* removal may be removed; then no record names the holder, and none another.
RecordsOfHolder ==
  \A w \in Watchers :
    /\ held = w /\ process[w].at \in {"marked", "running", "asked"} => marked = process[w].gen
    /\ process[w].at = "running" => held = w /\ (watchPid = w \/ (exposed = w /\ watchPid = Nobody))

KeeperSafety == KeeperTypeOK /\ CloseInGeneration /\ RecordsOfHolder

\* When one board is left, in the end a watcher runs under its generation and
\* stays, whatever watcher, of whichever board or of none, there was before;
\* unless that one is out of the board's reach: its record was removed (see
\* RecordsOfHolder), or it runs another binary.  Then each sweep ends in a conflict.
Only(b) == boards[b] = "up" /\ \A c \in Generations \ {b} : boards[c] \in {"none", "gone"}
Watched(b) == \E w \in Watchers : process[w].at = "running" /\ process[w].gen = b /\ held = w
OutOfReach(b) ==
  \E w \in Watchers :
    /\ process[w].at = "running" /\ process[w].gen # b
    /\ \/ exposed = w /\ watchPid = Nobody
       \/ process[w].exe # Exe(b)
WatcherFollows ==
  <>[](\E b \in Generations : Only(b)) => <>[](\E b \in Generations : Only(b) /\ (Watched(b) \/ OutOfReach(b)))
=============================================================================
