----------------------------- MODULE SelfUpdate -----------------------------
(***************************************************************************)
(* One `hand update` at a time over the fleets of a machine: it replaces   *)
(* the binaries, restarts the watchers and the board, switches the Luvus   *)
(* servers of quiet fleets and runs `hand init`, keeping a journal on disk *)
(* of what it took down (update/update.go, journal.go, backup.go, fetch.go,*)
(* cli/update.go, board_update.go, board_watchers.go).                     *)
(*                                                                         *)
(* Of a download only what it turns out to be is kept: it fails a check,   *)
(* or is the newest build, which names a Luvus and a hand-iroh.  Settled   *)
(* and quiet are one condition, busy.  --check, which changes nothing, is  *)
(* left out.                                                               *)
(***************************************************************************)
EXTENDS Naturals

CONSTANTS
  Fleets,     \* the fleets in state ok
  Carried,    \* the release carries hand-iroh
  MaxKills,   \* updates killed part way
  MaxFails,   \* steps of an update that fail
  MaxWork     \* times a fleet gets work or is quiet again

ASSUME UpdateBoundsAssumption == {MaxKills, MaxFails, MaxWork} \subseteq Nat
ASSUME CarriedAssumption == Carried \in BOOLEAN

VARIABLES
  hand, iroh, pin,   \* the build of each, "old" or "new"; iroh may be "none"
  watcher,    \* per fleet: "up", "down", or "other", one of another binary
  sup,        \* per fleet: a supervisor is live
  server,     \* per fleet: the build its Luvus server runs, or "down"
  busy,       \* per fleet: an attempt, a message, a recent event, a foreign pane
  schema,     \* per fleet: the build that last migrated its database
  board,      \* the board runs
  saved,      \* the fleets whose database was backed up before hand was replaced
  journal,    \* update.json
  run,        \* the update that runs
  failed,     \* the fleets with a luvus.failed event for this pin
  sweep,      \* the fleets a sweep of the board has yet to visit
  said,       \* what an update told the operator it could not do
  owed,       \* what an update took down: units it owes to bring back
  kills, fails, work

uVars == <<hand, iroh, pin, watcher, sup, server, busy, schema, board, saved, journal, run, failed, sweep, said, owed,
           kills, fails, work>>

Empty == [watcher |-> {}, supervisor |-> {}, board |-> FALSE, init |-> {}]
NoFile == [found |-> FALSE, list |-> Empty]
Idle == [at |-> "idle", auto |-> FALSE, keep |-> FALSE, full |-> FALSE, todo |-> {}, fleet |-> CHOOSE f \in Fleets : TRUE,
         switch |-> FALSE, stopped |-> FALSE, did |-> FALSE, had |-> FALSE, bad |-> FALSE, mine |-> Empty]

Unit(kind, f) == [kind |-> kind, fleet |-> f]
Board == Unit("board", Idle.fleet)

binaries == <<hand, iroh, pin, schema, saved>>
fleetVars == <<watcher, sup, server, board>>
outside == <<busy, sweep, work>>
counts == <<kills, fails>>

At(place) == run.at = place
Goes(place) == run' = [run EXCEPT !.at = place]

\* A step that may fail: it succeeds, or one of the failures is spent.
Works == UNCHANGED fails
Fails == fails < MaxFails /\ fails' = fails + 1

Told(what) == said' = said \cup {what}

\* record: the edited journal goes to disk, then to memory.
Recorded(mine, run0) == journal' = [found |-> TRUE, list |-> mine] /\ run' = [run0 EXCEPT !.mine = mine]

\* unrecord: a write that fails leaves the entry on disk and in memory.
Unrecorded(mine, run0) ==
  \/ Works /\ Recorded(mine, run0)
  \/ Fails /\ UNCHANGED journal /\ run' = run0

(***************************************************************************)
(* An update begins: the lock, the journal an earlier one left.            *)
(***************************************************************************)
Begin(auto, keep) ==
  /\ At("idle")
  /\ auto => board
  /\ run' = [Idle EXCEPT !.at = IF journal.found /\ journal.list # Empty THEN "repair" ELSE "fetch",
                         !.auto = auto, !.keep = keep]
  /\ journal' = IF journal.list = Empty THEN NoFile ELSE journal
  /\ UNCHANGED <<binaries, fleetVars, outside, counts, failed, said, owed>>

\* A start or a resume that works brings a server that is down up as the pin.
Served(f) == [server EXCEPT ![f] = IF @ = "down" THEN pin ELSE @]

\* repair, one job of the journal after the other: watchers, supervisors, the
\* board, init.  What fails is told and not tried again.
BugRepair ==
  /\ At("repair")
  /\ LET j == journal.list IN
       \/ /\ journal' = NoFile /\ Goes("fetch")
          /\ UNCHANGED <<watcher, sup, server, board, schema, said, owed, fails>>
  /\ UNCHANGED <<hand, iroh, pin, saved, outside, kills, failed>>

Repair ==
  LET j == journal.list
      left == run.todo
      Took(job) == run' = [run EXCEPT !.todo = @ \cup {job}]
      Waits(kind, fleets) == \E f \in fleets : Unit(kind, f) \notin left
  IN
  /\ At("repair")
  /\ \/ \E f \in j.watcher : LET job == Unit("watcher", f) IN
          /\ job \notin left /\ Took(job)
          /\ \/ Works /\ watcher' = [watcher EXCEPT ![f] = "up"] /\ owed' = owed \ {job} /\ UNCHANGED said
             \/ Fails /\ Told(job) /\ UNCHANGED <<watcher, owed>>
          /\ UNCHANGED <<sup, server, board, schema, journal>>
     \/ \E f \in j.supervisor : LET job == Unit("supervisor", f) IN
          /\ ~Waits("watcher", j.watcher) /\ job \notin left /\ Took(job)
          /\ \/ /\ Works /\ sup' = [sup EXCEPT ![f] = TRUE]
                /\ server' = IF sup[f] THEN server ELSE Served(f)
                /\ owed' = owed \ {job} /\ UNCHANGED said
             \/ Fails /\ ~sup[f] /\ Told(job) /\ UNCHANGED <<sup, server, owed>>
          /\ UNCHANGED <<watcher, board, schema, journal>>
     \/ /\ ~Waits("watcher", j.watcher) /\ ~Waits("supervisor", j.supervisor)
        /\ j.board /\ Board \notin left /\ Took(Board)
        /\ \/ Works /\ board' = TRUE /\ owed' = owed \ {Board} /\ UNCHANGED said
           \/ Fails /\ Told(Board) /\ UNCHANGED <<board, owed>>
        /\ UNCHANGED <<watcher, sup, server, schema, journal>>
     \/ \E f \in j.init : LET job == Unit("init", f) IN
          /\ ~Waits("watcher", j.watcher) /\ ~Waits("supervisor", j.supervisor) /\ (j.board => Board \in left)
          /\ job \notin left /\ Took(job)
          /\ \/ Works /\ schema' = [schema EXCEPT ![f] = hand] /\ owed' = owed \ {job} /\ UNCHANGED said
             \/ Fails /\ Told(job) /\ UNCHANGED <<schema, owed>>
          /\ UNCHANGED <<fleetVars, journal>>
     \/ /\ ~Waits("watcher", j.watcher) /\ ~Waits("supervisor", j.supervisor)
        /\ (j.board => Board \in left) /\ ~Waits("init", j.init)
        /\ journal' = NoFile
        /\ run' = [run EXCEPT !.at = "fetch", !.todo = {}]
        /\ UNCHANGED <<fleetVars, schema, said, owed, fails>>
  /\ UNCHANGED <<hand, iroh, pin, saved, outside, kills, failed>>

(***************************************************************************)
(* The binaries.                                                           *)
(***************************************************************************)
Ends == run' = Idle
Current == hand = "new"

\* FetchHand: the archive of the channel came, and the hand in it ran and named
\* its build; or a checksum, a download or an archive is bad, which ends the
\* update.
Fetched == Works
Refuses == Fails /\ Ends

\* What the update has to do.  A current hand still gets the sidecar it needs.
Fetch ==
  /\ At("fetch")
  /\ \/ Refuses /\ UNCHANGED iroh
     \/ /\ Fetched
        /\ iroh' = IF Current /\ Carried THEN "new" ELSE iroh
        /\ run' = IF Current /\ pin = "new"
                  THEN [run EXCEPT !.at = "visit", !.full = FALSE,
                                   !.todo = IF run.keep THEN {} ELSE {f \in Fleets : server[f] \notin {"down", pin}}]
                  ELSE [run EXCEPT !.at = IF pin = "old" THEN "pin" ELSE "backup", !.full = TRUE, !.todo = Fleets]
  /\ UNCHANGED <<hand, pin, schema, saved, fleetVars, outside, journal, kills, failed, said, owed>>

\* FetchLuvus and luvus.Keep.
Pin ==
  /\ At("pin")
  /\ \/ Refuses /\ UNCHANGED pin
     \/ Fetched /\ pin' = "new" /\ Goes("backup")
  /\ UNCHANGED <<hand, iroh, schema, saved, fleetVars, outside, journal, kills, failed, said, owed>>

\* Backup, when hand is replaced; it may get through some of the fleets.
Backup ==
  /\ At("backup")
  /\ \/ /\ Works
        /\ saved' = IF Current THEN saved ELSE Fleets
        /\ Goes("save")
     \/ /\ ~Current /\ Fails /\ Ends
        /\ \E some \in SUBSET Fleets : saved' = saved \cup some
  /\ UNCHANGED <<hand, iroh, pin, schema, fleetVars, outside, journal, kills, failed, said, owed>>

\* The journal holds the fleets to init before anything is replaced.
Save ==
  /\ At("save")
  /\ \/ /\ Works
        /\ Recorded([Empty EXCEPT !.init = Fleets], [run EXCEPT !.at = IF Current THEN "visit" ELSE "iroh"])
        /\ owed' = owed \cup {Unit("init", f) : f \in Fleets}
     \/ Fails /\ Ends /\ UNCHANGED <<journal, owed>>
  /\ UNCHANGED <<binaries, fleetVars, outside, kills, failed, said>>

\* swap, the sidecar before hand; a swap that fails ends the update.
SwapFails == Fails /\ Ends /\ journal' = NoFile /\ owed' = owed \ {Unit("init", f) : f \in Fleets}

SwapIroh ==
  /\ At("iroh")
  /\ \/ Works /\ iroh' = (IF Carried THEN "new" ELSE iroh) /\ Goes("hand") /\ UNCHANGED <<journal, owed>>
     \/ Carried /\ SwapFails /\ UNCHANGED iroh
  /\ UNCHANGED <<hand, pin, schema, saved, fleetVars, outside, kills, failed, said>>

SwapHand ==
  /\ At("hand")
  /\ \/ Works /\ hand' = "new" /\ Goes("visit") /\ UNCHANGED <<journal, owed>>
     \/ SwapFails /\ UNCHANGED hand
  /\ UNCHANGED <<iroh, pin, schema, saved, fleetVars, outside, kills, failed, said>>

(***************************************************************************)
(* cycle: one fleet after the other.                                       *)
(***************************************************************************)
\* ready: the server is stale and the fleet quiet; the timer does not try a
\* switch again that failed.
Ready(f) == server[f] \notin {"down", pin} /\ ~busy[f] /\ (run.auto => f \notin failed)

Visit(f) ==
  /\ At("visit") /\ f \in run.todo
  /\ LET switch == Ready(f) /\ ~run.keep IN
     run' = [run EXCEPT !.todo = @ \ {f}, !.fleet = f, !.switch = switch, !.stopped = FALSE, !.did = FALSE,
                        !.had = FALSE, !.bad = FALSE, !.at = IF run.full \/ switch THEN "stopWatcher" ELSE "visit"]
  /\ UNCHANGED <<binaries, fleetVars, outside, journal, counts, failed, said, owed>>

\* stopPID: the journal names what is stopped before it is stopped.
AfterStop(r) == [r EXCEPT !.at = IF r.switch /\ r.stopped THEN "still" ELSE "startWatcher"]

BugMarkWatcher ==
  LET f == run.fleet IN
  /\ At("stopWatcher") /\ Works
  /\ IF watcher[f] = "up" THEN Goes("killWatcher") ELSE run' = AfterStop([run EXCEPT !.stopped = watcher[f] = "down"])
  /\ UNCHANGED <<binaries, fleetVars, outside, journal, kills, failed, said, owed>>

MarkWatcher ==
  LET f == run.fleet IN
  /\ At("stopWatcher")
  /\ CASE watcher[f] = "down" -> Works /\ run' = AfterStop([run EXCEPT !.stopped = TRUE]) /\ UNCHANGED <<journal, said>>
       [] watcher[f] = "other" -> Works /\ run' = AfterStop(run) /\ UNCHANGED <<journal, said>>
       [] OTHER -> \/ /\ Works
                      /\ Recorded([run.mine EXCEPT !.watcher = @ \cup {f}], [run EXCEPT !.at = "killWatcher"])
                      /\ UNCHANGED said
                   \/ Fails /\ run' = AfterStop(run) /\ Told(Unit("runs on", f)) /\ UNCHANGED journal
  /\ UNCHANGED <<binaries, fleetVars, outside, kills, failed, owed>>

KillWatcher ==
  LET f == run.fleet IN
  /\ At("killWatcher")
  /\ \/ /\ Works
        /\ watcher' = [watcher EXCEPT ![f] = "down"]
        /\ owed' = owed \cup {Unit("watcher", f)}
        /\ run' = AfterStop([run EXCEPT !.stopped = TRUE, !.did = TRUE])
        /\ UNCHANGED said
     \/ Fails /\ run' = AfterStop([run EXCEPT !.did = TRUE]) /\ Told(Unit("runs on", f)) /\ UNCHANGED <<watcher, owed>>
  /\ UNCHANGED <<binaries, sup, server, board, outside, journal, kills, failed>>

\* switchLuvus.  still: the screen did not change, the fleet is quiet.
Still ==
  LET f == run.fleet IN
  /\ At("still")
  /\ CASE busy[f] -> Works /\ Goes("startWatcher") /\ UNCHANGED journal
       [] ~busy[f] /\ ~sup[f] -> Works /\ Goes("stopServer") /\ UNCHANGED journal
       [] OTHER -> \/ /\ Works
                      /\ Recorded([run.mine EXCEPT !.supervisor = @ \cup {f}], [run EXCEPT !.at = "stopSupervisor", !.had = TRUE])
                   \/ Fails /\ Goes("startWatcher") /\ UNCHANGED journal
  /\ UNCHANGED <<binaries, fleetVars, outside, kills, failed, said, owed>>

\* `hand supervisor stop`, then quiet once more.
StopSupervisor ==
  LET f == run.fleet IN
  /\ At("stopSupervisor")
  /\ \/ /\ Works
        /\ sup' = [sup EXCEPT ![f] = FALSE]
        /\ owed' = owed \cup {Unit("supervisor", f)}
        /\ Goes("quiet")
     \/ Fails /\ run' = [run EXCEPT !.at = "restore", !.bad = TRUE] /\ UNCHANGED <<sup, owed>>
  /\ UNCHANGED <<binaries, watcher, server, board, outside, journal, kills, failed, said>>

BugQuiet ==
  /\ At("quiet")
  /\ Goes("stopServer")
  /\ UNCHANGED <<binaries, fleetVars, outside, journal, counts, failed, said, owed>>

Quiet ==
  /\ At("quiet")
  /\ Goes(IF busy[run.fleet] THEN "restore" ELSE "stopServer")
  /\ UNCHANGED <<binaries, fleetVars, outside, journal, counts, failed, said, owed>>

StopServer ==
  LET f == run.fleet IN
  /\ At("stopServer")
  /\ \/ Works /\ server' = [server EXCEPT ![f] = "down"] /\ Goes("startServer")
     \/ Fails /\ run' = [run EXCEPT !.at = "restore", !.bad = TRUE] /\ UNCHANGED server
  /\ UNCHANGED <<binaries, watcher, sup, board, outside, journal, kills, failed, said, owed>>

\* The pinned copy starts and reports its version.
StartServer ==
  LET f == run.fleet IN
  /\ At("startServer")
  /\ \/ /\ Works
        /\ server' = Served(f)
        /\ run' = [run EXCEPT !.at = "restore", !.bad = server'[f] # pin]
     \/ Fails /\ run' = [run EXCEPT !.at = "restore", !.bad = TRUE] /\ UNCHANGED server
  /\ UNCHANGED <<binaries, watcher, sup, board, outside, journal, kills, failed, said, owed>>

\* restore, then what the switch came to is noted.
Restore ==
  LET f == run.fleet
      resumed == [sup EXCEPT ![f] = TRUE]
  IN
  /\ At("restore")
  /\ CASE ~run.had -> Works /\ Goes("note") /\ UNCHANGED <<sup, server, owed, journal, said>>
       [] OTHER ->
            \/ /\ sup' = resumed
               /\ server' = IF sup[f] THEN server ELSE Served(f)
               /\ owed' = owed \ {Unit("supervisor", f)}
               /\ Unrecorded([run.mine EXCEPT !.supervisor = @ \ {f}], [run EXCEPT !.at = "note"])
               /\ UNCHANGED said
            \/ ~sup[f] /\ Fails /\ Told(Unit("supervisor", f)) /\ Goes("note") /\ UNCHANGED <<sup, server, owed, journal>>
  /\ UNCHANGED <<binaries, watcher, board, outside, kills, failed>>

Note ==
  LET f == run.fleet IN
  /\ At("note")
  /\ failed' = IF run.bad THEN failed \cup {f} ELSE failed
  /\ said' = IF run.bad THEN said \cup {Unit("server", f)} ELSE said
  /\ Goes("startWatcher")
  /\ UNCHANGED <<binaries, fleetVars, outside, journal, counts, owed>>

StartWatcher ==
  LET f == run.fleet
      off == [run.mine EXCEPT !.watcher = @ \ {f}]
  IN
  /\ At("startWatcher")
  /\ CASE ~run.did -> Works /\ Goes("visit") /\ UNCHANGED <<watcher, owed, journal, said>>
       [] run.did /\ ~run.stopped -> Unrecorded(off, [run EXCEPT !.at = "visit"]) /\ UNCHANGED <<watcher, owed, said>>
       [] OTHER ->
            \/ /\ watcher' = [watcher EXCEPT ![f] = "up"]
               /\ owed' = owed \ {Unit("watcher", f)}
               /\ Unrecorded(off, [run EXCEPT !.at = "visit"])
               /\ UNCHANGED said
            \/ /\ Fails /\ Told(Unit("watcher", f))
               /\ Recorded(off, [run EXCEPT !.at = "visit"])
               /\ UNCHANGED <<watcher, owed>>
  /\ UNCHANGED <<binaries, sup, server, board, outside, kills, failed>>

\* The board is stopped and started after the fleets, then every fleet inits.
StopBoard ==
  /\ At("visit") /\ run.todo = {} /\ run.full
  /\ CASE ~board -> Works /\ run' = [run EXCEPT !.at = "init", !.todo = Fleets] /\ UNCHANGED <<journal, said>>
       [] OTHER -> \/ /\ Works
                      /\ Recorded([run.mine EXCEPT !.board = TRUE], [run EXCEPT !.at = "killBoard"])
                      /\ UNCHANGED said
                   \/ /\ Fails /\ Told(Unit("runs on", Idle.fleet))
                      /\ run' = [run EXCEPT !.at = "init", !.todo = Fleets] /\ UNCHANGED journal
  /\ UNCHANGED <<binaries, fleetVars, outside, kills, failed, owed>>

KillBoard ==
  /\ At("killBoard")
  /\ \/ Works /\ board' = FALSE /\ owed' = owed \cup {Board} /\ Goes("startBoard") /\ sweep' = {} /\ UNCHANGED said
     \/ Fails /\ Told(Unit("runs on", Idle.fleet)) /\ Goes("startBoard") /\ UNCHANGED <<board, owed, sweep>>
  /\ UNCHANGED <<binaries, watcher, sup, server, busy, work, journal, kills, failed>>

StartBoard ==
  LET off == [run.mine EXCEPT !.board = FALSE]
      then == [run EXCEPT !.at = "init", !.todo = Fleets]
  IN
  /\ At("startBoard")
  /\ \/ board' = TRUE /\ owed' = owed \ {Board} /\ Unrecorded(off, then) /\ UNCHANGED said
     \/ ~board /\ Fails /\ Told(Board) /\ Recorded(off, then) /\ UNCHANGED <<board, owed>>
  /\ UNCHANGED <<binaries, watcher, sup, server, outside, kills, failed>>

InitFleet(f) ==
  LET then == [run EXCEPT !.todo = @ \ {f}]
      off == [run.mine EXCEPT !.init = @ \ {f}]
  IN
  /\ At("init") /\ f \in run.todo
  /\ \/ schema' = [schema EXCEPT ![f] = hand] /\ owed' = owed \ {Unit("init", f)} /\ Unrecorded(off, then) /\ UNCHANGED said
     \/ Fails /\ Told(Unit("init", f)) /\ Recorded(off, then) /\ UNCHANGED <<schema, owed>>
  /\ UNCHANGED <<hand, iroh, pin, saved, fleetVars, outside, kills, failed>>

\* clearJournal: a supervisor that could not be resumed stays on record.
Clear ==
  /\ At("init") \/ (At("visit") /\ ~run.full)
  /\ run.todo = {}
  /\ journal' = IF run.mine.supervisor = {} THEN NoFile ELSE journal
  /\ Ends
  /\ UNCHANGED <<binaries, fleetVars, outside, counts, failed, said, owed>>

(***************************************************************************)
(* Outside the update.                                                     *)
(***************************************************************************)
\* The process is killed: the lock goes with it.
Killed ==
  /\ ~At("idle") /\ kills < MaxKills
  /\ Ends
  /\ kills' = kills + 1
  /\ UNCHANGED <<binaries, fleetVars, outside, journal, fails, failed, said, owed>>

\* A fleet gets work, or is quiet and settled again.
Work(f) ==
  /\ work < MaxWork
  /\ work' = work + 1
  /\ busy' = [busy EXCEPT ![f] = ~@]
  /\ UNCHANGED <<binaries, fleetVars, sweep, journal, run, counts, failed, said, owed>>

\* sweepWatchers of the board: it looks once whether an update runs, then
\* starts the watcher of each fleet whose supervisor is live.
Sweep ==
  /\ board /\ sweep = {} /\ At("idle")
  /\ \E f \in Fleets : watcher[f] = "down" /\ sup[f]
  /\ sweep' = Fleets
  /\ UNCHANGED <<binaries, fleetVars, busy, work, journal, run, counts, failed, said, owed>>

SweepFleet(f) ==
  /\ f \in sweep
  /\ sweep' = sweep \ {f}
  /\ watcher' = IF sup[f] /\ watcher[f] = "down" THEN [watcher EXCEPT ![f] = "up"] ELSE watcher
  /\ UNCHANGED <<binaries, sup, server, board, busy, work, journal, run, counts, failed, said, owed>>

\* A watcher that connects starts the server that is down.
WatcherServes(f) ==
  /\ watcher[f] # "down" /\ server[f] = "down"
  /\ server' = Served(f)
  /\ UNCHANGED <<binaries, watcher, sup, board, outside, journal, run, counts, failed, said, owed>>

(***************************************************************************)
(* The specification.                                                      *)
(***************************************************************************)
UpdateInit ==
  /\ hand = "old" /\ iroh \in {"none", "old"} /\ pin = "old"
  /\ watcher \in [Fleets -> {"up", "down", "other"}]
  /\ sup \in [Fleets -> BOOLEAN]
  /\ server = [f \in Fleets |-> "old"]
  /\ busy = [f \in Fleets |-> FALSE]
  /\ schema = [f \in Fleets |-> "old"]
  /\ board \in BOOLEAN
  /\ saved = {} /\ journal = NoFile /\ run = Idle /\ failed = {} /\ sweep = {} /\ said = {} /\ owed = {}
  /\ kills = 0 /\ fails = 0 /\ work = 0

UpdateStep ==
  \/ Repair \/ Fetch \/ Pin \/ Backup \/ Save \/ SwapIroh \/ SwapHand
  \/ MarkWatcher \/ KillWatcher \/ Still \/ StopSupervisor \/ Quiet \/ StopServer \/ StartServer \/ Restore \/ Note
  \/ StartWatcher \/ StopBoard \/ KillBoard \/ StartBoard \/ Clear
  \/ \E f \in Fleets : Visit(f) \/ InitFleet(f)

UpdateNext ==
  \/ UpdateStep
  \/ \E auto, keep \in BOOLEAN : ~(auto /\ keep) /\ Begin(auto, keep)
  \/ Killed \/ Sweep \/ \E f \in Fleets : Work(f) \/ SweepFleet(f) \/ WatcherServes(f)

UpdateSpec == UpdateInit /\ [][UpdateNext]_uVars

\* An update goes on until it ends or is killed; the operator runs one again.
UpdateFairness == WF_uVars(UpdateStep) /\ WF_uVars(Begin(FALSE, FALSE))

\* Every variable has its type, and the journal on disk is what the update
\* that runs holds in memory.
UpdateTypeOK ==
  /\ {hand, pin} \subseteq {"old", "new"} /\ iroh \in {"none", "old", "new"}
  /\ watcher \in [Fleets -> {"up", "down", "other"}] /\ sup \in [Fleets -> BOOLEAN]
  /\ server \in [Fleets -> {"old", "new", "down"}] /\ busy \in [Fleets -> BOOLEAN]
  /\ schema \in [Fleets -> {"old", "new"}] /\ board \in BOOLEAN
  /\ {saved, failed, sweep} \subseteq SUBSET Fleets
  /\ ~At("idle") /\ ~At("repair") => journal.list = run.mine
  /\ kills \in 0 .. MaxKills /\ fails \in 0 .. MaxFails /\ work \in 0 .. MaxWork

\* What an update took down is up again, or on record in the journal for the
\* next update, or told to the operator; wherever it was killed.
OnRecord(u) ==
  CASE u = Board -> journal.list.board
    [] u.kind = "watcher" -> u.fleet \in journal.list.watcher
    [] u.kind = "supervisor" -> u.fleet \in journal.list.supervisor
    [] u.kind = "init" -> u.fleet \in journal.list.init
    [] OTHER -> TRUE

NothingForgotten == \A u \in owed : OnRecord(u) \/ u \in said

\* Again and again, everything that updates took down is up, or the operator
\* was told.
EverythingReturns == []<>(owed \subseteq said)

\* A server is stopped only after a look at the fleet with its watcher and its
\* supervisor down found no work; only a sweep of the board that began before
\* the update may have started the watcher again.
SwitchedQuiet ==
  [][~At("stopServer") /\ run'.at = "stopServer"
     => LET f == run.fleet IN ~busy[f] /\ ~sup[f] /\ (watcher[f] = "up" => board)]_uVars

\* A fleet is migrated only after its database of before was backed up.
MigratedSaved == \A f \in Fleets : schema[f] = "new" => f \in saved

\* A new hand never runs beside a hand-iroh of another release.
IrohMatches == hand = "new" /\ Carried => iroh = "new"

\* The timer's update does not try a switch again that failed.
TimerTriesOnce ==
  [][At("still") /\ run'.at \in {"stopSupervisor", "stopServer"} => ~(run.auto /\ run.fleet \in failed)]_uVars

\* What an update stops it may stop.
SwitchesRight == SwitchedQuiet /\ TimerTriesOnce

\* Wherever an update stops: nothing it took down is forgotten, no fleet is
\* migrated that was not saved, and the binaries belong together.
UpdateSafety == UpdateTypeOK /\ NothingForgotten /\ MigratedSaved /\ IrohMatches
=============================================================================
