# Hand: a TLA+ verification project

Hand runs coding agents for one operator. A *fleet* is a folder with a SQLite
database (`hand.db`), a *supervisor* agent the operator talks to, and any
number of *workers*, each an agent in its own git worktree. Agents run in
terminals of a per-fleet *Luvus* server. The `hand` command, the *watcher*
(`hand watch`), the web *board* and the agents themselves all open the same
database and the same Luvus server; no process owns either.

This project models the program's own logic in TLA+, checks it with TLC on small
instances, and proves the central results for every instance with TLAPS.
`PROJECT.json` names every run, the lines of code behind every definition
(`map`), the hazards the properties are aimed at, and a plausible bug for every
property that the run then finds (`mutants`).

## 1. What is here

| Module | Models | Checked by | Proved in |
|---|---|---|---|
| `FleetStore` | tables and transactions of tasks, attempts, reports, decisions, timers, plans | `store` | `FleetStore_proofs` |
| `WakeDelivery` | the supervisor's life, the operator's messages, the event log and the delivery of both | `wake_messages`, `wake_lifecycle`, `wake_live` | `WakeDelivery_proofs` |
| `InputQueue` | what a sender of messages is promised; `WakeDelivery` implements it | `wake_messages` (`ImplementsQueue`) | `WakeDelivery_proofs` |
| `AttemptLaunch` | launch, settle, stop, switch, clean and reap over rows, worktrees, branches and terminals; implements `FleetStore` | `attempt_ops`, `attempt_commits`, `parts_safe` | `AttemptLaunch_proofs` |
| `FleetMove` | `hand fleet move`, the runs that finish one, `--rewrite-only`, `hand init` in a new place | `steps`, `move_quiet` | `MCSteps_proofs` |
| `TurnSignals` | what a watcher session makes of a worker's status: turns, blocks, held turns, the deny press | `steps` | `MCSteps_proofs` |
| `IdleWakes` | the wakes of a supervisor that rests beside open work, and the timers, with a clock | `parts_safe` | `FleetSide_proofs` |
| `WatchAlerts` | what the watcher tells the operator of, and the supervisor it resumes | `parts_safe` | `FleetSide_proofs` |
| `LaunchScreens` | what hand answers on a new agent's screen, and what it notes | `parts_safe` | `FleetSide_proofs` |
| `Housekeeping` | inbox prune and trash, daily snapshots, `hand gc` and `attempt gc` | `parts_safe` | `FleetSide_proofs` |
| `FleetImport` | `hand fleet import`: rows, files and the marker | `parts_safe` | `FleetSide_proofs` |
| `PathRewrite` | how a move rewrites a home path inside text | `parts_safe` | |
| `BoardServices` | boards, their records, the command that opens one, and hand-iroh's restart loop | `parts_safe`, `board_addr` | `BoardSide_proofs` |
| `WatcherKeeper` | the board that keeps a fleet's watcher, and the generations of both | `parts_live` | `MCLive_proofs` |
| `SelfUpdate` | `hand update`: journal, stop, swap, restart, repair | `parts_live` | `MCLive_proofs` |
| `BoardPage` | a page of the board, its stream and its keys | `parts_live`, `page_answer` | `MCLive_proofs` |
| `HostFleets` | the board host's cache of open fleets | `parts_live` | `MCLive_proofs` |
| `PhonePairing` | pairing codes over several fleets, and revocation | `parts_safe` | `BoardSide_proofs` |
| `PeerConnections` | connections phones keep, and how a revocation ends them | `parts_safe` | `BoardSide_proofs` |
| `IrohForwarder` | admission, handshakes and idle clock of hand-iroh's forwarder | `parts_safe` | `BoardSide_proofs` |

`MCFleetStore`, `MCWakeDelivery` and `MCAttemptLaunch` add symmetry sets and
starting points. `MCSteps`, `MCSafe` and `MCLive` put independent modules into one run: a variable
(`slice`, `part`) that never changes chooses which of them moves, and the others
stay at one first state (`MCLive` has two parts, each with bounds of its own, for each of `BoardPage` and
`WatcherKeeper`). They share no variable, so such a run explores the sum of their state graphs, not the
product. `MCSafe_proofs` puts `BoardSide_proofs` and `FleetSide_proofs` together in
the same way; `MCLive_proofs` and `MCSteps_proofs` end with it. Where a run has fairness, one condition stands for a step of each part, which
asks of a behaviour just what the part it is in asks.

A definition whose name starts with `Bug` is a plausible mistake in the definition
that follows it; nothing uses it but the mutants of `PROJECT.json`.

    cd tla
    tlc -config MCSafe_parts.cfg MCSafe
    tlc -config WakeDelivery_messages.cfg MCWakeDelivery
    tlapm AttemptLaunch_proofs.tla

## 2. The system and its parts

For each part: its state, its operations, what makes it hard, and what makes it
correct. How much of it is modelled is in `PROJECT.json` under `components`.

**Task store** `state/task.go report.go decision.go plan.go timer.go attempt.go`.
Rows with a status column; each operation is one immediate transaction
(`Store.tx`) run by any process. Finishing a task cascades to decisions and
timers, starting an attempt cascades to the task's wait. Hard: the checks sit in
different files and only together keep a finished task closed.

**Supervisor store** `state/supervisor.go event.go`. Supervisor rows (status,
model, requested switch, session, `wake_cursor`), operator messages, the event log.
At most one live supervisor. Correct when no wake is skipped and no requested
switch is forgotten.

**Supervisor lifecycle and delivery** `cli/supervisor.go wait.go`. start, resume, switch,
stop, settle, send, deliver. The commands hold `supervisor.lock` (a file lock); `deliver`
is run by the watcher and by `send`. Calls to Luvus may be answered, refused or not
answered at all. Hard: a process dies, or an answer is lost, between an effect on a
terminal and the row that records it; `send` adds messages without the lock.

**Attempt lifecycle** `cli/attempt.go attempt_stop.go attempt_switch.go runtime.go`.
start = row, then branch and worktree, then terminal, then row again, then the first screens;
`launch` takes no lock. settle is run by the `sync` every command begins with and by the
watcher; stop and switch hold the attempt's lock; clean holds none. Hard: all of
them may run at once on one attempt, and a branch may be continued by the next.

**Worktree reaper** `cli/watch_reap.go`. Removes clean worktrees of ended attempts
by itself, with a non-blocking try of the attempt lock. Races clean.

**Watcher session** `cli/watch*.go state/unwatched.go`. In memory: last seen status per
attempt, pending blocks, turn counters, the decisions told of, the limit told of. One session per connection
to Luvus' event stream, then a rebuild from the event log. Hard: what it read is old when it
records it, and its memory ends with the stream or the process.

**Attempt input and exec** `cli/attempt_input.go attempt_exec.go`. Keys and text
typed to a worker, guarded by the content revision and a digest of the screen.

**Self-update** `update/*`. A journal of what was stopped, from which a later
run repairs. Correct when a killed update leaves each fleet its supervisor and watcher.

**Fleet move and import** `cli/fleet_move.go state/move.go fleet/fleet.go cli/home.go
cli/fleet_import.go state/fleet_import.go`. Database, folder, worktree links and registry move one
after the other; an import writes rows, then files, then a marker. Correct when what was killed
anywhere is finished, once, by the same command.

**Board, stream** `board/*`, `cli/board.go`. The web view: a queue of what waits on the operator, computed
from rows and panes; pages that follow it by a version; keys pressed from a page; a cache of open fleets.

**Phone pairing and peers** `board/phone.go roster.go peer.go`. A code pairs a phone with several fleets, each a row in
a store of its own; connections through hand-iroh belong to a row and end with it.

**Iroh sidecar and forwarder** `sidecar/sidecar.go`, `iroh/src/*.rs`. A child process
restarted with back-off until it fails quickly too often; the forwarder limits its connections.

**Watcher and board start-up** `cli/watch_ensure.go board_ensure.go generation.go stop.go`. Start-once by locks and
pid files; a board keeps the watcher of its own generation and replaces any other.

**Inbox and retention** `inbox/* retention/* cli/gc.go`. Files age, move to a trash and are
deleted, with a re-check before removal, by the watcher and by commands at once.

**Luvus client** `luvus/*`. Modelled by what its callers may observe: an answer, a
refusal, no answer with the call carried out, not carried out, or carried out later, and
the generation a terminal was recorded under.

**Projects and git**: the git commands of an attempt are modelled by their
effect on worktrees, branches and commits; registrations are single-row edits.
**Store files** `state/state.go flock/*`: immediate transactions and exclusive file locks
are why one transaction is one step in every model; migrations are not modelled.
**Harness adapters, transcripts, rendering** are not modelled: command lines and screens of other
programs, parsers of their logs, text for people. The models take the outcome of
a recogniser as a choice among its results.

How they meet: everything goes through the rows. CLI, watcher and board run the
same `sync` (settle attempts and the supervisor) and the same `deliver`; agents call
the CLI from their terminals; Luvus is the only witness of whether an agent lives.

## 3. The fleet's rows, messages and workers

### FleetStore

*State.* One function per table from row ids to rows (`task`, `attempt`, `report`,
`decision`, `timer`, `plan`) and the deliverables the event table remembers
(`delivered`). A row not inserted yet has status `none`; rows are never deleted and
ids come in order (`NextId`). Text and timestamps are left out; a branch is the
id of the attempt it is named after.

*Actions.* One per store operation, with the cascades the transaction makes:
`Transition` withdraws decisions and cancels timers when it finishes a task,
`AddAttempt` cancels the task's wait. `AttemptRunning`, `EndAttempt`,
`CleanAttempt`, `AddReport`, `AckReport`, `Ask`, `closeDecision` (answer and
withdraw), `AddTimer`, `FireTimers`, `CancelTimer`, `SetPlan`, `Deliver` are the
others. Any set of armed timers may be due here; `IdleWakes` has them with a clock.

*Properties.* `StoreSafety` is `TypeOK`, `DoneTaskIsRead` (a report of a done task was read),
`OneWorker` (one live attempt per task and per branch), `BranchKeepsTask`,
`FinishedTaskIsClosed` (nothing live, open or armed on a finished task), `TimersBounded`.
`WorkerEndsWait`: a step that makes an attempt live ends its task's wait. `FinishedIsFinal`: a
finished task's status, plan, decisions and attempts' statuses never change again.

*Run* `store`. Two slices (`Slices`, a constraint): 2 tasks, 3 attempts and a report, which a continue
of a continue and a mix-up of tasks need; 1 task with a worker, a decision, a plan and 3
timers under a cap of 2, while it finishes. `MaxRevision` bounds the plans.

### WakeDelivery and InputQueue

*State.* `sup` (supervisor rows: status, wake cursor, model, requested switch, hold;
`since` and `prev` remember which row it continues), `input` (operator messages), `event` (the kinds
that wake a supervisor), `stale` (events whose attempt has since ended or been
cleaned); on the Luvus side `agent` (the terminal of each row: idle, limited, working, blocked,
gone) and `late` (creates that may still be carried out); `run` (where each process
that holds the supervisor lock is, and the values it read; the lock dies with the process);
history variables `told` and `shown` (how often a message or event reached an agent); `faults`.

*Actions.* `DeliverBegin` reads the row and the pending messages once, `InputTaken`,
`InputUnknown` and `MarkInput` send them in turn, `ReadWakes`, `WakeTaken`, `WakeUnknown`
and `Advance` follow with the digest and the cursor. `Start`, `Resume`, `SwitchHarness`,
`ApplySwitch`, `ForceBegin`, `Stop` lead through `StopAgent`, `EndRow`, `AddSupervisor`, `Create`
(or `CreateRefused`, `CreateUnknown`) to `Started`. `SettleLaunching`, `SettleRunning`,
`SettleStray` are the settle of every sync. `Send`, `Emit`, `GoStale`,
`SetSupervisorSwitch`, `CancelSwitch` are transactions others make meanwhile.
`AgentActs`, `AgentsEnd`, `LateCreate` and `Killed` are the environment. `GiveUp`
is every return the code makes because of what the screen shows.

*Properties.* `DeliverySafety`: types; `InputsInOrder` (nobody is told a message before every
earlier one is recorded as delivered); `CursorSkipsNothing` (every event between the start of a
conversation and the cursor of any row that continues it reached an agent or no longer matters);
`RepeatsNeedFaults` (a message or wake is repeated at most once per fault). `RowSafety`:
`CursorSkipsNothing`, `SwitchCarried` (a relaunched supervisor runs the model of the switch pending
on the row it continues) and `OneConversation` (one live row, and a run that talks to an agent talks
to the running row's). `ImplementsQueue`: seen from the sender, delivery is `InputQueue` (accept,
present, record). Liveness: `InputArrives`, `WakeArrives`, `StraysClosed`.

A wake may overtake a message: `deliver` (cli/supervisor.go:1205, 1253) reads the pending
messages once, so one queued while it sends them comes after the digest, although docs/vocabulary.md:383
says that a wake goes out after the operator's messages.

*Runs.* `wake_messages`: 2 messages, 2 events, 2 rows, 2 processes, 1 fault; two of each is what
order, a digest of several events and a hand-over between rows need. `wake_lifecycle`: 3 rows, 2 models, switch
and harness switch, 1 fault; three rows so that a row can be copied from a copy. `wake_live`: 1
process, 2 rows, 2 faults. `WakeBatch` is 50 in the code, 1 and 2 here, so that a digest is cut.

*Fairness* (`wake_live`). The watcher comes back on every event and every tick, settles and
tries to deliver; both pass over a held lock, so `Settle` and `Watch` are strongly
fair. A run that holds the lock goes on or gives up (weak fairness of `Proceed \/ GiveUp`): its waits
are bounded. That it does not give up every time, and that a supervisor does not refuse a message
or a digest for ever, is strong fairness of `Proceed`, `InputTaken` and `WakeTaken`; an agent's turn, question or
usage limit ends (weak, `AgentActs(s, "idle")`). These are assumptions on agents and operator, not on Hand.
Nothing is assumed of start, resume or stop: the watcher resumes only when it opens its
event stream, so the properties are about a supervisor that stays (`Attended`).

### AttemptLaunch

*State.* `row` (attempt rows with the terminal each records; `over` once it is older than
`launchGrace`), `tree` (each attempt's worktree: there, `dirty` with edits, `loose` when
HEAD is detached with commits), `branches`, `unpushed`, `term` (each Luvus terminal:
whose, and open, adrift after a server restart, or gone), `late` (creates that may still be carried out),
`launch` (the call each launcher makes next), `op` (where each other operation is, with the values it
read, and whether it holds the attempt's lock), `lost` (history: what was destroyed
without `--discard`), `faults`.

*Actions.* The launcher: `Start`, `Add`/`AddFails`, `Create`/`CreateRefused`/
`CreateUnknown`, `Record`, `StopOwn`, `CloseUnknown`, `Discard`, `DropBranch`,
`Fail`, and `LauncherDies` at any point; `GracePasses` says that two minutes have gone by since
the start. The others: `Settle`, `SettleClose`, `End`; `Stop`,
`StopKill`; `Switch`, `Pane`/`PaneFails`, `Repoint`; `Clean`, `Look`,
`Evict`, `Remove`, `Mark`; `Reap`. `Killed` ends any of them at any point.
Workers edit, commit, push and detach (`Work`), exit, and Luvus restarts
(`Restart`). Every cut between two actions is one the code has: a git or Luvus call, a transaction, a lock.

*Properties.* `LaunchSafety`: types; `OneWorkerPerTree`; `EditsKept` (uncommitted edits go only when
discarded); `StrayNeedsFault` and `LeftoverNeedsSlowLaunch` say under which circumstances alone an
ended attempt keeps a worker or a cleaned one a worktree. `ContinueSafety`: `RunningHasWorkplace` (a
running attempt's worktree and branch are there and its branch is checked out nowhere else) and
`BranchesKept` (a branch with unpushed commits goes only by the launcher that outlived its grace and
was cleaned up after). `ImplementsStore`: seen as attempts of one task, every step is a step of
`FleetStore` or leaves the rows alone (`Store`, with the other tables held constant), so what is
checked and proved of the store's attempts holds of the operations that use it. Liveness:
`LaunchSettles`, `DeadWorkerNoticed`.

*Runs.* `attempt_ops`: 1 attempt, 3 terminals (launch, switch, one unanswered), 2 processes, 2
faults, every deed, liveness and the refinement. `parts_safe` has 2 attempts on one
branch, 1 process beside the launchers, 1 fault (`ContinueSafety`); explored is a fault, or else a detached
HEAD in the first worktree and launchers that go on past their grace (`Calm`; the proof has no such cut). The refinement is checked with one attempt and proved for any number.

*Fairness* (`attempt_ops`). An operation goes on or is killed (weak fairness of `Proceed`); two
minutes pass (weak); each live attempt is settled again and again (strong: the sync of every command and of
the watcher's tick passes over a held lock). Luvus is assumed reachable: settle leaves the rows alone
when it gets no answer. The launcher is not fair: it may hang or die anywhere.

Two facts the model brought out are stated by properties that hold: a launcher that outlives its two minutes may
leave a worktree behind an attempt that was cleaned meanwhile, and may delete a branch such an attempt's
continuation detached from; and a terminal that is created late may hold a worker of an ended attempt that no
settle looks at again, until clean evicts it.

### LaunchScreens

What `afterLaunch` does with a new agent's screen: it submits a brief the harness only prefilled,
answers the question whether to trust the folder, and notes on the row what it pressed and what it
left. Reading the screen, asking for the status, pressing a key are steps; the agent draws and the
operator presses between them. How an agent draws is external. `ScreensSafety`: `KeysMeant` (no key
of Hand's quits the agent, trusts a folder that is not its own or answers a later question, unless
the operator pressed keys at the same time), `NotesTrue` (once the launch is over the row says what
the operator needs to know). `parts_safe` takes four harnesses, 1 press by the operator, 1 late
reaction, 1 lost key, 4 revisions. The exceptions in the properties are corner cases of the code:
the revision guards the screen and not keys that wait in the agent's input, so an Enter for a brief
may answer a later dialog when the agent takes longer than Hand waits (`submitConfirm`, 5 s); a
trust screen drawn after Hand stopped looking is not noted.

## 4. The watcher

### TurnSignals

*State.* One attempt: its `agent` status, `screen`, whether an opencode session is `busy`; `log`,
the answers of the event queries; `stream`, the subscription with the events not read yet and whether one was ever
`cut`; `mem`, the watcher's memory (last seen status, pending block, turn clock); `step`, where the
loop is and what it will record; `list`, a listing of opencode sessions under way; `press` and `sending`,
commands in flight; `ghost`, history.

*Actions.* The loop: `Subscribe` and `CatchUp`, `Handle` (an event), `BeginTick` with `LongTurns`, `Unblock`,
`Approve` and `Deny`, `List` and `HeldTurns` for opencode, and `Record`, the transaction with the checks it
makes again. The worker changes its pane and its session, reports and ends; `Send` and `Keys` are `attempt send` and
`attempt keys`, whose notes (`NoteSent`, `NoteKeys`) are steps of their own. `Drop`, `Kill`, `ReadFails`,
`ListFails` are the losses; `Tick` ages everything.

*Properties.* `LongOnce`: a turn is reported too long once, across reconnects and restarts.
`EndedSilent`: an attempt that ended gets no event of the watcher. `HeldKeeps`: a turn of opencode
is found ended only when the session and its subagents were seen to rest, or a fault hid it.
`DenyAfterKeys`: deny is at least the wait after the last press by hand. `BlockedLabelled` and
`TurnEndTold` (liveness): no dialog stays without its label, no ended turn unrecorded, with the
exceptions the definitions name. Both were refuted in plainer forms. What the exceptions are made
of: a listing made before a new turn began, taken before the loop read that turn's events, ends the
new turn as quiet while a subagent works (docs/vocabulary.md:46, 361 say it is recorded once session
and subagents are idle); a long report made while events wait unread belongs to the turn before, and
a stale event may hold an ended turn again; a turn whose `attempt send` is not noted yet, or whose
predecessor's end is recorded late, and which ends unseen by a watcher whose stream was cut, stays
unrecorded, as `catchUp` compares only the newest event; a `long` may replace the label of a dialog
that followed another one, and the screen is then not denied; an `attempt send` after a recorded
block hides the label; a dialog after a deny with Luvus blocked throughout is never denied; the
dialog after `attempt keys` of a worker that does not ask keeps no label; a block noted by the
launch while the stream is down lets the old clock record `long`.

*Run* `steps`, slice `signals`: a worker of each sort (`ask`, which asks the operator, and
`opencode`), thresholds 1 and 2 in an order the code's are in, one event in the queue; 2 deeds of
worker or operator with one fault, or 3 deeds of the asking worker without one. *Fairness.* The
watcher's loop, time, listings and the notes of commands go on (weak); the `select` of the loop
takes each case that stays ready (strong, `Handle`, `HeldTurns`, `BeginTick`).

### IdleWakes

The wakes of a supervisor for which no event will come. *State:* ages of the last event, wake, look,
redraw, the timers' time left; what is open and what watches it. One unit of time has one look of
the watcher in it, in three steps (store, screen, record). `IdleSafety`: `Woken` (a neglected
supervisor that rests is woken within the longer delay), `WakesApart` (two stall wakes are at least
the shorter delay apart), `AlertOnce` (the operator is alerted once in an episode), `RingsPaid` (a
repeating timer never fires for a period that has not passed). `After` may be longer than `Every`:
the config allows it. An event between look and record puts the wake into the new episode
(`belated`), whose first delay is then the second one; a kill between record and alert loses the
alert. `parts_safe`: 2 tasks, delays 2 and 3, alert at 4, 2 acts; the proof has no bound.

### WatchAlerts

What a session tells the operator and the supervisor it resumes. `AlertsSafety`: `EndsToldOnce`,
`AsksHeardOnce`, `LimitToldOnce` (each end, decision and stretch at a limit is alerted once),
`StoppedStays` (what the operator stopped is not resumed). The definitions are about what is told,
not that it is: an attempt ended by another command's sync, and a decision asked while the watcher
is down, are never alerted, an error of a sync loses the alerts of what it ended, a restarted
watcher alerts a limit again; a resume runs only as a stream opens, and not when a held supervisor
lock hid the end. 2 attempts in `parts_safe`.

### Housekeeping

Inbox prune and trash, daily snapshots, `hand gc`, `attempt gc`, with days as the unit of time, by
watcher and commands at once, killed anywhere. `FilesSafety`: `TrashKept` (what Hand moved to the
trash stays a week), `GcSound` (gc deletes what it scanned and nothing written since, no scratch of
a live attempt), `SnapshotsKept` (each is whole and the newest are there). The week of `TrashKept` counts from the start of
the prune that moved the file, as that is the time it is stamped with (inbox.go:104, 191): a prune that
goes on past midnight makes the stay shorter than the week from the move that docs/inbox.md:6 names, by
as long as it took. The proof brought this out; TLC refutes the week from the move once a file may be emptied within the days explored. Corner cases kept: a file
rewritten between scan and move is moved, recoverable for a week; a rename may overwrite a file put
into the trash after the look; a write between gc's last look and the removal is lost; a snapshot
that failed is not tried again that day. 2 files, 3 days, 1 kill in `parts_safe`; a file is old at once and its week is 0 days,
so that three days are enough to move one and to empty it on the next, or too early.

## 5. Moves, imports and updates

### FleetMove

*State.* `db` (the recorded home, the folder a project's path is in, the `fleet.moving` and
`fleet.moved` events, and whether anything is live), `backups` (the
`hand.db.pre-move-*` copies), `place` (where the folder is), `registry`, `link` (the
folder each worktree's gitfile names), `op` (where each command is, with its locals). An
open database follows its folder; there is one folder, so copies of a fleet and destinations
that are taken are left out.

*Actions.* What a command looks at before its first write is one step: `Begin`,
`BeginRewrite`, `FinishPending` (from the new folder or the old one), `InitHome`. Every
write is a step: `Backup`, `Mark` (the transaction that rewrites the home and leaves the
marker), `RewriteHome`, `Rename`/`RenameFails`, `Relink` one gitfile, `Look` and `Point` of
`fleet.Register`, `ConfirmMove`, `Rebase`, `Repair`; `Killed` comes between any two. No lock is held
by any of them. Outside: `Work` (something starts or ends), `Mv` (the operator moves the
folder with no command running), `Undo` (copies the pre-move database back, as a failed
rename's message says).

*Properties.* `MoveSafety`: types; `HistoryChains` (each event begins where the one before it ended,
a completion follows its own marker, runs that finish one move at the same time record it once);
`UndoThere` (a pending move has a copy from before it). `AloneFindable`: whatever a move was killed
or failed at, the marker names the two folders one of which holds the fleet; once it is closed, and
no command runs, home, registry, project path and worktrees are all where the folder is, unless the
folder was moved by hand, which the recorded home tells. Liveness: `AloneSettles`.

*Run* `steps`, slices `races` (2 moves or plain mvs that overtake each other, 1 fault) and `alone`
(1 move, 2 faults, work). 3 places, 2 commands, 2 worktrees, undo and init in both. `AloneFindable`
is about one move and any number of runs that finish it, because it fails for two full moves under
way at once: a command that looked before a round trip of another (A to B to A) passes its check of
the recorded home, or renames the folder away from under a move that is over.

*Fairness.* A command goes on or is killed (weak fairness of `Proceed`); the operator again and
again runs what the messages name: the same move, the rewrite, or init (strong, as other commands
may be running in between), and the stop of whatever is live (weak). `Begin`, `Mv`, `Undo` and
faults are not fair.

### PathRewrite

What a move does to the text of a cell. A text is a sequence of tokens. `RewriteSafety`:
`MeaningKept` (a moved text says of the new home what it said of the old, and back again; what is no
mention is untouched), `RefusedForShorthand`. Cells of 3 chunks out of 12, four pairs of homes
(inside the user's home, out of it, into it, into it by its own name). Unix only; a user home that
is a link is left out. A home that overlaps itself through a space is passed over after a failed
match.

### FleetImport

`hand fleet import`: one transaction for rows, the marker on the source, then the files.
`ImportSafety`: `ImportedOnce`, `MarkerTold`, `TaskMapped`; `NotesKept` (no import changes a
complete file). An import killed between the commit and the marker leaves a source that can go to a
second destination; a killed copy leaves a partial file and the rerun is refused; two names of one
repository collide and the second's notes are only listed. 2 imports, a change of the fleets or a
mishap.

### SelfUpdate

`hand update` over each fleet's watcher, supervisor and server, the binaries, backups and the
journal, killed or failed at every step. `UpdateSafety`: types with the journal being what the
update holds, `NothingForgotten` (what is down and was up is in the journal, or the operator was
told), `MigratedSaved`, `IrohMatches`; `SwitchesRight` (an update stops only what it may); liveness
`EverythingReturns`. 1 fleet, 2 kills, or 1 kill and 1 failure, 1 change of work. *Fairness:* an update goes on or
is killed, the operator runs one again. Repair drops the journal even when a resume fails again
(told); a sweep of the board begun before the update may restart a watcher during it
(docs/update.md:31 against board_watchers.go:42-58); a clock set back can make Prune remove the
fresh backup (backup.go:84-108) and is left out.

## 6. Boards, watchers and phones

### BoardServices and WatcherKeeper

`BoardServices` is the life of boards: what each records beside it (address, pid, state of
hand-iroh) and takes away, `hand open`, `hand board stop`, the unit, and the restart loop of
hand-iroh. `ServicesSafety`: `OneBoardForAll` (simultaneous opens end with one board that answers),
`RecordsTrue` (the records of boards one after the other name the one that serves),
`GivenUpRightly`; `EndedAsStopped`: a board that is asked to end takes its hand-iroh with it. Two
boards that overlap remove or overwrite each other's records (section 8); the removal of board.pid
is neither atomic nor locked. 2 boards, 2 openers, 1 port; explored are two of a stop, a fault and
exits of hand-iroh.

`WatcherKeeper` is one fleet that always wants a watcher, the boards that sweep over it, the
commands that ensure one, and the generation by which a watcher belongs to a board. `KeeperSafety`:
`CloseInGeneration` (from the look at `board.generation` to the end of a close of the supervisor no
other board becomes the current one), `RecordsOfHolder` (what is on file of the watcher that holds
the lock names it, whatever earlier ones left or take away). A stop is the five steps of
`stopPIDFile` and `removeIfSame` (`StopRead`, `StopOther`, `StopWait`, `StopCompare`, `StopRemove`),
which take no lock: a watcher that writes `watch.pid` between the comparison and the removal loses its
record. The history variable `exposed` names it, and for it `RecordsOfHolder` says that no other record is there.
Liveness: `WatcherFollows` (when one board is left, a watcher of its generation runs and stays), with
sweeps, a command that began and a watcher weakly fair, unless a running watcher of another
generation is out of the board's reach (`OutOfReach`): its record was so removed, and each sweep ends
in the conflict of cli/watch_ensure.go:66-70; or it runs another binary (`Foreign`), which
cli/stop.go:40-42 leaves running. TLC reaches both, and without either exception the property fails. Two
boards that stay replace each other's watcher for ever. Part `boards`
is 2 boards and no command: one mishap, and the end of a board once a stop removed an exposed record;
closes are explored here, a board's own while no watcher is alive. Part `commands` is 1 board and 2
commands, one of another binary: 2 mishaps, the end of the board only as the first. 2 watchers.

### BoardPage and HostFleets

`BoardPage` is the fleet page: the queue of what waits on the operator as a function of rows,
signals and panes (`Status`), the version by which a stream tells that it changed, and the keys a
page presses on a screen it shows. `OpenPageComplete` (liveness): an open page ends up with what
waits on the operator whatever changed while it was rendered, unless Luvus was silent meanwhile
(`PageUntold`; docs/board.md:5 makes no such exception). Keys for an attempt hold its lock from the look
to the record of the press (cli/attempt_input.go); keys for the supervisor hold none
(cli/supervisor.go:902-941), so two browsers may both pass the look (`PressedSince`). `AnswersOnce`
says what holds: a press is refused once the press that answered its dialog is recorded (`Looks`,
`Noted`), and on an attempt it lands on the dialog its page showed or on one that took its place
without a press (`Lands`). The stream and a command that began are weakly fair. 1 worker, 2 changes, 2
presses, 1 loss. Part `page` is one browser while anything changes, with one press; the loss comes
while a change is still to come, so that a page which is read again has something to miss. Part
`press` is two browsers while the screens do nothing but ask and no stream drops, where one page is
rendered at a time and only when it has no screen left to answer.

`HostFleets` is the host's cache of open stores while the fleet moves or its token changes.
`HostSafety`: types, `NeverClosedInUse`; `ServedCurrent`: a request is answered from a folder and
with a token there were while it went on; `StoresClosed` (liveness): every store but the cached one
is closed again. Requests go on and cancelled streams end (weak). 2 requests, 2 folders, 2 asks, 1
move.

### PhonePairing, PeerConnections, IrohForwarder

`PhonePairing`: a code pairs a phone with the fleets chosen for it, each a row in a store of its
own. `PairingSafety`: `CodeOnce`, `GuessesBounded`, `PairedWorks`; `PhoneRows`: a phone that got its
answer holds the cookie of every row made for it, and a revocation that answers without a failure
has left no row of the phone in the fleets it named, unless the phone was still being paired. A
revocation everywhere while a pairing with several fleets is in flight misses a fleet not yet added;
wrong tries carry over to a new code. 2 phones, 2 fleets, 2 codes; explored is a second try or a
second thing going wrong.

`PeerConnections`: `PeerSafety` is `PairedByRow` (a connection counts as paired only by a row that
is there, unless it is being revoked or names no endpoint), `Allowance`, `StreamEnds`. A phone
paired with no login keeps an open connection after its revocation until its next request with a
cookie. 2 connections, 1 row and its successor.

`IrohForwarder`: `ForwarderSafety` is `PermitsHeld` (every permit belongs to a connection that is
there, whatever way one ends), `StreamsBounded`, `IdleIsQuiet`. 2 connections, 2 sources, 2 units of
time.

## 7. What the runs show

| Run | States | Properties | Shows |
|---|---|---|---|
| `store` | 913,948 | `StoreSafety` `WorkerEndsWait` `FinishedIsFinal` | a finished task stays closed and final, one worker per task and branch |
| `wake_messages` | 803,601 | `DeliverySafety` `ImplementsQueue` | order, nothing skipped, repeats only after faults |
| `wake_lifecycle` | 959,993 | `RowSafety` | switch and cursor survive every relaunch, one conversation |
| `wake_live` | 33,733 | `InputArrives` `WakeArrives` `StraysClosed` | messages and wakes arrive |
| `attempt_ops` | 102,555 | `LaunchSafety` `ImplementsStore` `LaunchSettles` `DeadWorkerNoticed` | one worker per worktree, no edit lost, a step of the store; launches settle |
| `steps` | 410,276 | `MoveSafety` `AloneFindable` `AloneSettles`; `LongOnce` `EndedSilent` `HeldKeeps` `DenyAfterKeys` `BlockedLabelled` `TurnEndTold` | moves; signals |
| `parts_safe` | 867,357 | `ContinueSafety` `ServicesSafe` `ImportsSafe` `TextsSafe` `TracesSafe` `IdleSafety` `PhoneRows` `NotesKept` `EndedAsStopped` | continued branches; boards, phones and alerts; imports; text; screens and files; wakes |
| `parts_live` | 292,039 | `ProcessesSafe` `KeeperSafety` `SwitchesRight` `EverythingReturns` `OpenPageComplete` `AnswersOnce` `ServedCurrent` `StoresClosed` `WatcherFollows` | update, page, host and keeper, with liveness |

`attempt_commits`, `move_quiet`, `page_answer` and `board_addr` refute a sentence of the documents
each (section 8). `ServicesSafe` (boards, phones, connections, forwarder, alerts), `ImportsSafe`, `TextsSafe`,
`TracesSafe` (screens, files) and `ProcessesSafe` are the safety properties of the modules behind them;
`ContinueSafety`, `IdleSafety` and `KeeperSafety` are one module's each.

Deadlock is not checked: in every model the ids run out, and a fleet at rest with
no command running is a legal end.

## 8. Where code and documents differ

* `attempt_commits` refutes `CommitsKept`. docs/vocabulary.md:262 says that clean   refuses when
  commits would be lost; `clean` (cli/attempt_stop.go:179-208) looks for them and   then stops the
  worker, so commits made on a detached HEAD between the two are lost without `--discard`.
* `move_quiet` refutes `MoveRefusesLiveWork`. docs/vocabulary.md:155 says that a move   refuses a
  live attempt or supervisor; cmdFleetMove (cli/fleet_move.go:125) looks for one before the copy and
  the rewrite, and moveHome (state/move.go:106) does not look again, so an attempt that starts
  between is moved with its fleet.
* `page_answer` refutes `OneAnswer`. cli/supervisor.go:906 says that the flag a page passes refuses
  a press when   someone pressed since; the queue reads the screen first (board/queue.go:212) and
  the last key press   afterwards (:452), so a page read while the shown dialog is being answered
  may answer the next one with the same text. That run has one page; two have a second way to it on the
  supervisor, whose keys command takes no lock, which is why `AnswersOnce` asks less of it.
* `board_addr` refutes `AddressTold`. docs/vocabulary.md:185 says that `board.addr` records where
  the running board   listens; a board that drains removes the record when it holds its own address
  (cli/board.go:401), which may be the one   its successor on the port has just written.

## 9. What is proved

TLAPS checks the theorems for every value of the constants that meets the named assumptions: any
number of tasks, attempts, messages, processes, boards, faults. The assumptions are that ids are
numbers (some sets of them finite), that the values for "none" are no ids, that bounds are numbers,
and what is said below. Each `*_proofs` module begins with its inductive invariant; `PROJECT.json`
lists the theorems.

**FleetStore** (`StoreSafe`, `WaitEnds`, `FinishedFinal`). No property of the store is inductive by
itself. `IInv` adds the reasons they hold: a row that exists belongs to a task that was added
(`RowsOwned`), attempt ids come in order (`IdsInOrder`, which keeps a new branch name unused), only
an active task has a live attempt and nothing live is cleaned (`LiveOnActive`, which keeps a
continued branch out of a live worktree), and only an open task has an open decision or an armed
timer (`OpenOnOpen`). The last two are what finishing a task relies on: an operation that opens
something looks at the task, and `Transition` looks at, or closes, everything that is open.
`FinishedIsFinal` also needs that a row not added yet is blank (`BlankRows`).

**WakeDelivery** (`DeliverySafe`, `RowsSafe`, `QueueImplemented`). `DInv` says what a run that holds
the lock has in hand, because everything it does later stands on what it read first. Of messages:
the ones on its list are pending and none before them is missing (`ListKept`); one was told more
often than faults allow only if a run is about to record it (`ToldOnce`). Of rows: only the latest
is live, a row continues one that ended, and a run that is about to end, create or add has the row
and the model as they are (`RowsKept`, `RunRows`). Of events: a digest holds all that matters up to
its last event, the cursor is where the run read it, and a row to be added takes wakes from where
those before it were shown (`RunEvents`, `ShownOnce`). The lock is what makes these facts stable
(`LockKept`): at most one run is past its start. The refinement is one step per action over the same
invariant.

**AttemptLaunch** (`WorkplaceKept`, `StoreImplemented`). `WInv` is `TypeOK` and four facts: only an
attempt that was started has a launcher, a worktree, an operation or a terminal (`Placed`); a
launching attempt's launcher finds the worktree it made, and a running one's is done and its
worktree there (`LaunchInOrder`); an operation that removes a worktree works on an ended attempt
(`RemovesEnded`), which is why clean may go without the attempt's lock; and git's rule that an
attached worktree's branch exists and is in no other (`BranchesHeld`), which is why a launcher that
outlived its grace cannot delete the branch under its continuation.

**AttemptLaunch**, the workers (`LaunchSafe`) and the branches (`ContinueSafe`). `XInv` adds: nothing is in a worktree
before the launcher asked for a terminal (`Fresh`); settle, stop and switch hold the attempt's lock,
which one can (`Locks`); a create is under way or late only while the attempt has no worker
(`Held`); an attempt that ended under its launcher had outlived the grace (`Slow`); and without a
fault an attempt's last worker is gone before its row ends, or its launcher is about to stop it
(`Faultless`). `OneWorkerPerTree` follows from `Held`, `StrayNeedsFault` from `Faultless`,
`LeftoverNeedsSlowLaunch` from `Slow`. `YInv` adds `Lineage` for `BranchesKept`: a branch is
continued only once its first attempt was cleaned, a launcher deletes only the branch it made, and
nothing was committed on an attempt's branch while its launcher may still delete it, unless the
attempt had outlived the grace.

**FleetMove** (`MoveSafe`). The copies are histories too, since undo brings one back (`AllChained`);
a command about to rewrite has its copy, and one about to copy has either been overtaken by a
command that made it or still sees the home it began with and no marker (`CopyFirst`).

**TurnSignals** (`LongReportedOnce`, `HeldUntilRest`, `EndedLeftAlone`, `DenyLate`). Over the types with one
fact about the stream, that the last event in it is the status Luvus reads (`Queue`). `Longs`: what
is about to be recorded as long is a running clock, and a turn that was reported is known to the log
and to a memory that has a clock, with no unread change to working, also while a tick goes on after
its stream was cut (`Reads`); so neither a restart nor a dropped stream reports it twice. `Holding`: a session that is not busy was seen to rest; while a
turn waits for a listing, a new turn is still unread in the stream, and a listing that says rests
speaks of the turn that waits. `Pressed`: the newest event of an ask attempt is no older than the last
press by hand once its command let the lock go, and a deny under way holds that lock, so the wait the
watcher measured on the log is a wait since that press. The thresholds are in the code's order (`AgesAssumption`).

**IdleWakes** (`IdleSafe`). Four clocks and what holds between them: while the supervisor is
neglected all the clocks of its rest run (`Ripening`), the last wake is at least as old as the clock
that decides the next (`Spaced`), a look that will alert is the first of the hour or was overtaken
(`Alerted`), and a timer has saved the time it is past its due (`Paid`). The back-off is a recursive
function; that its values lie between the two delays is proved by well-founded induction over a set,
as the library's induction theorem takes an operator. Assumption: a screen counts as still before
any delay is over (`StillFor < After`, `Every`; 30 s against at least a minute in the code).

**FleetMove, one move** (`OneMoveFound`, `StepsMoves`, over the run's specification). `AloneInv` is the
story of one move. Nothing has moved (`Unmoved`); or the folder was moved by hand to some `d`
(`ByHand(d)`), where the registry names `d` only after project path and gitfiles are at it, and the
recorded home changes after the registry; or a command moves it to `d` (`Away(d)`), where marker,
folder, gitfiles, registry and completion follow each other whichever run does them, and `AwayOp` says
of every command what it may have found before its next write. Two commands cannot both be before the
marker, as that would be two moves.

**FleetImport** (`ImportSafe`, `ImportsSafely`, `NotesStay`). A running command holds both homes and no
home has two holders (`HoldersApart`), so what it found under its locks still holds (`StillFound`); a
marker names a fleet that has the import, and without a mishap an import that has no marker yet is about
to get it (`MarkersTold`). Each imported task is an `Entry`, and no two in one fleet have one origin
(`OriginsApart`). Which project each name becomes is a recursive function; what it is for every finite
set of projects (`PlanIs`) is proved by induction over the set.

**WatchAlerts** (`AlertsSafe`). An end that is still to be compared was not told of (`EndsTold`), the
decisions up to the watcher's place were told of once and none after it (`AsksHeard`), the watcher
remembers the limit it told of while a supervisor is live under it (`LimitHeld`), and whoever resumes
one has the lock that any other change of the row needs (`ResumerAlone`).

**LaunchScreens** (`ScreensSafe`). What was read is on the screen for as long as its revision is, and
what the agent has taken does not come back (`Reads`); a key is meant for the brief in its box or for a
question that names the folder (`Meant`), and until the agent reacts the screen is the one Enter was
sent to (`Confirms`); unless the operator or a delay disturbs it, one key at most waits in the agent's
input (`OneKey`). What is to be said and noted follows from what was seen (`Sayings`, `Notings`,
`Answering`).

**Housekeeping** (`FilesSafe`). A file Hand moved to the trash has the day its prune began, or a later
one, as its time (`Stamps`), and what a prune still holds in its hand is old by its own clock
(`Sweeps`); what gc is about to remove is what it scanned (`Scanned`); a live attempt with a scratch
folder has its worktree, unless the operator removed one (`Folders`); the copy of a snapshot that is
renamed is whole, and a kept day was taken (`SnapInv`).

**PhonePairing** (`PairingSafe`, `PhonesKept`). A code is on one board, and one can be used there
(`CodesKnown`); a board has counted every wrong try since its code was shown (`Tallied`); what was taken
cannot be used again (`TakenOnce`) and is granted to one request, whose rows its rows are (`Grants`).
Rows are numbered (`RowsNumbered`); a request goes on with the tokens there were when it came
(`Posting`), so a cookie it gathered or a phone keeps is hashed between that token and the one now
(`Got`, `Jarred`). A phone that is being revoked and was not being paired gets no row meanwhile
(`RevokedSoFar`).

**PeerConnections** (`PeerSafe`). An open connection goes by the row that is there or by the one being
revoked (`ByRow`, `RowsKnown`), and by a row that names an endpoint only if it is of one (`ByEndpoint`);
what is tracked is what an endpoint opened and is not closing (`Tracking`), so that a revocation, its
row gone, closes all that still goes by it (`Revoking`). Answers that proved nothing are counted
(`Counting`), and a stream that wrote late finds its row gone at its next look (`Lateness`).

**IrohForwarder** (`ForwarderSafe`). Permits left and connections at a step that holds one add up to the
limit, and a source's count is the number of its connections (`Permits`); that these sets stay finite is
a part of it. The streams a connection opened and those its bucket has left are no more than the burst
and the time it is served (`Earned`); the idle clock is not older than what was moved (`Silence`).

**BoardServices** (`ServicesRight`, `SidesEnd`). A hand-iroh runs only beside a board that serves or
drains (`Sides`) and is not given up before it ended early too often (`Tried`); whoever starts a board
holds the lock until it answers (`Locking`), so while nobody else starts or stops one, the one that runs
comes up under that lock (`OneStarts`); of boards one after the other the one that runs wrote what is on
file (`OnFile`). Assumption: the value for no opener is not an opener.

`ServicesSafely`, `PhonesKept`, `ImportsSafely`, `NotesStay`, `SidesEnd` and `TracesSafely`
(`MCSafe_proofs`) carry these over to the specification that `parts_safe` checks: a step of it is a step
of one part, and a stutter of the others.

**WatcherKeeper** (`KeeperSafe`). A watcher past the lock is its holder (`LockHolder`), has written its
generation (`Marks`) and, once it runs, its pid, unless that record was exposed to a stop (`Pids`); one
that closes a supervisor does not end before it is done (`Closing`). The number a stop has read or
waits for is not given again (`Reading`), so the record it finds unchanged is that of a process that is
gone (`Stopped`), and a running one whose record it is about to remove wrote it since (`Removing`).
Assumption: numbers of processes and of boards are told apart.

**SelfUpdate** (`UpdateSafe`, `UpdateSwitches`). `Journal` says what the journal holds at each step,
`Owing` that whatever is down and owed is on record, and at the late steps concerns only the fleet
worked on; `Switching` is what the stop of a server rests on, `Replacing` that `hand` is replaced when
everything is saved and hand-iroh was replaced.

**HostFleets** (`HostSafe`, `HostServes`). Which requests have a handle and which use it (`Turn`); the
cached store and every one that is held are open (`Holding`); the home and the token a request goes by
were current while it went on (`Seeing`).

**BoardPage** (`PageTyped`, `PressesOnce`). A dialog has the number of the revision it came with, and
keys were pressed on earlier ones only (`Dialogs`); a screen that a page knows or a command was given,
and whose dialog was answered by a press that is recorded, is told by the last press (`KnownTold`,
`AskedTold`), which is what the look refuses by (`LookStep`); no two commands press on one attempt at a
time (`OnePresses`), so on an attempt a command that goes on does so for a dialog nobody answered
(`Unanswered`). Nothing more is proved of the supervisor. `LiveSafe` and `LiveSteps` carry the parts over to
the specification of `parts_live`. Assumption: the supervisor's pane is not an attempt's.

Only model-checked: all liveness and ENABLED, which are out of the prover's reach; and
`RewriteSafety` (`TextsSafe`), which runs over given texts.
What each `violation` run refutes is a sentence of the documents. No module uses a RECURSIVE operator.


## 10. What the checks do not show

* One transaction is one step; a Luvus call is one step or, unanswered, two. A reaped attempt's
  launch is over by then (the   retention window is days). A worker that detached its HEAD stays
  detached. Prompts and routing are choices among their outcomes.
* `Calm` in `MCSafe`, `Slices` in `MCFleetStore`, `FewDeeds` in `MCSteps`, `UpdateBounds`,
  `PageBounds` and `KeeperBounds` in `MCLive` cut what is explored as the sections above say; the theorems about the
  single modules have no such cut.
* Two things a board cannot repair are excepted from `WatcherFollows`, not ruled out: a watcher whose
  record a stop removed, and one of another binary. The instant at which `os.WriteFile` has emptied
  `watch.pid`, and a failing write of it, are not modelled.
* Bounds stop a counter, not the code: what needs more tries, messages, faults or time than a run
  has is shown only where a theorem says so.
* Not modelled of the modelled files: RecordQuiet's row (`state/report.go:234-272`),   the session
  and model columns set by `SetSupervisorSession`, `SetSupervisorModel`, `NoteSupervisor`,
  `AttemptSwitched`, `KeepAttempt`, the `wait` command; `Host.Close` at a shutdown; copies of a
  fleet and taken destinations in a move.
* Hazards no property covers are in `PROJECT.json` with the reason.

## 11. Plan

1. `FleetMove`: `refuseCopy`, `moveDestination`, and `fleet.Check` pointing the registry at the same folder under another name.
2. The shutdown of a board with open streams (`Host.Close`), and the forms of a page.
