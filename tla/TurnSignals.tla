---------------------------- MODULE TurnSignals ----------------------------
(***************************************************************************)
(* How the watcher turns what Luvus reads in a worker's pane into events   *)
(* of the attempt: a block, the end of a turn, a usage limit, a turn that  *)
(* runs too long, and the press of the deny key on a permission screen     *)
(* nobody answered (cli/watch.go, cli/watch_approve.go,                    *)
(* cli/watch_opencode.go, the event queries of state/event.go).            *)
(*                                                                         *)
(* One attempt; the loops over live attempts treat each by itself.  Of the *)
(* event log the module keeps what its queries answer: the newest event of *)
(* the attempt and its age, where the current turn starts (TurnStart),     *)
(* whether a report came since the last turn end.  Ages are counted up to  *)
(* Long, in units no longer than the shortest threshold of the code.       *)
(***************************************************************************)
EXTENDS Integers, Sequences

CONSTANTS
  Sorts,      \* the workers checked: "plain", "ask" (Approve = ask), "opencode"
  Grace,      \* quietGrace, and keysSettle, in units of age
  Wait,       \* the policy's approve_timeout
  Long,       \* longTurn, and the largest age counted
  MaxQueue,   \* the events a stream holds before it is resynchronised
  MaxDeeds,   \* the changes of the worker's pane and the operator's commands
  MaxLosses    \* dropped streams, killed watchers, failed reads and listings

ASSUME AgesAssumption == {Grace, Wait, Long} \subseteq Nat /\ 0 < Grace /\ Grace <= Wait /\ Wait <= Long
ASSUME BoundsAssumption == {MaxQueue, MaxDeeds, MaxLosses} \subseteq Nat

None == -1    \* no turn

VARIABLES
  sort,       \* the harness and approval mode of the attempt
  live,       \* its row is running
  agent,      \* the status Luvus reads in the pane
  screen,     \* what the pane shows: "output", "prompt", "limit" or "dialog"
  busy,       \* an opencode session or one of its subagents is at work
  log,        \* the answers of the event queries
  stream,     \* the watcher's subscription ("none", "open", "following") and its events
  mem,        \* the watcher's memory of the attempt
  step,       \* where the watcher's loop is, and what it will record
  list,       \* the last listing of opencode sessions, on its way to the loop, and the one missed
  press,      \* who presses keys under the attempt lock, and whether the screen read still stands
  sending,    \* an attempt send whose text Luvus took and whose event is not noted
  deeds, losses,
  ghost       \* what really happened, for the properties

tVars == <<sort, live, agent, screen, busy, log, stream, mem, step, list, press, sending, deeds, losses, ghost>>

world == <<sort, live, agent, screen, busy, sending, deeds>>
watcher == <<mem, step, list>>

Prefills == sort = "opencode"

Older(age) == IF age \in {None, Long} THEN age ELSE age + 1

(***************************************************************************)
(* The event log.                                                          *)
(***************************************************************************)
TurnEnds == {"quiet", "idle", "blocked", "limited"}
Inputs == {"sent", "keys", "denied"}

\* What the queries answer after the event is appended.  TurnStart scans back
\* to the last turn end: the turn starts at the first input after it, else at
\* the launch.
Emitted(l, kind) ==
  [l EXCEPT
    !.newest = kind, !.age = 0, !.done = FALSE,
    !.long = IF kind \in TurnEnds THEN FALSE ELSE @ \/ kind = "long",
    !.start = CASE kind \in TurnEnds -> None
                [] kind \in Inputs /\ (l.start = None \/ l.launched) -> 0
                [] OTHER -> @,
    !.launched = @ /\ kind \notin TurnEnds \cup Inputs,
    !.rested = @ /\ kind \notin Inputs]

\* RecordQuiet: a turn end the supervisor already knows of is recorded as
\* idle, which wakes nobody.
QuietKind == IF log.newest \in {"quiet", "idle"} \/ log.done THEN "idle" ELSE "quiet"

(***************************************************************************)
(* The worker, its screen and the operator at the terminal.                *)
(***************************************************************************)
\* A stream that ended; cut: the watcher may have missed a change.
Cut == [state |-> "none", events |-> <<>>, cut |-> TRUE]

\* Luvus publishes a change of status to a subscriber; a stream it cannot
\* queue for ends with a resync request.
Published(s, status) ==
  IF s.state = "none" THEN s
  ELSE IF Len(s.events) < MaxQueue THEN [s EXCEPT !.events = Append(@, status)]
  ELSE Cut

\* The pane changes: a press that read the screen before is refused.
Pane(status, text) ==
  /\ agent' = status
  /\ screen' = text
  /\ press' = [press EXCEPT !.fresh = FALSE]
  /\ stream' = IF status = agent THEN stream ELSE Published(stream, status)
  /\ UNCHANGED <<sort, live, watcher, losses>>

Session(working) ==
  /\ busy' = working
  /\ log' = [log EXCEPT !.rested = @ \/ (busy /\ ~working)]

\* Every change of the pane and every command counts.
Move ==
  /\ live /\ deeds < MaxDeeds
  /\ deeds' = deeds + 1

\* A turn begins: at the prompt, or again after a dialog.
Begun == [ghost EXCEPT !.ended = FALSE, !.shown = None, !.rested = FALSE, !.asked = FALSE,
                       !.longs = 0, !.late = FALSE]

TurnBegins ==
  /\ Move /\ agent # "working"
  /\ Pane("working", "output")
  /\ Session(sort = "opencode")
  /\ ghost' = Begun
  /\ UNCHANGED sending

\* A turn ends at the prompt or at a new usage limit; subagents of an opencode
\* session may work on.
EndTurn ==
  /\ Move /\ agent = "working"
  /\ \E status \in {"idle", "done"}, text \in {"prompt", "limit"}, still \in {sort = "opencode", FALSE} :
       /\ text = "limit" => sort # "opencode"
       /\ Pane(status, text)
       /\ busy' = still
       /\ log' = [log EXCEPT !.limit = @ /\ text # "limit", !.rested = @ \/ ~still]
       /\ ghost' = [ghost EXCEPT !.ended = TRUE, !.rested = ~still]
  /\ UNCHANGED sending

\* The background subagents of an opencode session end, or one begins.
Rest ==
  /\ Move /\ sort = "opencode" /\ agent # "working"
  /\ Session(~busy)
  /\ ghost' = [ghost EXCEPT !.rested = @ \/ busy]
  /\ UNCHANGED <<sort, live, agent, screen, stream, watcher, press, sending, losses>>

\* The worker asks: a dialog, or a screen that Luvus takes for one, or, for
\* an ask attempt, a dialog that Luvus reads as idle.
Ask ==
  /\ Move /\ agent = "working"
  /\ \E status \in {"blocked", "idle"}, text \in {"dialog", "output"} :
       /\ status = "idle" => sort = "ask" /\ text = "dialog"
       /\ Pane(status, text)
       /\ ghost' = [ghost EXCEPT !.shown = IF text = "dialog" THEN 0 ELSE None,
                                 !.late = log.newest = "blocked"]
  /\ UNCHANGED <<busy, log, sending>>

\* The operator answers at the terminal and the next dialog follows at once:
\* Luvus reads blocked throughout.
NextDialog ==
  /\ Move /\ agent = "blocked" /\ screen = "dialog"
  /\ Pane("blocked", "dialog")
  /\ ghost' = [ghost EXCEPT !.shown = 0]
  /\ UNCHANGED <<busy, log, sending>>

\* A finished pane the operator looked at reads idle.
ScreenOnly ==
  /\ Move /\ agent = "done"
  /\ Pane("idle", screen)
  /\ UNCHANGED <<busy, log, ghost, sending>>

\* attempt start notes a launch problem: a screen it did not answer, a
\* briefing it did not submit.
LaunchNote ==
  /\ Move /\ log.launched /\ log.newest = "running"
  /\ log' = Emitted(log, "blocked")
  /\ ghost' = [ghost EXCEPT !.late = TRUE]
  /\ UNCHANGED <<sort, live, agent, screen, busy, sending, stream, watcher, press, losses>>

\* report add by the worker; done: its status is done or stuck.
Report(done) ==
  /\ Move /\ agent = "working"
  /\ log' = [Emitted(log, "reported") EXCEPT !.done = done]
  /\ UNCHANGED <<sort, live, agent, screen, busy, sending, stream, watcher, press, losses, ghost>>

\* The attempt ends: stop, an exit, an interruption.
End ==
  /\ Move
  /\ live' = FALSE
  /\ log' = Emitted(log, "ended")
  /\ UNCHANGED <<sort, agent, screen, busy, sending, stream, watcher, press, losses, ghost>>

\* Time passes, counted up to Long; ages only an ask attempt is asked for
\* are counted for one.  A command notes what it did within a unit.
Tick ==
  /\ ~sending /\ press.who # "keys"
  /\ log' = [log EXCEPT !.age = IF sort = "ask" THEN Older(@) ELSE @, !.start = Older(@)]
  /\ mem' = [mem EXCEPT !.turn = Older(@)]
  /\ ghost' = IF sort = "ask" THEN [ghost EXCEPT !.shown = Older(@), !.keys = Older(@)] ELSE ghost
  /\ UNCHANGED <<world, stream, step, list, press, losses>>

(***************************************************************************)
(* The operator's commands.                                                *)
(***************************************************************************)
\* attempt send: Luvus takes the text while the agent is at its prompt; the
\* event is noted once it answered, and the turn may end in between.
Send ==
  /\ Move /\ ~sending /\ agent \in {"idle", "done"} /\ screen # "dialog"
  /\ Pane("working", "output")
  /\ Session(sort = "opencode")
  /\ ghost' = Begun
  /\ sending' = TRUE

NoteSent ==
  /\ sending
  /\ sending' = FALSE
  /\ log' = Emitted(log, "sent")
  /\ ghost' = [ghost EXCEPT !.longs = 0, !.late = TRUE, !.asked = ~ghost.ended]
  /\ UNCHANGED <<sort, live, agent, screen, busy, deeds, stream, watcher, press, losses>>

\* attempt keys, under the attempt lock: Luvus takes the press for the screen
\* whose revision it names; the worker goes on, or asks again at once.
Keys ==
  /\ Move /\ press.who = "none" /\ screen = "dialog"
  /\ \E status \in {"working", "blocked"} :
       /\ agent' = status
       /\ screen' = IF status = "working" THEN "output" ELSE "dialog"
       /\ stream' = IF status = agent THEN stream ELSE Published(stream, status)
       /\ ghost' = [ghost EXCEPT !.shown = IF status = "working" THEN None ELSE 0,
                                 !.keys = 0, !.longs = 0, !.late = TRUE]
  /\ press' = [who |-> "keys", fresh |-> FALSE]
  /\ UNCHANGED <<sort, live, busy, log, watcher, sending, losses>>

NoteKeys ==
  /\ press.who = "keys"
  /\ press' = [press EXCEPT !.who = "none"]
  /\ log' = Emitted(log, "keys")
  /\ ghost' = [ghost EXCEPT !.late = TRUE]
  /\ UNCHANGED <<world, stream, watcher, losses>>

(***************************************************************************)
(* What the watcher makes of one reading of the status.                    *)
(***************************************************************************)
NoList == [says |-> "none", missed |-> FALSE]
NoMemory == [seen |-> "", pending |-> FALSE, turn |-> None, long |-> FALSE]

\* The loop goes on, once it recorded the event if there is one.
Goes(at) == step' = [at |-> at, record |-> ""]
Records(kind, at) == step' = [at |-> at, record |-> kind]

\* The memory once the reading is no mere first block: a block no longer
\* pends, and the clock of the turn runs only while the agent works.
Turned(m, status) ==
  [m EXCEPT !.pending = FALSE,
            !.turn = IF status # "working" THEN None ELSE IF m.turn = None THEN 0 ELSE @,
            !.long = status = "working" /\ m.turn # None /\ @]

\* What the reading is compared with: for opencode a block the log knows
\* counts as seen, also one the launch noted.
Before(m, status) ==
  IF status = "working" /\ Prefills /\ log.newest = "blocked" THEN "blocked" ELSE m.seen

\* hold: the turn of an opencode session that is still busy has not ended;
\* its clock runs on, rebuilt from the log when the watcher has none.
Held(m) ==
  [seen |-> "held", pending |-> FALSE,
   turn |-> IF m.turn # None THEN m.turn ELSE IF log.start # None THEN log.start ELSE 0,
   long |-> IF m.turn # None THEN m.long ELSE log.long]

\* A harness may read idle while it starts: a turn the log knows that is
\* younger than the grace did not end.
TooYoung(m) == log.start # None /\ (IF m.turn # None THEN m.turn ELSE log.start) < Grace

\* The reading says the turn ended: it is held, it is a limit, a block, a
\* quiet turn, or nothing within the grace.  rests: the listing at hand says the session does.
ObserveEnd(m, status, rests, at) ==
  LET now == [Turned(m, status) EXCEPT !.seen = status] IN
  IF status = "idle" /\ m.seen \notin {"working", "blocked"} THEN mem' = now /\ Goes(at)
  ELSE IF Prefills /\ ~rests THEN mem' = Held(m) /\ Goes(at)
  ELSE /\ mem' = now
       /\ Records(IF screen = "limit" /\ ~log.limit THEN "limited"
                  ELSE IF status = "idle" /\ sort = "ask" /\ screen = "dialog" THEN "blocked"
                  ELSE IF TooYoung(m) THEN "nothing" ELSE "quiet", at)

\* observe: a held turn stays held; a block is recorded by the second reading
\* of it, when the screen shows a prompt; a reading that changes nothing
\* records nothing.
Observe(m, status, rests, at) ==
  IF m.seen = "held" /\ status \in {"idle", "done"} THEN mem' = [m EXCEPT !.pending = FALSE] /\ Goes(at)
  ELSE IF status = "blocked" /\ ~m.pending THEN mem' = [m EXCEPT !.pending = m.seen # "blocked"] /\ Goes(at)
  ELSE IF status = "blocked" /\ screen # "dialog" THEN mem' = m /\ Goes(at)
  ELSE IF Before(m, status) = status THEN mem' = Turned(m, status) /\ Goes(at)
  ELSE IF status \in {"idle", "done"} THEN ObserveEnd(m, status, rests, at)
  ELSE /\ mem' = [Turned(m, status) EXCEPT !.seen = status]
       /\ IF status = "blocked" THEN Records("blocked", at)
          ELSE IF Before(m, status) = "blocked" THEN Records("working", at)
          ELSE Goes(at)

(***************************************************************************)
(* The watcher's session.                                                  *)
(***************************************************************************)
AtLoop == stream.state = "following" /\ step = [at |-> "loop", record |-> ""]

\* A tick goes on to its end also when the stream ends meanwhile.
StepAt(spot) == step = [at |-> spot, record |-> ""]

\* The session subscribes, and Luvus holds events for it from here on.
Subscribe ==
  /\ stream.state = "none" /\ StepAt("loop")
  /\ stream' = [stream EXCEPT !.state = "open"]
  /\ UNCHANGED <<world, log, watcher, press, losses, ghost>>

\* What catchUp takes for the status seen before the stream was open: it
\* tells a turn that ended meanwhile from a worker that never began by the
\* newest event alone.
BugSeenBefore(carried) == agent
SeenBefore(carried) ==
  IF carried THEN "working"
  ELSE IF log.newest \in {"quiet", "idle", "limited"} /\ agent # "blocked" THEN agent
  ELSE IF log.newest = "blocked" /\ (agent # "working" \/ Prefills) THEN "blocked"
  ELSE IF log.newest \notin {"long", "working", "blocked", "keys", "sent"} /\ agent = "idle"
  THEN IF Prefills THEN "idle?" ELSE "idle"
  ELSE "working"

\* A listing answers for turns held before it began only.
Outdated == [list EXCEPT !.says = IF @ = "none" THEN @ ELSE "old"]

\* catchUp, after the reconcile: the memory of the attempt is rebuilt, but for
\* a held turn and the clock of the turn, which the process keeps.
CatchUp ==
  LET prev == SeenBefore(mem.seen = "held")
      m == [mem EXCEPT !.seen = prev, !.pending = FALSE,
                       !.turn = IF agent = "working" /\ mem.turn = None
                                THEN IF log.start # None THEN log.start ELSE 0 ELSE @,
                       !.long = IF agent = "working" /\ mem.turn = None THEN log.long ELSE @]
  IN
  /\ stream.state = "open" /\ step.record = ""
  /\ stream' = [stream EXCEPT !.state = "following"]
  /\ list' = Outdated
  /\ IF ~live THEN mem' = [mem EXCEPT !.seen = "", !.pending = FALSE] /\ Goes("loop")
     ELSE IF prev = "idle?" THEN mem' = [mem EXCEPT !.seen = prev, !.pending = FALSE] /\ Goes("loop")
     ELSE Observe(m, agent, FALSE, "loop")
  /\ UNCHANGED <<world, log, press, losses, ghost>>

Relisted == list' = IF mem'.seen = "held" /\ mem.seen # "held" THEN Outdated ELSE list

\* agentStatus: the loop takes the next event of the stream.
Handle ==
  /\ AtLoop /\ stream.events # <<>>
  /\ stream' = [stream EXCEPT !.events = Tail(@)]
  /\ IF live THEN Observe(mem, Head(stream.events), FALSE, "loop") ELSE Goes("loop") /\ UNCHANGED mem
  /\ Relisted
  /\ UNCHANGED <<world, log, press, losses, ghost>>

\* The transaction that records the event looks again whether the attempt
\* is live: a stop may have come between.
BugRecord ==
  /\ step.record # ""
  /\ LET kind == IF step.record \in {"quiet", "nothing"} THEN QuietKind ELSE step.record IN
       /\ log' = [Emitted(log, kind) EXCEPT !.limit = @ \/ kind = "limited"]
       /\ mem' = mem
       /\ ghost' = [ghost EXCEPT !.ended = FALSE]
  /\ Goes(step.at)
  /\ press' = [press EXCEPT !.who = IF @ = "watch" THEN "none" ELSE @]
  /\ UNCHANGED <<world, stream, list, losses>>

Record ==
  /\ step.record # ""
  /\ IF step.record = "nothing" THEN ghost' = [ghost EXCEPT !.ended = FALSE] /\ UNCHANGED <<log, mem>>
     ELSE IF live
     THEN LET kind == IF step.record = "quiet" THEN QuietKind ELSE step.record IN
          /\ log' = [Emitted(log, kind) EXCEPT !.limit = @ \/ kind = "limited"]
          /\ mem' = CASE kind = "blocked" -> [mem EXCEPT !.seen = "blocked"]
                      [] kind = "long" -> [mem EXCEPT !.long = TRUE]
                      [] OTHER -> mem
          /\ ghost' = [ghost EXCEPT !.ended = @ /\ kind \notin {"quiet", "idle", "limited"},
                                    !.asked = @ /\ kind \notin TurnEnds,
                                    !.late = @ \/ (kind = "long" /\ agent = "blocked"),
                                    !.longs = CASE kind = "long" /\ stream.events = <<>> -> @ + 1
                                                [] kind \in TurnEnds -> 0
                                                [] OTHER -> @]
     ELSE UNCHANGED <<log, mem, ghost>>
  /\ Goes(step.at)
  /\ press' = [press EXCEPT !.who = IF @ = "watch" THEN "none" ELSE @]
  /\ UNCHANGED <<world, stream, list, losses>>

(***************************************************************************)
(* The tick: the reconcile, then blocks, long turns, blocks that ended and *)
(* permission screens, one after the other.                                *)
(***************************************************************************)
\* reconcile forgets what it saw of an attempt that ended; confirmBlocked
\* reads the status again of a worker that read blocked.
BeginTick ==
  /\ AtLoop
  /\ IF live /\ mem.pending THEN Observe(mem, agent, FALSE, "long")
     ELSE mem' = [mem EXCEPT !.pending = FALSE, !.seen = IF live THEN @ ELSE ""] /\ Goes("long")
  /\ Relisted
  /\ UNCHANGED <<world, log, stream, press, losses, ghost>>

\* longTurns: once per turn.  unblock passes over a worker that is not
\* opencode's, approvals over one that asks nobody.
AfterLong == CASE Prefills -> "unblock" [] sort = "ask" -> "approve" [] OTHER -> "loop"

BugLongTurns ==
  /\ StepAt("long")
  /\ mem' = IF live THEN mem ELSE [mem EXCEPT !.turn = None, !.long = FALSE]
  /\ IF live /\ mem.turn = Long THEN Records("long", AfterLong) ELSE Goes(AfterLong)
  /\ UNCHANGED <<world, log, stream, list, press, losses, ghost>>

LongTurns ==
  /\ StepAt("long")
  /\ mem' = IF live THEN mem ELSE [mem EXCEPT !.turn = None, !.long = FALSE]
  /\ IF live /\ mem.turn = Long /\ ~mem.long THEN Records("long", AfterLong) ELSE Goes(AfterLong)
  /\ UNCHANGED <<world, log, stream, list, press, losses, ghost>>

\* unblock ends the blocked label of an opencode worker that works again,
\* also when the block was noted by its launch.
Unblock ==
  /\ StepAt("unblock")
  /\ IF live /\ Prefills /\ mem.seen # "blocked" /\ log.newest = "blocked" /\ agent = "working"
     THEN Observe(mem, agent, FALSE, "loop")
     ELSE mem' = mem /\ Goes("loop")
  /\ UNCHANGED <<world, log, stream, list, press, losses, ghost>>

\* approvals: a permission screen whose block is older than the wait, under
\* the attempt lock if it is free; or the dialog that follows an answer, once
\* the keys settled.
Due == \/ log.newest = "keys" /\ log.age >= Grace
       \/ log.newest = "blocked" /\ log.age >= Wait

BugApprove ==
  /\ StepAt("approve")
  /\ IF live /\ screen = "dialog"
     THEN step' = [at |-> "deny", record |-> ""] /\ press' = [who |-> "watch", fresh |-> TRUE]
     ELSE Goes("loop") /\ UNCHANGED press
  /\ UNCHANGED <<world, log, stream, mem, list, losses, ghost>>

Approve ==
  /\ StepAt("approve")
  /\ IF live /\ press.who = "none" /\ Due /\ screen = "dialog"
     THEN /\ press' = [who |-> "watch", fresh |-> TRUE]
          /\ IF log.newest = "keys" THEN Records("blocked", "loop") ELSE Goes("deny")
     ELSE Goes("loop") /\ UNCHANGED press
  /\ UNCHANGED <<world, log, stream, mem, list, losses, ghost>>

\* approve presses deny in the screen it read, or nothing when the screen
\* changed; the worker's turn ends, or it goes on, or asks again.
Deny ==
  /\ StepAt("deny")
  /\ IF press.fresh /\ live
     THEN \E status \in {"idle", "working", "blocked"} :
            /\ agent' = status
            /\ screen' = CASE status = "idle" -> "prompt" [] status = "working" -> "output" [] OTHER -> "dialog"
            /\ stream' = IF status = agent THEN stream ELSE Published(stream, status)
            /\ ghost' = [ghost EXCEPT !.shown = IF status = "blocked" THEN 0 ELSE None, !.late = TRUE]
            /\ press' = [press EXCEPT !.fresh = FALSE]
            /\ Records("denied", "loop")
     ELSE /\ press' = [who |-> "none", fresh |-> FALSE]
          /\ Goes("loop")
          /\ UNCHANGED <<agent, screen, stream, ghost>>
  /\ UNCHANGED <<sort, live, busy, sending, deeds, log, mem, list, losses>>

(***************************************************************************)
(* Held turns of opencode.                                                 *)
(***************************************************************************)
\* held: the turn ends once the session and its subagents rest.  One failed
\* listing keeps the hold, the second in a row counts as rest.  Of a worker
\* found idle, only a rest after its turn began ends a turn.
Waits == mem.seen \in {"held", "idle?"}

\* listSessions, beside the loop: the newest listing replaces one the loop
\* did not take; one that fails says nothing.  A listing made while no turn
\* waits for one changes nothing.
List ==
  /\ Waits /\ stream.state # "none"
  /\ list' = [list EXCEPT !.says = IF busy THEN "busy" ELSE "rests"]
  /\ UNCHANGED <<world, log, stream, mem, step, press, losses, ghost>>

ListFails ==
  /\ Waits /\ stream.state # "none" /\ losses < MaxLosses
  /\ list' = [list EXCEPT !.says = "failed"]
  /\ losses' = losses + 1
  /\ UNCHANGED <<world, log, stream, mem, step, press, ghost>>

BugHeldTurns ==
  /\ AtLoop /\ list.says # "none"
  /\ IF Waits THEN Observe([mem EXCEPT !.seen = "working"], agent, list.says # "busy", "loop") ELSE mem' = mem /\ Goes("loop")
  /\ list' = [list EXCEPT !.says = "none"]
  /\ UNCHANGED <<world, log, stream, press, losses, ghost>>

HeldTurns ==
  LET failed == list.says = "failed"
      rests == list.says \in {"rests", "failed"}
  IN
  /\ AtLoop /\ list.says # "none"
  /\ IF ~Waits \/ ~live \/ list.says = "old" \/ (failed /\ ~list.missed) THEN mem' = mem /\ Goes("loop")
     ELSE IF mem.seen # "idle?" \/ ~rests \/ (log.start # None /\ ~failed /\ log.rested)
     THEN Observe([mem EXCEPT !.seen = "working"], agent, rests, "loop")
     ELSE IF mem.pending THEN Observe(mem, agent, TRUE, "loop")
     ELSE mem' = [mem EXCEPT !.seen = "idle"] /\ Goes("loop")
  /\ list' = [says |-> "none", missed |-> Waits /\ failed /\ ~list.missed]
  /\ UNCHANGED <<world, log, stream, press, losses, ghost>>

(***************************************************************************)
(* Faults.                                                                 *)
(***************************************************************************)
\* The stream ends, or a read fails after which the session ends.
Drop ==
  /\ stream.state # "none" /\ step.record = "" /\ step.at # "deny" /\ losses < MaxLosses
  /\ stream' = Cut
  /\ Goes("loop")
  /\ losses' = losses + 1
  /\ UNCHANGED <<world, log, mem, list, press, ghost>>

\* agent.read fails: a turn end is left to the next session, a block is
\* recorded without its screen.
ReadFails ==
  /\ losses < MaxLosses /\ live
  /\ \/ /\ AtLoop /\ stream.events # <<>> /\ Head(stream.events) = "done" /\ ~Prefills
        /\ mem' = [Turned(mem, "done") EXCEPT !.seen = "done"]
        /\ stream' = Cut
        /\ Goes("loop")
     \/ /\ AtLoop /\ mem.pending /\ agent = "blocked"
        /\ mem' = [Turned(mem, "blocked") EXCEPT !.seen = "blocked"]
        /\ Records("blocked", "long")
        /\ UNCHANGED stream
  /\ losses' = losses + 1
  /\ UNCHANGED <<world, log, list, press, ghost>>

\* The watcher is killed and loses its memory and its locks.
Kill ==
  /\ losses < MaxLosses
  /\ stream' = Cut
  /\ mem' = NoMemory
  /\ Goes("loop")
  /\ list' = NoList
  /\ press' = IF press.who = "watch" THEN [who |-> "none", fresh |-> FALSE] ELSE press
  /\ losses' = losses + 1
  /\ UNCHANGED <<world, log, ghost>>

(***************************************************************************)
(* The specification.                                                      *)
(***************************************************************************)
SignalsInit ==
  /\ sort \in Sorts
  /\ live = TRUE
  /\ \/ agent = "working" /\ screen = "output" /\ busy = (sort = "opencode")
     \/ agent = "idle" /\ screen = "prompt" /\ busy = FALSE
  /\ log = [newest |-> "running", age |-> 0, start |-> 0, launched |-> TRUE, long |-> FALSE,
            done |-> FALSE, limit |-> FALSE, rested |-> FALSE]
  /\ stream = [state |-> "none", events |-> <<>>, cut |-> FALSE]
  /\ mem = NoMemory
  /\ step = [at |-> "loop", record |-> ""]
  /\ list = NoList
  /\ press = [who |-> "none", fresh |-> FALSE]
  /\ sending = FALSE
  /\ deeds = 0 /\ losses = 0
  /\ ghost = [ended |-> FALSE, asked |-> FALSE, longs |-> 0, shown |-> None, keys |-> None, rested |-> ~busy, late |-> FALSE]

Worker == TurnBegins \/ EndTurn \/ Rest \/ Ask \/ NextDialog \/ ScreenOnly \/ LaunchNote \/ End \/ \E done \in BOOLEAN : Report(done)

Operator == Send \/ NoteSent \/ Keys \/ NoteKeys

Loop == Subscribe \/ CatchUp \/ Record \/ BeginTick \/ LongTurns \/ Unblock \/ Approve \/ Deny

Loss == Drop \/ ReadFails \/ Kill \/ ListFails

SignalsNext == Worker \/ Operator \/ Tick \/ Loop \/ Handle \/ List \/ HeldTurns \/ Loss

SignalsSpec == SignalsInit /\ [][SignalsNext]_tVars

\* The board keeps the watcher running, its loop goes on, time passes, a
\* command in flight ends; the select over events, listings and ticks takes
\* each that stays ready.
SignalsFairSpec ==
  /\ SignalsSpec
  /\ WF_tVars(Loop) /\ WF_tVars(Tick) /\ WF_tVars(List)
  /\ WF_tVars(NoteSent) /\ WF_tVars(NoteKeys)
  /\ SF_tVars(Handle) /\ SF_tVars(HeldTurns) /\ SF_tVars(BeginTick)

Ages == None .. Long

Statuses == {"working", "idle", "done", "blocked"}

Kinds == {"running", "reported", "ended", "working", "long"} \cup TurnEnds \cup Inputs

Logs == [newest : Kinds, age : 0 .. Long, start : Ages, launched : BOOLEAN, long : BOOLEAN, done : BOOLEAN,
         limit : BOOLEAN, rested : BOOLEAN]

Streams == [state : {"none", "open", "following"}, events : Seq(Statuses), cut : BOOLEAN]

Memories == [seen : {"", "held", "idle?"} \cup Statuses, pending : BOOLEAN, turn : Ages, long : BOOLEAN]

LoopSteps == [at : {"loop", "long", "unblock", "approve", "deny"},
              record : {"", "nothing", "working", "quiet", "long", "denied", "blocked", "limited"}]

SignalsTypeOK ==
  /\ sort \in Sorts /\ live \in BOOLEAN /\ busy \in BOOLEAN /\ sending \in BOOLEAN
  /\ agent \in Statuses
  /\ screen \in {"output", "prompt", "limit", "dialog"}
  /\ log \in Logs
  /\ stream \in Streams /\ Len(stream.events) <= MaxQueue
  /\ mem \in Memories
  /\ step \in LoopSteps
  /\ list \in [says : {"none", "old", "busy", "rests", "failed"}, missed : BOOLEAN]
  /\ press \in [who : {"none", "keys", "watch"}, fresh : BOOLEAN]
  /\ deeds \in 0 .. MaxDeeds /\ losses \in 0 .. MaxLosses
  /\ ghost \in [ended : BOOLEAN, asked : BOOLEAN, longs : Nat, shown : Ages, keys : Ages, rested : BOOLEAN, late : BOOLEAN]

(***************************************************************************)
(* Properties.                                                             *)
(***************************************************************************)
\* An attempt that ended gets no event of the watcher, also when the reading
\* it stands on was taken while it lived; a command in flight may still note
\* what it did.
EndedSilent ==
  [][~live /\ log'.newest # log.newest => log'.newest \in {"sent", "keys"}]_tVars

\* A turn is reported as too long once, however often the stream drops, the
\* watcher starts again or the worker gets input meanwhile.  A report made
\* while changes wait unread is about the turn the loop has read of.
LongOnce == ghost.longs <= 1

\* Luvus told of the status, and the loop has not read it.
Unread(status) == \E i \in 1 .. Len(stream.events) : stream.events[i] = status

\* A turn of opencode is found ended only when the session and its
\* subagents were seen to rest, or when listings failed or a watcher died; but
\* a listing from before a turn the loop has not read of counts for it as well.
HeldKeeps ==
  [][sort = "opencode" /\ step'.record \in {"quiet", "limited"} /\ step.record = ""
     => ghost.rested \/ losses > 0 \/ Unread("working")]_tVars

\* The watcher never denies what the operator just answered by attempt keys:
\* a press of deny is at least the wait after the last press by hand.
DenyAfterKeys ==
  [][step'.record = "denied" /\ step.at = "deny" => ghost.keys = None \/ ghost.keys >= Wait]_tVars

\* No dialog stays without the label blocked, unless an input, the launch or a
\* long turn was noted, or a key pressed, after it was shown, or the launch before.
BlockedLabelled ==
  []<>~(live /\ agent = "blocked" /\ screen = "dialog" /\ log.newest # "blocked" /\ ~ghost.late)

\* No turn that ended stays unrecorded, of opencode once its session rests;
\* once a stream was cut, one whose attempt send was noted before it ended and
\* after the end of the turn before was recorded.
TurnEndTold ==
  []<>~(live /\ agent = "done" /\ ~busy /\ ghost.ended /\ (~stream.cut \/ ghost.asked))
=============================================================================
