---------------------------- MODULE WakeDelivery ----------------------------
(***************************************************************************)
(* How the managed supervisor is launched, switched, resumed and ended,    *)
(* and how the operator's messages and the fleet's wakes reach it          *)
(* (internal/cli/supervisor.go over the supervisor tables of               *)
(* internal/state).                                                        *)
(*                                                                         *)
(* A run is one pass of a hand process (the watcher or a command) through  *)
(* the code guarded by the fleet's "supervisor" file lock.  The lock dies  *)
(* with the process, so a run holds it exactly while it is not Idle.       *)
(* Inside, every database transaction and every call to Luvus is a step of *)
(* its own: between two of them messages are queued, events are recorded,  *)
(* the agent's status changes, or the run is killed.                       *)
(*                                                                         *)
(* Luvus, the terminal server, is external: agent[s] is the terminal of    *)
(* supervisor s.  Of the event table only the kinds that wake a supervisor *)
(* are kept, so an event's id is its place among those.                    *)
(***************************************************************************)
EXTENDS Naturals, FiniteSets

CONSTANTS
  Run,        \* passes through the lock that can be under way at once
  SupId, InputId, EventId,  \* row ids
  Model,      \* what a switch changes: a model and its effort
  Commands,   \* what the operator does: "start", "stop", "harness", "resume", "switch", "force", "type"
  WakeBatch,  \* events one digest takes at most (50 in the code)
  MaxFault,   \* bound: kills, lost answers and ended agents explored
  NoSup, NoModel

ASSUME IdAssumption ==
  /\ SupId \subseteq Nat \ {0} /\ InputId \subseteq Nat \ {0} /\ EventId \subseteq Nat \ {0}
  /\ IsFiniteSet(InputId) /\ IsFiniteSet(EventId)
  /\ NoSup = 0 /\ NoModel \notin Model
  /\ WakeBatch \in Nat \ {0} /\ MaxFault \in Nat

VARIABLES
  sup,     \* supervisor rows
  input,   \* supervisor_input rows: "none", "queued" or delivered_at # ''
  event,   \* wake-kind rows of the event table: "none", "wake" or a progress report
  stale,   \* events whose attempt has since ended or been cleaned
  agent,   \* Luvus: the terminal of each supervisor and its agent's status
  late,    \* Luvus: creates whose caller gave up on the answer
  run,     \* where each run is, and its local variables
  told,    \* history: how often an input reached an agent
  shown,   \* history: how often an event was in a digest that reached an agent
  faults   \* bound: faults so far

rows == <<sup, input, event, stale>>
luvus == <<agent, late>>
history == <<told, shown>>
vars == <<rows, luvus, run, history, faults>>

-----------------------------------------------------------------------------
(* Rows, terminals and runs *)

LiveStatus == {"launching", "running"}
EndStatus  == {"exited", "interrupted", "stopped", "failed"}

\* "since" and "prev" are history: the cursor the conversation began at, and
\* the row a relaunch continues.
SupRow == [status : {"none"} \cup LiveStatus \cup EndStatus, cursor : Nat,
           model : Model \cup {NoModel}, switch : Model \cup {NoModel}, held : BOOLEAN,
           since : Nat, prev : SupId \cup {NoSup}]
NoRow == [status |-> "none", cursor |-> 0, model |-> NoModel, switch |-> NoModel,
          held |-> FALSE, since |-> 0, prev |-> NoSup]

\* "limited" is idle below a usage-limit line; "blocked" stands for every
\* status in which a supervisor takes nothing: a question, a trust screen, an
\* unknown session.
Attentive == {"idle", "limited", "working"}
Alive == Attentive \cup {"blocked"}
AgentStatus == {"none", "gone"} \cup Alive

\* at: the next call; sup: the row it is about; todo: the pending inputs as
\* read; batch and last: the digest's events and the last one it holds; cur,
\* since, model: what AddSupervisor is given; to: the status of the ended row;
\* then: what the run does after the row it is about has ended or started.
RunState ==
  [at : {"idle", "send", "mark", "wake", "prompt", "advance",
         "stop", "end", "add", "create", "started"},
   sup : SupId \cup {NoSup}, todo : SUBSET InputId, batch : SUBSET EventId,
   last : EventId \cup {0}, cur : Nat, since : Nat, model : Model \cup {NoModel},
   prev : SupId \cup {NoSup}, to : EndStatus, force : BOOLEAN,
   then : {"done", "deliver", "harness"}]
Idle == [at |-> "idle", sup |-> NoSup, todo |-> {}, batch |-> {}, last |-> 0, cur |-> 0,
         since |-> 0, model |-> NoModel, prev |-> NoSup, to |-> "exited",
         force |-> FALSE, then |-> "done"]

TypeOK ==
  /\ sup \in [SupId -> SupRow]
  /\ input \in [InputId -> {"none", "queued", "delivered"}]
  /\ event \in [EventId -> {"none", "wake", "progress"}]
  /\ stale \subseteq EventId
  /\ agent \in [SupId -> AgentStatus]
  /\ late \subseteq SupId
  /\ run \in [Run -> RunState]
  /\ told \in [InputId -> Nat]
  /\ shown \in [EventId -> Nat]
  /\ faults \in Nat

Live(s) == sup[s].status \in LiveStatus
Running(s) == sup[s].status = "running"
Pending == {i \in InputId : input[i] = "queued"}
Latest(s) ==
  sup[s].status # "none" /\ \A o \in SupId : o > s => sup[o].status = "none"
LastStarted(s) ==
  /\ sup[s].status \notin {"none", "failed"}
  /\ \A o \in SupId : o > s => sup[o].status \in {"none", "failed"}
UsedSups == {s \in SupId : sup[s].status # "none"}
UsedEvents == {e \in EventId : event[e] # "none"}
NextId(i, Id, used) == i \notin used /\ \A j \in Id : j < i <=> j \in used
LastEventSeq(n) == n \in {0} \cup UsedEvents /\ \A e \in UsedEvents : e <= n

Init ==
  /\ sup = [s \in SupId |-> NoRow]
  /\ input = [i \in InputId |-> "none"]
  /\ event = [e \in EventId |-> "none"]
  /\ stale = {}
  /\ agent = [s \in SupId |-> "none"]
  /\ late = {}
  /\ run = [p \in Run |-> Idle]
  /\ told = [i \in InputId |-> 0]
  /\ shown = [e \in EventId |-> 0]
  /\ faults = 0

LockFree == \A p \in Run : run[p].at = "idle"
Goto(p, r) == run' = [run EXCEPT ![p] = r]
At(p, step) == run[p].at = step
Fault == faults < MaxFault /\ faults' = faults + 1

-----------------------------------------------------------------------------
(* Outside the lock *)

AddSupervisorInput(i) ==
  /\ NextId(i, InputId, {j \in InputId : input[j] # "none"})
  /\ input' = [input EXCEPT ![i] = "queued"]

\* The board or "supervisor send" queues a message; the delivery that send then
\* tries takes the lock, and is a run of its own.
Send(i) ==
  /\ AddSupervisorInput(i)
  /\ UNCHANGED <<sup, event, stale, luvus, run, history, faults>>

\* A store operation records an event of a kind that wakes.
Emit(e, kind) ==
  /\ NextId(e, EventId, UsedEvents)
  /\ event' = [event EXCEPT ![e] = kind]
  /\ UNCHANGED <<sup, input, stale, luvus, run, history, faults>>

\* The attempt an event is about ends, stops or is cleaned: the event is no
\* longer worth a wake, and never again becomes so.
GoStale(e) ==
  /\ event[e] = "wake" /\ e \notin stale
  /\ stale' = stale \cup {e}
  /\ UNCHANGED <<sup, input, event, luvus, run, history, faults>>

SetSupervisorSwitch(s, m) ==
  /\ Running(s) /\ sup[s].switch = NoModel
  /\ sup' = [sup EXCEPT ![s].switch = m]

\* "supervisor switch" reads the running row and sets the switch without the
\* lock, for a model the row does not have; the transaction checks the row again.
Switch(s, m) ==
  /\ "switch" \in Commands /\ m # sup[s].model
  /\ SetSupervisorSwitch(s, m)
  /\ UNCHANGED <<input, event, stale, luvus, run, history, faults>>

\* The agent goes on with its turn, ends it, asks something or hits a limit.
\* An idle one starts a turn by itself only when the operator types into its
\* terminal.
AgentActs(s, to) ==
  /\ agent[s] \in Alive /\ to # agent[s]
  /\ agent[s] = "idle" => "type" \in Commands
  /\ agent' = [agent EXCEPT ![s] = to]
  /\ UNCHANGED <<rows, late, run, history, faults>>

\* "supervisor interrupt": Esc, pressed without the lock, ends the turn or closes
\* what the agent asks.
Interrupt(s) ==
  /\ "type" \in Commands
  /\ Running(s) /\ agent[s] \in {"working", "blocked"}
  /\ agent' = [agent EXCEPT ![s] = "idle"]
  /\ UNCHANGED <<rows, late, run, history, faults>>

\* Agents exit, or the Luvus server restarts and takes all of them.
AgentsEnd(S) ==
  /\ S # {} /\ S \subseteq {s \in SupId : agent[s] \in Alive}
  /\ Fault
  /\ agent' = [s \in SupId |-> IF s \in S THEN "gone" ELSE agent[s]]
  /\ UNCHANGED <<rows, late, run, history>>

\* Luvus carries out a create whose caller no longer waits for it.
LateCreate(s) ==
  /\ s \in late
  /\ late' = late \ {s}
  /\ agent' = [agent EXCEPT ![s] = "idle"]
  /\ UNCHANGED <<rows, run, history, faults>>

Killed(p) ==
  /\ ~At(p, "idle") /\ Fault
  /\ Goto(p, Idle)
  /\ UNCHANGED <<rows, luvus, history>>

-----------------------------------------------------------------------------
(* Delivery: deliver and force *)

\* Mutant: a message is tried only once, whether or not the try was recorded.
BugSending(s, quiet, forced) ==
  IF Pending # {} THEN [Idle EXCEPT !.at = "send", !.sup = s, !.todo = {i \in Pending : told[i] = 0}]
  ELSE IF quiet THEN [Idle EXCEPT !.at = "wake", !.sup = s, !.cur = sup[s].cursor, !.force = forced]
  ELSE Idle

\* Once the supervisor can take messages: the pending inputs are read, and
\* only a quiet supervisor with none pending goes on to the wakes.
Sending(s, quiet, forced) ==
  IF Pending # {} THEN [Idle EXCEPT !.at = "send", !.sup = s, !.todo = Pending]
  ELSE IF quiet THEN [Idle EXCEPT !.at = "wake", !.sup = s, !.cur = sup[s].cursor, !.force = forced]
  ELSE Idle

DeliverBegin(p, s) ==
  /\ LockFree /\ Running(s) /\ agent[s] \in Attentive
  /\ sup[s].switch = NoModel /\ ~sup[s].held
  /\ Goto(p, Sending(s, agent[s] # "working", FALSE))
  /\ UNCHANGED <<rows, luvus, history, faults>>

\* A pending switch waits for the turn to end and is applied before anything
\* is delivered.
ApplySwitch(p, s) ==
  /\ LockFree /\ Running(s) /\ agent[s] \in {"idle", "limited"}
  /\ sup[s].switch # NoModel
  /\ Goto(p, [Idle EXCEPT !.at = "stop", !.sup = s, !.model = sup[s].switch, !.then = "deliver"])
  /\ UNCHANGED <<rows, luvus, history, faults>>

\* force types into a Claude Code that Luvus reads as blocked; it checks
\* neither the limit line nor a pending switch.
ForceBegin(p, s) ==
  /\ "force" \in Commands
  /\ LockFree /\ Running(s) /\ agent[s] = "blocked"
  /\ Goto(p, Sending(s, TRUE, TRUE))
  /\ UNCHANGED <<rows, luvus, history, faults>>

\* Prompt, or the keys that stand in for it, for the first input on the list.
First(p, i) == i \in run[p].todo /\ \A j \in run[p].todo : i <= j

\* sendToSupervisor: an agent that takes the text begins a turn.
Prompt(s) == agent[s] \in Alive /\ agent' = [agent EXCEPT ![s] = "working"]

\* Mutant: a message the agent refused counts as sent.
BugInputTaken(p, i) ==
  LET s == run[p].sup IN
  /\ At(p, "send") /\ First(p, i)
  /\ told' = [told EXCEPT ![i] = IF agent[s] = "blocked" THEN @ ELSE @ + 1]
  /\ agent' = [agent EXCEPT ![s] = IF @ \in Alive THEN "working" ELSE @]
  /\ Goto(p, [run[p] EXCEPT !.at = "mark"])
  /\ UNCHANGED <<rows, late, shown, faults>>

InputTaken(p, i) ==
  /\ At(p, "send") /\ First(p, i) /\ Prompt(run[p].sup)
  /\ told' = [told EXCEPT ![i] = @ + 1]
  /\ Goto(p, [run[p] EXCEPT !.at = "mark"])
  /\ UNCHANGED <<rows, late, shown, faults>>

\* The message is in the agent's input, but the answer is lost: deliver
\* returns the error and records nothing.
InputUnknown(p, i) ==
  /\ At(p, "send") /\ First(p, i) /\ Prompt(run[p].sup)
  /\ Fault
  /\ told' = [told EXCEPT ![i] = @ + 1]
  /\ Goto(p, Idle)
  /\ UNCHANGED <<rows, late, shown>>

\* DeliverSupervisorInput, which refuses an input already marked, and the look
\* at the agent before the next one.
MarkInput(p, i) ==
  /\ At(p, "mark") /\ First(p, i)
  /\ input[i] = "queued"
  /\ input' = [input EXCEPT ![i] = "delivered"]
  /\ LET rest == run[p].todo \ {i}
     IN  Goto(p, IF rest = {} THEN Idle ELSE [run[p] EXCEPT !.at = "send", !.todo = rest])
  /\ UNCHANGED <<sup, event, stale, luvus, history, faults>>

\* The events after the cursor that are not stale, the first WakeBatch of them.
WakeEventsAfter(cur) ==
  LET fresh == {e \in UsedEvents \ stale : e > cur}
  IN  {e \in fresh : Cardinality({o \in fresh : o <= e}) <= WakeBatch}

\* Mutant: only a full batch wakes.
BugWakeEvents(cur) ==
  IF Cardinality(WakeEventsAfter(cur)) = WakeBatch THEN WakeEventsAfter(cur) ELSE {}

\* A full batch wakes, or one with anything but progress reports in it.
WakeEvents(cur) ==
  LET batch == WakeEventsAfter(cur)
  IN  IF Cardinality(batch) = WakeBatch \/ \E e \in batch : event[e] = "wake"
      THEN batch ELSE {}

\* Mutant: the cursor goes to the end of the batch, however much the digest holds.
BugReadWakes(p) ==
  LET batch == WakeEvents(run[p].cur) IN
  /\ At(p, "wake")
  /\ run[p].force \/ agent[run[p].sup] # "limited"
  /\ \E cut, last \in batch :
       /\ \A e \in batch : e <= last
       /\ Goto(p, [run[p] EXCEPT !.at = "prompt", !.last = last,
                                 !.batch = {e \in batch : e <= cut}])
  /\ UNCHANGED <<rows, luvus, history, faults>>

\* The digest is cut where it grows too long, after at least one event.
ReadWakes(p) ==
  /\ At(p, "wake")
  /\ run[p].force \/ agent[run[p].sup] # "limited"
  /\ \E last \in WakeEvents(run[p].cur) :
       Goto(p, [run[p] EXCEPT !.at = "prompt", !.last = last,
                              !.batch = {e \in WakeEvents(run[p].cur) : e <= last}])
  /\ UNCHANGED <<rows, luvus, history, faults>>

Show(batch) == shown' = [e \in EventId |-> IF e \in batch THEN shown[e] + 1 ELSE shown[e]]

WakeTaken(p) ==
  /\ At(p, "prompt") /\ Prompt(run[p].sup)
  /\ Show(run[p].batch)
  /\ Goto(p, [run[p] EXCEPT !.at = "advance"])
  /\ UNCHANGED <<rows, late, told, faults>>

WakeUnknown(p) ==
  /\ At(p, "prompt") /\ Prompt(run[p].sup)
  /\ Fault
  /\ Show(run[p].batch)
  /\ Goto(p, Idle)
  /\ UNCHANGED <<rows, late, told>>

\* AdvanceWakeCursor only ever moves forward.
Advance(p) ==
  /\ At(p, "advance") /\ run[p].last > sup[run[p].sup].cursor
  /\ sup' = [sup EXCEPT ![run[p].sup].cursor = run[p].last]
  /\ Goto(p, Idle)
  /\ UNCHANGED <<input, event, stale, luvus, history, faults>>

-----------------------------------------------------------------------------
(* Starting, switching, resuming and ending *)

\* supervisor start: a new conversation, told to orient itself, takes wakes
\* from the newest event on.
Start(p, m, n) ==
  /\ "start" \in Commands
  /\ LockFree /\ LastEventSeq(n)
  /\ Goto(p, [Idle EXCEPT !.at = "add", !.cur = n, !.since = n, !.model = m])
  /\ UNCHANGED <<rows, luvus, history, faults>>

\* supervisor resume, and the watcher's autoresume, which leaves a stopped
\* supervisor alone: the last one that started goes on from its own cursor,
\* with its pending switch applied.
Resume(p, s) ==
  /\ LockFree /\ LastStarted(s)
  /\ sup[s].status \in {"exited", "interrupted"} \/ ("resume" \in Commands /\ ~Live(s))
  /\ Goto(p, [Idle EXCEPT !.at = "add", !.cur = sup[s].cursor, !.since = sup[s].since, !.prev = s,
                          !.model = IF sup[s].switch = NoModel THEN sup[s].model ELSE sup[s].switch])
  /\ UNCHANGED <<rows, luvus, history, faults>>

\* supervisor switch --harness: between turns only, and to a new conversation.
SwitchHarness(p, s, m) ==
  /\ "harness" \in Commands
  /\ LockFree /\ Running(s) /\ agent[s] \in {"idle", "limited"}
  /\ Goto(p, [Idle EXCEPT !.at = "stop", !.sup = s, !.model = m, !.then = "harness"])
  /\ UNCHANGED <<rows, luvus, history, faults>>

Stop(p, s) ==
  /\ "stop" \in Commands
  /\ LockFree /\ Running(s)
  /\ Goto(p, [Idle EXCEPT !.at = "stop", !.sup = s])
  /\ UNCHANGED <<rows, luvus, history, faults>>

\* Mutant: a cancel does not take the lock.
BugCancelSwitch(s) ==
  /\ "switch" \in Commands
  /\ sup[s].switch # NoModel
  /\ Running(s) \/ (LastStarted(s) /\ ~Live(s))
  /\ sup' = [sup EXCEPT ![s].switch = NoModel]
  /\ UNCHANGED <<input, event, stale, luvus, run, history, faults>>

\* supervisor switch --cancel, of the running supervisor or else of the last
\* one that started.
CancelSwitch(s) ==
  /\ "switch" \in Commands
  /\ LockFree /\ sup[s].switch # NoModel
  /\ Running(s) \/ (LastStarted(s) /\ ~Live(s))
  /\ sup' = [sup EXCEPT ![s].switch = NoModel]
  /\ UNCHANGED <<input, event, stale, luvus, run, history, faults>>

\* stopWorker ends the agent's process and closes its terminal.
StopAgent(p) ==
  LET s == run[p].sup IN
  /\ At(p, "stop")
  /\ agent' = [agent EXCEPT ![s] = IF @ \in Alive THEN "gone" ELSE @]
  /\ Goto(p, [run[p] EXCEPT !.at = "end",
                 !.to = IF agent[s] \in Alive \/ run[p].then = "harness" THEN "stopped" ELSE "exited"])
  /\ UNCHANGED <<rows, late, history, faults>>

\* EndSupervisor; a switch of harness then starts a new conversation at the
\* newest event, a switch of model relaunches from the row it ended.
EndRow(p, n) ==
  LET s == run[p].sup IN
  /\ At(p, "end") /\ Running(s) /\ LastEventSeq(n)
  /\ sup' = [sup EXCEPT ![s].status = run[p].to]
  /\ Goto(p, CASE run[p].then = "done" -> Idle
               [] run[p].then = "deliver" ->
                    [run[p] EXCEPT !.at = "add", !.prev = s, !.cur = sup[s].cursor, !.since = sup[s].since]
               [] run[p].then = "harness" ->
                    [run[p] EXCEPT !.at = "add", !.cur = n, !.since = n, !.then = "done"])
  /\ UNCHANGED <<input, event, stale, luvus, history, faults>>

\* AddSupervisor refuses while another supervisor is launching or running.
AddSupervisor(p, s) ==
  /\ At(p, "add") /\ NextId(s, SupId, UsedSups)
  /\ \A o \in SupId : ~Live(o)
  /\ sup' = [sup EXCEPT ![s] = [NoRow EXCEPT !.status = "launching", !.cursor = run[p].cur,
                   !.since = run[p].since, !.model = run[p].model, !.prev = run[p].prev]]
  /\ Goto(p, [run[p] EXCEPT !.at = "create", !.sup = s])
  /\ UNCHANGED <<input, event, stale, luvus, history, faults>>

\* The first message is part of the launch command; a trust or setup screen may
\* come before it.
Create(p, status) ==
  /\ At(p, "create")
  /\ agent' = [agent EXCEPT ![run[p].sup] = status]
  /\ Goto(p, [run[p] EXCEPT !.at = "started"])
  /\ UNCHANGED <<rows, late, history, faults>>

CreateRefused(p) ==
  /\ At(p, "create") /\ Fault
  /\ sup' = [sup EXCEPT ![run[p].sup].status =
                IF @ = "launching" THEN "failed" ELSE @]
  /\ Goto(p, Idle)
  /\ UNCHANGED <<input, event, stale, luvus, history>>

\* closeTerminals over the supervisor's label: all agents of the fleet's
\* supervisors but those in keep.
Close(keep) ==
  agent' = [s \in SupId |-> IF s \in keep \/ agent[s] \notin Alive THEN agent[s] ELSE "gone"]

\* No answer: Luvus may carry the create out later.  The row stays launching
\* for a later settle, and the terminals there are now are closed.
CreateUnknown(p) ==
  /\ At(p, "create") /\ Fault
  /\ late' = late \cup {run[p].sup}
  /\ Close({})
  /\ Goto(p, Idle)
  /\ UNCHANGED <<rows, history>>

SupervisorRunning(s, held) ==
  /\ sup[s].status = "launching"
  /\ sup' = [sup EXCEPT ![s].status = "running", ![s].held = held]

\* A resumed opencode that did not take the resume note is held.  A model switch goes on to deliver.  A row that was ended under the
\* launch stays ended, and the agent is stopped.
Started(p, held) ==
  LET s == run[p].sup
      takes == run[p].then = "deliver" /\ ~held /\ agent[s] \in Attentive
  IN
  /\ At(p, "started") /\ (held => run[p].prev # NoSup)
  /\ \/ /\ SupervisorRunning(s, held)
        /\ Goto(p, IF takes THEN Sending(s, agent[s] # "working", FALSE) ELSE Idle)
        /\ UNCHANGED agent
     \/ /\ sup[s].status # "launching"
        /\ agent' = [agent EXCEPT ![s] = "gone"]
        /\ Goto(p, Idle)
        /\ UNCHANGED sup
  /\ UNCHANGED <<input, event, stale, late, history, faults>>

\* An error before anything was done: a supervisor that is not at its prompt,
\* a stale board generation, a binary that is gone; nothing to wake for; or a
\* transaction that finds the row changed.
GiveUp(p) ==
  /\ \/ run[p].at \in {"send", "wake", "prompt", "stop", "add"}
     \/ At(p, "mark") /\ \A i \in run[p].todo : First(p, i) => input[i] # "queued"
     \/ At(p, "advance") /\ run[p].last <= sup[run[p].sup].cursor
     \/ At(p, "end") /\ ~Running(run[p].sup)
  /\ Goto(p, Idle)
  /\ UNCHANGED <<rows, luvus, history, faults>>

\* settleSupervisor: every command and every tick of the watcher first looks
\* at the latest row.  A launch nobody finished fails once its terminals are
\* closed; a running row whose terminal is gone ends, whether or not the
\* others close; and no terminal but that of a running supervisor is left open.
SettleLaunching(s) ==
  /\ LockFree /\ Latest(s) /\ sup[s].status = "launching"
  /\ Close({})
  /\ sup' = [sup EXCEPT ![s].status = "failed"]
  /\ UNCHANGED <<input, event, stale, late, run, history, faults>>

SettleRunning(s, to) ==
  /\ LockFree /\ Latest(s) /\ Running(s) /\ agent[s] \notin Alive
  /\ Close({}) \/ UNCHANGED agent
  /\ sup' = [sup EXCEPT ![s].status = to]
  /\ UNCHANGED <<input, event, stale, late, run, history, faults>>

\* Mutant: once the row has ended nobody looks for terminals.
BugSettleStray(s) ==
  /\ LockFree /\ Latest(s)
  /\ Running(s) /\ agent[s] \in Alive
  /\ \E o \in SupId : agent[o] \in Alive /\ (o # s \/ ~Live(s))
  /\ Close(IF Live(s) THEN {s} ELSE {})
  /\ UNCHANGED <<rows, late, run, history, faults>>

SettleStray(s) ==
  /\ LockFree /\ Latest(s)
  /\ sup[s].status \in EndStatus \/ (Running(s) /\ agent[s] \in Alive)
  /\ \E o \in SupId : agent[o] \in Alive /\ (o # s \/ ~Live(s))
  /\ Close(IF Live(s) THEN {s} ELSE {})
  /\ UNCHANGED <<rows, late, run, history, faults>>

-----------------------------------------------------------------------------

Around ==
  \/ \E i \in InputId : Send(i)
  \/ \E e \in EventId : GoStale(e) \/ \E k \in {"wake", "progress"} : Emit(e, k)
  \/ \E s \in SupId, m \in Model : Switch(s, m)
  \/ \E s \in SupId : CancelSwitch(s) \/ Interrupt(s) \/ LateCreate(s) \/ \E to \in Alive : AgentActs(s, to)
  \/ \E S \in SUBSET SupId : AgentsEnd(S)

Settle ==
  \E s \in SupId : SettleLaunching(s) \/ SettleStray(s)
                  \/ \E to \in {"exited", "interrupted"} : SettleRunning(s, to)

Operate(p) ==
  \/ \E s \in SupId : ForceBegin(p, s) \/ Stop(p, s) \/ \E m \in Model : SwitchHarness(p, s, m)
  \/ \E m \in Model, n \in {0} \cup EventId : Start(p, m, n)

Watch(p) == \E s \in SupId : DeliverBegin(p, s) \/ ApplySwitch(p, s)
AutoResume(p) == \E s \in SupId : Resume(p, s)

\* The next call of a run goes well.
Proceed(p) ==
  \/ \E i \in InputId : InputTaken(p, i) \/ MarkInput(p, i)
  \/ ReadWakes(p) \/ WakeTaken(p) \/ Advance(p)
  \/ StopAgent(p) \/ \E n \in {0} \cup EventId : EndRow(p, n)
  \/ \E s \in SupId : AddSupervisor(p, s)
  \/ \E status \in {"idle", "working", "blocked"} : Create(p, status)
  \/ \E held \in BOOLEAN : Started(p, held)

\* Or it does not.
Fail(p) ==
  \/ \E i \in InputId : InputUnknown(p, i)
  \/ WakeUnknown(p) \/ CreateRefused(p) \/ CreateUnknown(p)
  \/ GiveUp(p) \/ Killed(p)

Next == Around \/ Settle \/ \E p \in Run : Operate(p) \/ Watch(p) \/ AutoResume(p) \/ Proceed(p) \/ Fail(p)

Spec == Init /\ [][Next]_vars

\* The watcher comes back on every event and every tick: it settles and tries
\* to deliver.  A run that holds the lock goes on.  Of Luvus and the agents: a
\* supervisor does not refuse every message for ever; a turn, a question and a
\* usage limit end.  Nothing is assumed of resumes: the watcher tries one only
\* when it opens its event stream, and the operator may never.
Fairness ==
  /\ SF_vars(Settle) /\ SF_vars(\E p \in Run : Watch(p))
  /\ \A p \in Run :
       /\ WF_vars(Proceed(p) \/ GiveUp(p)) /\ SF_vars(Proceed(p))
       /\ SF_vars(\E i \in InputId : InputTaken(p, i)) /\ SF_vars(WakeTaken(p))
  /\ \A s \in SupId : WF_vars(AgentActs(s, "idle"))

LiveSpec == Spec /\ Fairness
-----------------------------------------------------------------------------
(* Properties *)

\* The operator's messages reach the supervisor in the order they were sent:
\* nobody is told a message before every earlier one is recorded as delivered,
\* across switches, resumes and killed deliveries.
InputsInOrder ==
  \A i, j \in InputId : told[i] > 0 /\ j < i => input[j] = "delivered"

\* What the operator is promised (InputQueue): the queue outlives supervisors, is
\* put to them in order, and loses nothing; a message recorded as delivered did
\* reach an agent.
Queue == INSTANCE InputQueue WITH
  sent <- {i \in InputId : input[i] # "none"},
  seen <- {i \in InputId : told[i] > 0},
  done <- {i \in InputId : input[i] = "delivered"}

ImplementsQueue == Queue!Spec

\* The wake cursor never passes a wake nobody saw: every event between the one
\* a conversation began at and the cursor of any row that continues it was in
\* a digest that reached an agent, or needs no attention any more.
CursorSkipsNothing ==
  \A s \in SupId : \A e \in UsedEvents :
    sup[s].since < e /\ e <= sup[s].cursor => shown[e] > 0 \/ e \in stale

\* Nothing is told or shown twice but after a fault that lost the record of
\* the first time; the commands, the watcher and a resume do not repeat it.
RepeatsNeedFaults ==
  /\ \A i \in InputId : told[i] <= 1 + faults
  /\ \A e \in EventId : shown[e] <= 1 + faults

\* Messages and wakes: in order, none passed over, repeated only after a fault.
DeliverySafety == TypeOK /\ InputsInOrder /\ CursorSkipsNothing /\ RepeatsNeedFaults

\* A relaunched supervisor runs the model of the switch that was pending on the
\* row it continues, and the row's own model when none was or it was canceled.
SwitchCarried ==
  \A s \in SupId :
    sup[s].prev # NoSup /\ sup[s].status # "failed" =>
      LET p == sup[sup[s].prev] IN
      sup[s].model = IF p.switch = NoModel THEN p.model ELSE p.switch

\* A supervisor that may be told things has a terminal of its own: at most one
\* row is live, and a run that talks to an agent talks to the live row's.
OneConversation ==
  /\ \A s, o \in SupId : Live(s) /\ Live(o) => s = o
  /\ \A p \in Run : run[p].at \in {"send", "mark", "wake", "prompt", "advance"} => Running(run[p].sup)

\* Switches, resumes and new starts: each conversation goes on from the row it
\* continues, with its switch and its cursor, and there is one at a time.
RowSafety == CursorSkipsNothing /\ SwitchCarried /\ OneConversation

\* Someone is there for the watcher to deliver to: a supervisor is live, its
\* terminal is not gone, and it is not held for the operator.
Attended ==
  \E s \in SupId : Live(s) /\ ~sup[s].held /\ (Running(s) => agent[s] \in Alive)

\* A queued message is eventually delivered, whatever deliveries are killed or
\* lose their answer, unless the supervisor ends or is held.
InputArrives ==
  \A i \in InputId : input[i] = "queued" /\ Attended ~> input[i] = "delivered" \/ ~Attended

\* An event that wakes eventually reaches an agent, unless it no longer matters
\* or a new conversation was told to orient itself after it.
WakeArrives ==
  \A e \in EventId : event[e] = "wake" /\ Attended ~>
    \/ shown[e] > 0 \/ e \in stale \/ ~Attended
    \/ \E s \in SupId : Live(s) /\ e <= sup[s].since

\* No launch stays open: a killed launcher's row, or one whose create was never
\* answered, runs or fails in the end.
LaunchSettles ==
  \A s \in SupId : sup[s].status = "launching" ~> sup[s].status # "launching"

\* A terminal nobody owns any more, one created after its caller gave up
\* included, is closed in the end.
StraysClosed ==
  \A s \in SupId : agent[s] \in Alive /\ ~Live(s) ~> agent[s] \notin Alive
=============================================================================
