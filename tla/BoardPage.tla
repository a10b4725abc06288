----------------------------- MODULE BoardPage -----------------------------
(***************************************************************************)
(* The fleet page of the board: what waits on the operator (queue.go), the *)
(* event stream that keeps open pages current (events.go), and the keys a  *)
(* page presses on a screen it shows (board/supervisor.go, the keys        *)
(* commands of cli/supervisor.go and cli/attempt_input.go).                *)
(*                                                                         *)
(* A page is what one browser shows.  Its stream reads a version, renders  *)
(* when it changed, and sends; the store and Luvus change between any two  *)
(* reads.  Every dialog has the same text, the case in which only its      *)
(* number tells it from the one before.  The conversation, the models and  *)
(* the wording are left out; so are the kept worktrees and old files of    *)
(* the queue, which are rows read like reports.                            *)
(***************************************************************************)
EXTENDS Naturals, FiniteSets

CONSTANTS
  Attempts,     \* attempts, each the latest of an active task of its own
  Asking,       \* the workers among them that ask the operator (Approve = ask)
  Pages,        \* browsers
  MaxChanges,   \* changes of the fleet
  MaxPresses,   \* key presses that were taken, per target
  MaxLost       \* streams that drop, and presses killed before they are noted

ASSUME PageAssumption == "sup" \notin Attempts /\ Asking \subseteq Attempts /\ {MaxChanges, MaxPresses, MaxLost} \subseteq Nat

Targets == {"sup"} \cup Attempts

VARIABLES
  rows,      \* the supervisor's row and the attempts' rows
  pane,      \* what Luvus reads of each: the agent's status, its dialog, the content revision
  luvus,     \* "there", "gone", with another generation or no answer, or "back"
  signal,    \* per worker, the newest event: its kind, and whether it is older than workerGrace
  away,      \* the workers whose task waits on an outside party
  open,      \* open decisions and unread reports
  pending,   \* messages wait for the supervisor
  stalled,   \* a stall was recorded and nothing since
  seq,       \* the newest event
  pressed,   \* per target, the event of the last key press
  page,      \* per page: its stream, the version last sent, what it renders and what it shows
  cmd,       \* per page: the keys command it runs
  changes, losses,
  answered   \* history: the dialogs keys were pressed on, per target

bfleet == <<rows, pane, luvus, signal, away, open, pending, stalled>>
bvars == <<bfleet, seq, pressed, page, cmd, changes, losses, answered>>

SupRows == {"none", "running", "interrupted", "stopped"}
WorkerRows == {"running", "failed", "exited", "finished"}
Kinds == {"running", "blocked", "quiet", "limited", "long"}

Gone == luvus = "gone"
RowRuns(t) == rows[t] = "running"
LiveWorkers == {w \in Attempts : RowRuns(w)}
Supervised == RowRuns("sup")

(***************************************************************************)
(* The queue.                                                              *)
(***************************************************************************)
Agent(t) == pane[t].agent

\* signals: an event whose state Luvus no longer sees is dropped; without an
\* answer it stays.
Stands(w) ==
  \/ Gone
  \/ CASE signal[w].kind = "blocked" -> Agent(w) # "working"
       [] signal[w].kind \in {"limited", "quiet"} -> Agent(w) # "working"
       [] signal[w].kind = "long" -> Agent(w) = "working"
       [] OTHER -> TRUE

\* workers: with a supervisor a block or a quiet turn is its own matter for
\* the grace, unless the worker asks the operator.
WorkerWaits ==
  {w \in LiveWorkers : /\ Stands(w) /\ signal[w].kind \in {"blocked", "quiet", "limited", "long"}
                /\ Supervised => w \in Asking \/ signal[w].kind \in {"limited", "long"} \/ signal[w].old}

Failing(w) == rows[w] \in {"failed", "exited"}
SupBlocked == Supervised /\ ~Gone /\ Agent("sup") = "blocked"

Item(kind, of) == [kind |-> kind, of |-> of]

\* queueData.  A screen is listed with what its page presses keys with: the
\* content revision, the dialog shown and the last press.
Screen(t) == [of |-> t, revision |-> pane[t].revision, dialog |-> pane[t].dialog, after |-> pressed[t], raced |-> FALSE]

Resumable == rows["sup"] = "interrupted"

Needs ==
       (IF SupBlocked THEN {Item("blocked", "sup")} ELSE {})
  \cup (IF Supervised /\ ~Gone /\ Agent("sup") = "limited" THEN {Item("limited", "sup")} ELSE {})
  \cup {Item(IF signal[w].kind = "blocked" THEN "worker" ELSE signal[w].kind, w) : w \in WorkerWaits}
  \cup {Item("failure", w) : w \in {v \in Attempts \ away : Failing(v)}}
  \cup (IF open > 0 THEN {Item("open", "sup")} ELSE {})
  \cup (IF Resumable THEN {Item("resume", "sup")} ELSE {})
  \cup (IF ~Supervised /\ ~Resumable /\ (LiveWorkers # {} \/ pending) THEN {Item("nosup", "sup")} ELSE {})
  \cup (IF Supervised /\ ~Gone /\ ~pending /\ Agent("sup") = "idle" /\ stalled THEN {Item("stalled", "sup")} ELSE {})

\* The screens the queue shows.
Screens == {t \in Targets : \/ t = "sup" /\ SupBlocked
                            \/ t \in WorkerWaits /\ signal[t].kind = "blocked" /\ ~Gone /\ pane[t].dialog > 0}

\* facts.check: the state of a task in the list.
Check(w) ==
  [of |-> w,
   state |-> IF Failing(w) /\ w \notin away THEN "failing" ELSE IF open > 0 THEN "waiting"
             ELSE IF RowRuns(w) THEN "running" ELSE IF rows[w] = "finished" THEN "passing" ELSE "idle",
   agent |-> IF RowRuns(w) /\ Stands(w) /\ signal[w].kind \in {"blocked", "quiet", "limited"}
             THEN signal[w].kind ELSE ""]

\* statusData: the word and the composer's hint.
Status ==
  IF Supervised /\ Gone THEN "unreachable"
  ELSE IF SupBlocked THEN "blocked"
  ELSE IF Supervised THEN Agent("sup") ELSE rows["sup"]

(***************************************************************************)
(* The stream of a page.                                                   *)
(***************************************************************************)
BugVersion ==
  [seq |-> 0, pending |-> pending, status |-> Status,
   revision |-> IF SupBlocked THEN pane["sup"].revision ELSE 0, workers |-> Cardinality(WorkerWaits)]

\* version: what is compared before a page is rendered.
Version ==
  [seq |-> seq, pending |-> pending, status |-> Status,
   revision |-> IF SupBlocked THEN pane["sup"].revision ELSE 0, workers |-> Cardinality(WorkerWaits)]

NoPage == [status |-> "", needs |-> {}, tasks |-> {}, screens |-> {}]
NoVersion == [seq |-> 0, pending |-> FALSE, status |-> "", revision |-> 0, workers |-> 0]
Closed == [at |-> "closed", last |-> NoVersion, first |-> TRUE, read |-> NoVersion, draft |-> NoPage, shows |-> NoPage]

PageStep(p, r) == page' = [page EXCEPT ![p] = r]
Unstirred == UNCHANGED <<bfleet, seq, pressed, cmd, changes, answered>>

\* The browser connects, the first time or again: nothing was sent yet.
Connect(p) ==
  /\ page[p].at = "closed"
  /\ PageStep(p, [page[p] EXCEPT !.at = "tick", !.first = TRUE])
  /\ Unstirred /\ UNCHANGED losses

\* events: a tick reads the version; a page that is current stays.
ReadVersion(p) ==
  /\ page[p].at = "tick"
  /\ page[p].first \/ page[p].last # Version
  /\ PageStep(p, [page[p] EXCEPT !.at = "read", !.read = Version])
  /\ Unstirred /\ UNCHANGED losses

\* facts and statusData, with the supervisor's screen.
ReadStatus(p) ==
  /\ page[p].at = "read"
  /\ PageStep(p, [page[p] EXCEPT !.at = "queue",
       !.draft = [NoPage EXCEPT !.status = Status, !.tasks = {Check(w) : w \in Attempts},
                                !.screens = {Screen(t) : t \in Screens}]])
  /\ Unstirred /\ UNCHANGED losses

\* queueData: the rest of the queue, with the last press on each screen that
\* was read; then the regions that changed are sent.
SendRegions(p) ==
  LET d == page[p].draft
      shown == {[s EXCEPT !.after = pressed[s.of], !.raced = pressed[s.of] # s.after] : s \in d.screens}
  IN
  /\ page[p].at = "queue"
  /\ PageStep(p, [page[p] EXCEPT !.at = "tick", !.first = FALSE, !.last = page[p].read, !.draft = NoPage,
                             !.shows = [d EXCEPT !.needs = Needs, !.screens = shown]])
  /\ Unstirred /\ UNCHANGED losses

\* The stream drops; the page keeps what it shows.
DropStream(p) ==
  /\ page[p].at # "closed" /\ losses < MaxLost
  /\ losses' = losses + 1
  /\ PageStep(p, [page[p] EXCEPT !.at = "closed", !.draft = NoPage])
  /\ Unstirred

(***************************************************************************)
(* Keys pressed from a page.                                               *)
(***************************************************************************)
NoCommand == [at |-> "idle", of |-> "sup", revision |-> 0, dialog |-> 0, after |-> 0, raced |-> FALSE]
BugFree(t) == \A p \in Pages : cmd[p].at \in {"idle", "asked", "note"} \/ cmd[p].of # t

\* attemptLock: from the look to the note no other command is between them.
Free(t) == \A p \in Pages : cmd[p].at \in {"idle", "asked"} \/ cmd[p].of # t
CommandAt(p, at) == cmd' = [cmd EXCEPT ![p].at = at]
Refused(p) == cmd' = [cmd EXCEPT ![p] = NoCommand]

\* press: the operator answers a screen the page shows.
Press(p) ==
  /\ cmd[p] = NoCommand
  /\ \E s \in page[p].shows.screens :
       /\ Cardinality(answered[s.of]) < MaxPresses
       /\ cmd' = [cmd EXCEPT ![p] = [at |-> "asked", of |-> s.of, revision |-> s.revision,
                                      dialog |-> s.dialog, after |-> s.after, raced |-> s.raced]]
  /\ page' = [page EXCEPT ![p].shows.screens = {}]   \* the item is marked as sent
  /\ UNCHANGED <<bfleet, seq, pressed, changes, losses, answered>>

\* The look of both keys commands: the row runs and nobody pressed since.  Keys
\* for an attempt take its lock first; keys for the supervisor take none.
PressedSince(p) ==
  LET c == cmd[p] IN
  /\ c.at = "asked" /\ (c.of \in Attempts => Free(c.of))
  /\ IF RowRuns(c.of) /\ pressed[c.of] <= c.after THEN CommandAt(p, "keys") ELSE Refused(p)
  /\ UNCHANGED <<bfleet, seq, pressed, page, changes, losses, answered>>

\* Luvus takes the keys for the screen of that revision: the agent goes on, or
\* shows the next dialog at once.
Taken(p) ==
  LET t == cmd[p].of IN
  /\ answered' = [answered EXCEPT ![t] = @ \cup {pane[t].dialog}]
  /\ \E next \in {0, pane[t].revision + 1} :
       pane' = [pane EXCEPT ![t].revision = @ + 1, ![t].dialog = next, ![t].agent = IF next = 0 THEN "working" ELSE @]
  /\ cmd' = [cmd EXCEPT ![p].at = "note", ![p].dialog = pane[t].dialog]

PressKeys(p) ==
  LET c == cmd[p] IN
  /\ c.at = "keys"
  /\ IF pane[c.of].revision = c.revision /\ ~Gone THEN Taken(p)
     ELSE /\ IF Gone THEN Refused(p) ELSE CommandAt(p, "again")
          /\ UNCHANGED <<pane, answered>>
  /\ UNCHANGED <<rows, luvus, signal, away, open, pending, stalled, seq, pressed, page, changes, losses>>

\* pressKeys: a screen that only counted down is pressed at the revision it has
\* now; the digest of another one with the same text is the same.
PressAgain(p) ==
  LET c == cmd[p] IN
  /\ c.at = "again"
  /\ IF pane[c.of].dialog > 0 /\ ~Gone
     THEN cmd' = [cmd EXCEPT ![p].at = "recheck", ![p].revision = pane[c.of].revision]
     ELSE Refused(p)
  /\ UNCHANGED <<bfleet, seq, pressed, page, changes, losses, answered>>

Recheck(p) ==
  LET c == cmd[p] IN
  /\ c.at = "recheck"
  /\ IF pane[c.of].revision = c.revision /\ ~Gone THEN Taken(p) ELSE Refused(p) /\ UNCHANGED <<pane, answered>>
  /\ UNCHANGED <<rows, luvus, signal, away, open, pending, stalled, seq, pressed, page, changes, losses>>

\* NoteSupervisor, NoteAttempt: the press is recorded, and ends a worker's block.
EmitSeq == seq' = seq + 1 /\ stalled' = FALSE

NotePress(p) ==
  LET t == cmd[p].of IN
  /\ cmd[p].at = "note"
  /\ EmitSeq
  /\ pressed' = [pressed EXCEPT ![t] = seq']
  /\ signal' = IF t \in Attempts THEN [signal EXCEPT ![t] = [kind |-> "running", old |-> FALSE]] ELSE signal
  /\ Refused(p)
  /\ UNCHANGED <<rows, pane, luvus, away, open, pending, page, changes, losses, answered>>

CommandKilled(p) ==
  /\ cmd[p].at = "note" /\ losses < MaxLost
  /\ losses' = losses + 1
  /\ Refused(p)
  /\ UNCHANGED <<bfleet, seq, pressed, page, changes, answered>>

(***************************************************************************)
(* The fleet changes.                                                      *)
(***************************************************************************)
FleetChange == changes < MaxChanges /\ changes' = changes + 1
PageUntold == UNCHANGED <<pressed, page, cmd, losses, answered>>
Silent == UNCHANGED <<seq, stalled>> /\ PageUntold

\* An agent works, rests, reaches its limit or asks; a dialog counts down.
Stir(t) ==
  /\ FleetChange
  /\ \E agent \in {"working", "idle", "limited", "blocked"} :
       /\ agent # Agent(t) \/ pane[t].dialog > 0
       /\ agent = "limited" => t = "sup"
       /\ pane' = [pane EXCEPT ![t] = [agent |-> agent, revision |-> @.revision + 1,
                                       dialog |-> IF agent # "blocked" THEN 0
                                                  ELSE IF @.dialog > 0 THEN @.dialog ELSE @.revision + 1]]
  /\ UNCHANGED <<rows, luvus, signal, away, open, pending>> /\ Silent

\* The watcher records what it saw of a worker.
Signal(w) ==
  /\ FleetChange /\ RowRuns(w)
  /\ \E kind \in Kinds \ {"running", signal[w].kind} : signal' = [signal EXCEPT ![w] = [kind |-> kind, old |-> FALSE]]
  /\ EmitSeq
  /\ UNCHANGED <<rows, pane, luvus, away, open, pending>> /\ PageUntold

\* Ten minutes pass.
Age(w) ==
  /\ FleetChange /\ ~signal[w].old /\ signal[w].kind # "running"
  /\ signal' = [signal EXCEPT ![w].old = TRUE]
  /\ UNCHANGED <<rows, pane, luvus, away, open, pending>> /\ Silent

\* A supervisor or a worker starts or ends; every change of a row is an event.
Rows(t) ==
  /\ FleetChange
  /\ \E to \in IF t = "sup" THEN SupRows \ {"none", rows[t]} ELSE WorkerRows \ {rows[t]} :
       rows' = [rows EXCEPT ![t] = to]
  /\ EmitSeq
  /\ UNCHANGED <<pane, luvus, signal, away, open, pending>> /\ PageUntold

\* A decision is asked or answered, a report filed or read, a wait armed or
\* fired; a message is queued or delivered; a stall is recorded.
RecordWork ==
  /\ FleetChange
  /\ \/ open' \in {open + 1, open - 1} \cap 0 .. 1 /\ open' # open /\ EmitSeq /\ UNCHANGED <<away, pending>>
     \/ \E w \in Attempts : away' = (away \ {w}) \cup ({w} \ away) /\ EmitSeq /\ UNCHANGED <<open, pending>>
     \/ pending' = ~pending /\ EmitSeq /\ UNCHANGED <<open, away>>
     \/ LiveWorkers = {} /\ ~stalled /\ stalled' = TRUE /\ seq' = seq + 1 /\ UNCHANGED <<open, away, pending>>
  /\ UNCHANGED <<rows, pane, luvus, signal>> /\ PageUntold

ServerRestart ==
  /\ FleetChange /\ luvus' = IF Gone THEN "back" ELSE "gone"
  /\ UNCHANGED <<rows, pane, signal, away, open, pending>> /\ Silent

PageInit ==
  /\ rows \in [Targets -> {"running"}]
  /\ pane = [t \in Targets |-> [agent |-> "working", dialog |-> 0, revision |-> 0]]
  /\ luvus = "there" /\ signal = [w \in Attempts |-> [kind |-> "running", old |-> FALSE]]
  /\ away = {} /\ open = 0 /\ pending = FALSE /\ stalled = FALSE /\ seq = 0
  /\ pressed = [t \in Targets |-> 0]
  /\ page = [p \in Pages |-> Closed] /\ cmd = [p \in Pages |-> NoCommand]
  /\ changes = 0 /\ losses = 0 /\ answered = [t \in Targets |-> {}]

Stream(p) == Connect(p) \/ ReadVersion(p) \/ ReadStatus(p) \/ SendRegions(p)
Command(p) == PressedSince(p) \/ PressKeys(p) \/ PressAgain(p) \/ Recheck(p) \/ NotePress(p)

PageNext ==
  \/ \E p \in Pages : Stream(p) \/ DropStream(p) \/ Press(p) \/ Command(p) \/ CommandKilled(p)
  \/ \E t \in Targets : Stir(t) \/ Rows(t)
  \/ \E w \in Attempts : Signal(w) \/ Age(w)
  \/ RecordWork \/ ServerRestart

PageSpec == PageInit /\ [][PageNext]_bvars
PageFairness == \A p \in Pages : WF_bvars(Stream(p)) /\ WF_bvars(Command(p))

\* Every variable has its type, and no screen was pressed after the newest event.
PageTypeOK ==
  /\ rows["sup"] \in SupRows /\ \A w \in Attempts : rows[w] \in WorkerRows /\ signal[w].kind \in Kinds
  /\ \A t \in Targets : pane[t].agent \in {"working", "idle", "limited", "blocked"} /\ pressed[t] \in 0 .. seq
  /\ \A p \in Pages : /\ page[p].at \in {"closed", "tick", "read", "queue"}
                      /\ cmd[p].at \in {"idle", "asked", "keys", "again", "recheck", "note"}

\* An open page ends up with what the store says waits on the operator and
\* with the state of each task, whatever changed while the page was rendered or cut off; and with the
\* supervisor's dialog when there is one, if Luvus answered all along.
Stored(items) == {i \in items : i.kind \in {"failure", "open", "resume", "nosup"}}

Complete(p) ==
  /\ Stored(page[p].shows.needs) = Stored(Needs)
  /\ \A w \in Attempts : \E task \in page[p].shows.tasks : task.of = w /\ task.state = Check(w).state
  /\ SupBlocked /\ luvus = "there" => Item("blocked", "sup") \in page[p].shows.needs

PageComplete == \A p \in Pages : <>[]Complete(p)

\* The keys of a page that were taken.
Lands(p, t) == cmd[p].of = t /\ cmd[p].at \in {"keys", "recheck"} /\ cmd'[p].at = "note"

\* Looks(p, t): the command of p passes its look.  Noted: the dialogs whose press
\* was recorded; one at "note" has pressed and not recorded yet.
Looks(p, t) == cmd[p].of = t /\ cmd[p].at = "asked" /\ cmd'[p].at = "keys"
Noted(t) == answered[t] \ {cmd[p].dialog : p \in {q \in Pages : cmd[q].of = t /\ cmd[q].at = "note"}}

\* The flag --after, with pages that press at the same time.  A press is refused
\* once the press that answered its dialog is recorded, also when the next dialog
\* has the same text.  On an attempt it lands on the dialog its page showed, or on
\* one that took its place without a press, never after another page's answer;
\* on the supervisor, where no lock holds the second press back, it may land
\* while the first one is not recorded yet.  Not for a page read while the shown
\* dialog was being answered, nor after a press that died before it was noted.
AnswersOnce ==
  [][\A p \in Pages, t \in Targets :
       ~cmd[p].raced /\ losses = 0 =>
         /\ Looks(p, t) => cmd[p].dialog \notin Noted(t)
         /\ Lands(p, t) /\ t \in Attempts => pane[t].dialog = cmd[p].dialog \/ cmd[p].dialog \notin answered[t]]_bvars

\* What the flag's text says (cli/supervisor.go): "seq of the last key press
\* the screen showed; refuses when someone pressed since".
OneAnswer ==
  [][\A p \in Pages, t \in Targets :
       Lands(p, t) /\ losses = 0 => pane[t].dialog = cmd[p].dialog \/ cmd[p].dialog \notin answered[t]]_bvars
=============================================================================
