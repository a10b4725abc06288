----------------------------- MODULE FleetStore -----------------------------
(***************************************************************************)
(* The task side of a fleet's store (internal/state): tasks, the attempts  *)
(* that work on them, the reports those attempts file, the decisions asked *)
(* of the operator, the timers and the plan revisions.  Every operation of *)
(* the store runs in one IMMEDIATE SQLite transaction (Store.tx), so each  *)
(* action below is one atomic step, taken by any of the processes that     *)
(* open the database: the CLI, the watcher, the board.                     *)
(*                                                                         *)
(* A table is a function from row ids to rows; a row that does not exist   *)
(* yet has status "none", and rows are never deleted.  Text columns and    *)
(* timestamps are left out.  What an operation reads back from the event   *)
(* table is kept as state: the deliverables a task already has.            *)
(***************************************************************************)
EXTENDS Naturals, FiniteSets

CONSTANTS
  TaskId, AttemptId, ReportId, DecisionId, TimerId,  \* row ids
  Ref,         \* what a task can deliver: links and paths
  MaxTimers,   \* armed timers a fleet keeps (20 in the code)
  MaxRevision, \* bound: revisions of a plan the model explores
  NoTask       \* the task column of a timer that belongs to no task

ASSUME IdAssumption ==
  /\ TaskId \subseteq Nat /\ AttemptId \subseteq Nat /\ ReportId \subseteq Nat
  /\ DecisionId \subseteq Nat /\ TimerId \subseteq Nat
  /\ IsFiniteSet(TimerId)
  /\ NoTask \notin TaskId \cup AttemptId
  /\ MaxTimers \in Nat /\ MaxRevision \in Nat

VARIABLES
  task,       \* task.status by task
  attempt,    \* attempt rows: owner, status, branch, cleaned_at # ''
  report,     \* report rows: owner, filing attempt, acked_at # ''
  decision,   \* decision rows: owner, status
  timer,      \* timer rows: owner, waits, repeating, status
  plan,       \* MAX(plan.revision) by task
  delivered   \* details of the task.delivered events by task

vars == <<task, attempt, report, decision, timer, plan, delivered>>

-----------------------------------------------------------------------------
(* Rows *)

TaskStatus == {"none", "inbox", "active", "done", "abandoned"}
Finished   == {"done", "abandoned"}
Open       == {"inbox", "active"}

AttemptStatus == {"none", "launching", "running", "exited", "stopped", "interrupted", "failed"}
LiveStatus    == {"launching", "running"}

\* A fresh attempt's branch is named after it, a continuing one takes the
\* branch of the attempt it continues: the branch is that attempt's id.
AttemptRow  == [task : TaskId \cup {NoTask}, status : AttemptStatus,
                branch : AttemptId \cup {NoTask}, cleaned : BOOLEAN]
ReportRow   == [task : TaskId \cup {NoTask}, status : {"none", "filed"}, acked : BOOLEAN]
DecisionRow == [task : TaskId \cup {NoTask}, status : {"none", "open", "answered", "withdrawn"}]
TimerRow    == [task : TaskId \cup {NoTask}, waits : BOOLEAN, repeats : BOOLEAN,
                status : {"none", "armed", "fired", "cancelled"}]

TypeOK ==
  /\ task \in [TaskId -> TaskStatus]
  /\ attempt \in [AttemptId -> AttemptRow]
  /\ report \in [ReportId -> ReportRow]
  /\ decision \in [DecisionId -> DecisionRow]
  /\ timer \in [TimerId -> TimerRow]
  /\ plan \in [TaskId -> 0..MaxRevision]
  /\ delivered \in [TaskId -> SUBSET Ref]

\* The id the next INSERT gets: ids are handed out in order.
NextId(i, table) ==
  /\ table[i].status = "none"
  /\ \A j \in DOMAIN table : j < i => table[j].status # "none"

Live(a) == attempt[a].status \in LiveStatus
\* Mutant: an attempt that is still launching does not count.
BugHasLive(t) == \E a \in AttemptId : attempt[a].task = t /\ attempt[a].status = "running"

HasLive(t) == \E a \in AttemptId : attempt[a].task = t /\ Live(a)
Armed == {w \in TimerId : timer[w].status = "armed"}

Init ==
  /\ task = [t \in TaskId |-> "none"]
  /\ attempt = [a \in AttemptId |->
       [task |-> NoTask, status |-> "none", branch |-> NoTask, cleaned |-> FALSE]]
  /\ report = [r \in ReportId |-> [task |-> NoTask, status |-> "none", acked |-> FALSE]]
  /\ decision = [d \in DecisionId |-> [task |-> NoTask, status |-> "none"]]
  /\ timer = [w \in TimerId |->
       [task |-> NoTask, waits |-> FALSE, repeats |-> FALSE, status |-> "none"]]
  /\ plan = [t \in TaskId |-> 0]
  /\ delivered = [t \in TaskId |-> {}]

-----------------------------------------------------------------------------
(* Tasks *)

AddTask(t) ==
  /\ task[t] = "none"
  /\ \A u \in TaskId : u < t => task[u] # "none"
  /\ task' = [task EXCEPT ![t] = "inbox"]
  /\ UNCHANGED <<attempt, report, decision, timer, plan, delivered>>

transitions == [s \in TaskStatus |->
  CASE s = "inbox"  -> {"active", "abandoned"}
    [] s = "active" -> {"done", "abandoned"}
    [] OTHER        -> {}]

\* withdrawOpen and cancelTimers: what a finished task still has open is closed.
withdrawOpen(t) ==
  [d \in DecisionId |-> IF decision[d].task = t /\ decision[d].status = "open"
                        THEN [decision[d] EXCEPT !.status = "withdrawn"]
                        ELSE decision[d]]

cancelTimers(t) ==
  [w \in TimerId |-> IF timer[w].task = t /\ timer[w].status = "armed"
                     THEN [timer[w] EXCEPT !.status = "cancelled"]
                     ELSE timer[w]]

\* Mutant: the filter is inverted, so the reminders go and the wait stays.
BugCancelWaits(t) ==
  [w \in TimerId |-> IF timer[w].task = t /\ timer[w].status = "armed" /\ ~timer[w].waits
                     THEN [timer[w] EXCEPT !.status = "cancelled"]
                     ELSE timer[w]]

cancelWaits(t) ==
  [w \in TimerId |-> IF timer[w].task = t /\ timer[w].status = "armed" /\ timer[w].waits
                     THEN [timer[w] EXCEPT !.status = "cancelled"]
                     ELSE timer[w]]

Unread(t) == \E r \in ReportId : /\ report[r].task = t
                                 /\ report[r].status = "filed"
                                 /\ ~report[r].acked

Transition(t, to, refs) ==
  /\ to \in transitions[task[t]]
  /\ refs # {} => to = "done"
  /\ to \in Finished => ~HasLive(t)
  /\ to = "done" => ~Unread(t)
  /\ task' = [task EXCEPT ![t] = to]
  /\ delivered' = [delivered EXCEPT ![t] = @ \cup refs]
  /\ IF to \in Finished
     THEN decision' = withdrawOpen(t) /\ timer' = cancelTimers(t)
     ELSE UNCHANGED <<decision, timer>>
  /\ UNCHANGED <<attempt, report, plan>>

Deliver(t, refs) ==
  /\ task[t] \in {"active", "done"}
  /\ delivered' = [delivered EXCEPT ![t] = @ \cup refs]
  /\ UNCHANGED <<task, attempt, report, decision, timer, plan>>

SetPlan(t) ==
  /\ task[t] \in Open
  /\ plan[t] < MaxRevision
  /\ plan' = [plan EXCEPT ![t] = @ + 1]
  /\ UNCHANGED <<task, attempt, report, decision, timer, delivered>>

-----------------------------------------------------------------------------
(* Attempts *)

\* prev is the attempt --continue names, or NoTask.
CanContinue(t, prev) ==
  /\ attempt[prev].task = t
  /\ ~Live(prev)
  /\ attempt[prev].cleaned

AddAttempt(a, t, prev) ==
  /\ NextId(a, attempt)
  /\ task[t] = "active"
  /\ prev # NoTask => CanContinue(t, prev)
  /\ ~HasLive(t)
  /\ attempt' = [attempt EXCEPT ![a] =
       [task |-> t, status |-> "launching",
        branch |-> IF prev = NoTask THEN a ELSE attempt[prev].branch,
        cleaned |-> FALSE]]
  /\ timer' = cancelWaits(t)
  /\ UNCHANGED <<task, report, decision, plan, delivered>>

AttemptRunning(a) ==
  /\ attempt[a].status = "launching"
  /\ attempt' = [attempt EXCEPT ![a].status = "running"]
  /\ UNCHANGED <<task, report, decision, timer, plan, delivered>>

attemptEnds == [s \in AttemptStatus |->
  CASE s = "launching" -> {"failed"}
    [] s = "running"   -> {"exited", "stopped", "interrupted"}
    [] OTHER           -> {}]

EndAttempt(a, to) ==
  /\ to \in attemptEnds[attempt[a].status]
  /\ attempt' = [attempt EXCEPT ![a].status = to]
  /\ UNCHANGED <<task, report, decision, timer, plan, delivered>>

CleanAttempt(a) ==
  /\ attempt[a].status # "none"
  /\ ~Live(a)
  /\ ~attempt[a].cleaned
  /\ attempt' = [attempt EXCEPT ![a].cleaned = TRUE]
  /\ UNCHANGED <<task, report, decision, timer, plan, delivered>>

-----------------------------------------------------------------------------
(* Reports and decisions *)

AddReport(r, a) ==
  /\ NextId(r, report)
  /\ attempt[a].status = "running"
  /\ report' = [report EXCEPT ![r] =
       [task |-> attempt[a].task, status |-> "filed", acked |-> FALSE]]
  /\ UNCHANGED <<task, attempt, decision, timer, plan, delivered>>

AckReport(r) ==
  /\ report[r].status = "filed"
  /\ ~report[r].acked
  /\ report' = [report EXCEPT ![r].acked = TRUE]
  /\ UNCHANGED <<task, attempt, decision, timer, plan, delivered>>

Ask(d, t) ==
  /\ NextId(d, decision)
  /\ task[t] \in Open
  /\ decision' = [decision EXCEPT ![d] = [task |-> t, status |-> "open"]]
  /\ UNCHANGED <<task, attempt, report, timer, plan, delivered>>

\* Mutant: a late answer overwrites a decision that was already closed.
BugCloseDecision(d, to) ==
  /\ decision[d].status # "none"
  /\ decision' = [decision EXCEPT ![d].status = to]
  /\ UNCHANGED <<task, attempt, report, timer, plan, delivered>>

closeDecision(d, to) ==
  /\ decision[d].status = "open"
  /\ decision' = [decision EXCEPT ![d].status = to]
  /\ UNCHANGED <<task, attempt, report, timer, plan, delivered>>

-----------------------------------------------------------------------------
(* Timers *)

\* t is the --while task, or NoTask.
AddTimer(w, t, waits, repeats) ==
  /\ NextId(w, timer)
  /\ waits => t # NoTask /\ ~repeats
  /\ t # NoTask => task[t] \in Open
  /\ waits => ~ \E v \in Armed : timer[v].task = t /\ timer[v].waits
  /\ Cardinality(Armed) < MaxTimers
  /\ timer' = [timer EXCEPT ![w] =
       [task |-> t, waits |-> waits, repeats |-> repeats, status |-> "armed"]]
  /\ UNCHANGED <<task, attempt, report, decision, plan, delivered>>

\* Any set of armed timers may have come due since the last look; a repeating
\* timer stays armed with a later due time.
FireTimers(due) ==
  /\ due \subseteq Armed
  /\ due # {}
  /\ timer' = [w \in TimerId |-> IF w \in due /\ ~timer[w].repeats
                                 THEN [timer[w] EXCEPT !.status = "fired"]
                                 ELSE timer[w]]
  /\ UNCHANGED <<task, attempt, report, decision, plan, delivered>>

CancelTimer(w) ==
  /\ timer[w].status = "armed"
  /\ timer' = [timer EXCEPT ![w].status = "cancelled"]
  /\ UNCHANGED <<task, attempt, report, decision, plan, delivered>>

-----------------------------------------------------------------------------

TaskNext == \E t \in TaskId :
  \/ AddTask(t)
  \/ \E to \in TaskStatus, refs \in SUBSET Ref : Transition(t, to, refs)
  \/ \E refs \in SUBSET Ref \ {{}} : Deliver(t, refs)
  \/ SetPlan(t)

AttemptNext == \E a \in AttemptId :
  \/ \E t \in TaskId, prev \in AttemptId \cup {NoTask} : AddAttempt(a, t, prev)
  \/ AttemptRunning(a)
  \/ \E to \in AttemptStatus : EndAttempt(a, to)
  \/ CleanAttempt(a)

ReportNext == \E r \in ReportId :
  \/ \E a \in AttemptId : AddReport(r, a)
  \/ AckReport(r)

DecisionNext == \E d \in DecisionId :
  \/ \E t \in TaskId : Ask(d, t)
  \/ \E to \in {"answered", "withdrawn"} : closeDecision(d, to)

TimerNext ==
  \/ \E w \in TimerId, t \in TaskId \cup {NoTask}, waits, repeats \in BOOLEAN :
       AddTimer(w, t, waits, repeats)
  \/ \E due \in SUBSET TimerId : FireTimers(due)
  \/ \E w \in TimerId : CancelTimer(w)

Next == TaskNext \/ AttemptNext \/ ReportNext \/ DecisionNext \/ TimerNext

Spec == Init /\ [][Next]_vars

-----------------------------------------------------------------------------
(* Properties *)

\* A done or abandoned task has nothing left open: no live attempt, no open
\* decision and no armed timer, whatever other processes were asking,
\* launching or arming while one of them finished it.
FinishedTaskIsClosed ==
  \A t \in TaskId : task[t] \in Finished =>
    /\ ~HasLive(t)
    /\ \A d \in DecisionId : decision[d].task = t => decision[d].status # "open"
    /\ \A w \in Armed : timer[w].task # t

\* Everything a done task's workers reported was read: no report is unacked
\* when the task becomes done and none can be filed afterwards.
DoneTaskIsRead == \A t \in TaskId : task[t] = "done" => ~Unread(t)

\* One worker at a time: a task never has two live attempts, and two live
\* attempts never have the same branch, however attempts continue each other.
OneWorker ==
  \A a, b \in AttemptId :
    /\ Live(a) /\ Live(b) /\ a # b
    => attempt[a].task # attempt[b].task /\ attempt[a].branch # attempt[b].branch

\* A branch never changes task: it belongs to the attempt it is named after,
\* and every attempt on it works on that attempt's task.
BranchKeepsTask ==
  \A a \in AttemptId : attempt[a].status # "none" =>
    /\ attempt[a].branch \in AttemptId
    /\ attempt[a].branch <= a
    /\ attempt[attempt[a].branch].task = attempt[a].task
    /\ attempt[attempt[a].branch].branch = attempt[a].branch

\* A fleet never has more than MaxTimers armed, and a task waits at most once.
TimersBounded ==
  /\ Cardinality(Armed) <= MaxTimers
  /\ \A v, w \in Armed : timer[v].waits /\ timer[w].waits /\ timer[v].task = timer[w].task => v = w

\* The store's rows agree with each other, in whatever order commands change
\* them: types, one worker per task and branch, nothing open or unread on a
\* finished task, timers within their cap.
StoreSafety ==
  /\ TypeOK /\ OneWorker /\ BranchKeepsTask
  /\ FinishedTaskIsClosed /\ DoneTaskIsRead /\ TimersBounded

\* Starting a worker ends the task's wait: a step that makes an attempt of a
\* task live leaves no wait of that task armed.
WorkerEndsWait ==
  [][\A a \in AttemptId : ~Live(a) /\ Live(a)' =>
       \A w \in TimerId : timer'[w].status = "armed" /\ timer'[w].waits
                          => timer'[w].task # attempt'[a].task]_vars

\* What a finished task's record says is final: its status, its plan, its
\* decisions, and the status of its attempts never change again.
FinishedIsFinal ==
  [][\A t \in TaskId : task[t] \in Finished =>
       /\ task'[t] = task[t]
       /\ plan'[t] = plan[t]
       /\ \A d \in DecisionId : (decision[d].task = t \/ decision'[d].task = t)
                                => decision'[d] = decision[d]
       /\ \A a \in AttemptId : (attempt[a].task = t \/ attempt'[a].task = t)
                               => attempt'[a].status = attempt[a].status]_vars
=============================================================================
