-------------------------- MODULE FleetStore_proofs --------------------------
(***************************************************************************)
(* Proofs about FleetStore for every number of tasks, attempts, reports,   *)
(* decisions and timers.  The inductive invariant adds to the properties   *)
(* the reasons they hold: ids are handed out in order, only an active task *)
(* has a live attempt, and only an open task has something open.           *)
(***************************************************************************)
EXTENDS FleetStore, FiniteSetTheorems, TLAPS

\* A row that exists belongs to a task that was added; a row that does not is
\* blank.
RowsOwned ==
  /\ \A a \in AttemptId :
       IF attempt[a].status = "none" THEN ~attempt[a].cleaned
       ELSE attempt[a].task \in TaskId /\ task[attempt[a].task] # "none"
  /\ \A r \in ReportId : report[r].status # "none" =>
       report[r].task \in TaskId /\ task[report[r].task] # "none"

\* Attempt ids are handed out in order.
IdsInOrder ==
  \A a, b \in AttemptId : b < a /\ attempt[a].status # "none" => attempt[b].status # "none"

\* Only an active task has a live attempt, and nothing live is cleaned.
LiveOnActive ==
  \A a \in AttemptId : Live(a) => /\ task[attempt[a].task] = "active"
                                  /\ ~attempt[a].cleaned

\* Only an open task has an open decision or an armed timer.
OpenOnOpen ==
  /\ \A d \in DecisionId : decision[d].status = "open" =>
       decision[d].task \in TaskId /\ task[decision[d].task] \in Open
  /\ \A w \in TimerId : timer[w].status = "armed" /\ timer[w].task # NoTask =>
       task[timer[w].task] \in Open

OneLive ==
  \A a, b \in AttemptId : Live(a) /\ Live(b) /\ attempt[a].task = attempt[b].task => a = b

IInv ==
  /\ TypeOK
  /\ RowsOwned
  /\ IdsInOrder
  /\ LiveOnActive
  /\ OpenOnOpen
  /\ OneLive
  /\ DoneTaskIsRead
  /\ BranchKeepsTask

-----------------------------------------------------------------------------
(* Type correctness *)

\* Every operation of the store writes rows of the tables' types.
LEMMA TypeStep == TypeOK /\ [Next]_vars => TypeOK'
  <1> SUFFICES ASSUME TypeOK, [Next]_vars PROVE TypeOK'
    OBVIOUS
  <1>1. ASSUME NEW t \in TaskId,
              AddTask(t)
       PROVE  TypeOK'
    BY <1>1, IdAssumption DEF TypeOK, AddTask, TaskStatus
  <1>2. ASSUME NEW t \in TaskId, NEW to \in TaskStatus, NEW refs \in SUBSET Ref,
              Transition(t, to, refs)
       PROVE  TypeOK'
    <2>1. task' \in [TaskId -> TaskStatus] /\ delivered' \in [TaskId -> SUBSET Ref]
      BY <1>2 DEF TypeOK, Transition
    <2>2. withdrawOpen(t) \in [DecisionId -> DecisionRow]
      BY DEF TypeOK, withdrawOpen, DecisionRow
    <2>3. cancelTimers(t) \in [TimerId -> TimerRow]
      BY DEF TypeOK, cancelTimers, TimerRow
    <2> QED
      BY <1>2, <2>1, <2>2, <2>3 DEF TypeOK, Transition
  <1>3. ASSUME NEW t \in TaskId,
              NEW refs \in SUBSET Ref,
              Deliver(t, refs)
       PROVE  TypeOK'
    BY <1>3, IdAssumption DEF TypeOK, Deliver
  <1>4. ASSUME NEW t \in TaskId,
              SetPlan(t)
       PROVE  TypeOK'
    BY <1>4, IdAssumption DEF TypeOK, SetPlan
  <1>5. ASSUME NEW a \in AttemptId,
              NEW t \in TaskId,
              NEW prev \in AttemptId \cup {NoTask},
              AddAttempt(a, t, prev)
       PROVE  TypeOK'
    BY <1>5, IdAssumption DEF TypeOK, AddAttempt, NextId, cancelWaits, CanContinue, AttemptRow, AttemptStatus, TimerRow
  <1>6. ASSUME NEW a \in AttemptId,
              AttemptRunning(a)
       PROVE  TypeOK'
    BY <1>6, IdAssumption DEF TypeOK, AttemptRunning, AttemptRow, AttemptStatus
  <1>7. ASSUME NEW a \in AttemptId,
              NEW to \in AttemptStatus,
              EndAttempt(a, to)
       PROVE  TypeOK'
    BY <1>7, IdAssumption DEF TypeOK, EndAttempt, AttemptRow
  <1>8. ASSUME NEW a \in AttemptId,
              CleanAttempt(a)
       PROVE  TypeOK'
    BY <1>8, IdAssumption DEF TypeOK, CleanAttempt, AttemptRow
  <1>9. ASSUME NEW r \in ReportId,
              NEW a \in AttemptId,
              AddReport(r, a)
       PROVE  TypeOK'
    BY <1>9, IdAssumption DEF TypeOK, AddReport, ReportRow, AttemptRow
  <1>10. ASSUME NEW r \in ReportId,
              AckReport(r)
       PROVE  TypeOK'
    BY <1>10, IdAssumption DEF TypeOK, AckReport, ReportRow
  <1>11. ASSUME NEW d \in DecisionId,
              NEW t \in TaskId,
              Ask(d, t)
       PROVE  TypeOK'
    BY <1>11, IdAssumption DEF TypeOK, Ask, DecisionRow
  <1>12. ASSUME NEW d \in DecisionId,
              NEW to \in {"answered", "withdrawn"},
              closeDecision(d, to)
       PROVE  TypeOK'
    BY <1>12, IdAssumption DEF TypeOK, closeDecision, DecisionRow
  <1>13. ASSUME NEW w \in TimerId,
              NEW t \in TaskId \cup {NoTask},
              NEW waits \in BOOLEAN,
              NEW repeats \in BOOLEAN,
              AddTimer(w, t, waits, repeats)
       PROVE  TypeOK'
    BY <1>13, IdAssumption DEF TypeOK, AddTimer, TimerRow
  <1>14. ASSUME NEW due \in SUBSET TimerId,
              FireTimers(due)
       PROVE  TypeOK'
    BY <1>14, IdAssumption DEF TypeOK, FireTimers, TimerRow
  <1>15. ASSUME NEW w \in TimerId,
              CancelTimer(w)
       PROVE  TypeOK'
    BY <1>15, IdAssumption DEF TypeOK, CancelTimer, TimerRow
  <1>16. CASE UNCHANGED vars
    BY <1>16 DEF vars, TypeOK
  <1> QED
    BY <1>1, <1>2, <1>3, <1>4, <1>5, <1>6, <1>7, <1>8, <1>9, <1>10, <1>11, <1>12, <1>13,
       <1>14, <1>15, <1>16 DEF Next, TaskNext, AttemptNext, ReportNext, DecisionNext, TimerNext

\* The tables keep their types: statuses stay in their enumerations, row
\* owners are tasks, for any number of rows.
THEOREM TypeCorrect == Spec => []TypeOK
  <1>1. Init => TypeOK
    BY IdAssumption DEF Init, TypeOK, TaskStatus, AttemptRow, AttemptStatus, ReportRow,
       DecisionRow, TimerRow
  <1> QED
    BY <1>1, TypeStep, PTL DEF Spec

-----------------------------------------------------------------------------
(* The inductive invariant, one lemma per operation *)

\* The store starts with every row blank.
LEMMA InitIInv == Init => IInv
  BY IdAssumption DEF Init, IInv, TypeOK, RowsOwned, IdsInOrder, LiveOnActive, OpenOnOpen,
     OneLive, DoneTaskIsRead, BranchKeepsTask, Unread, Live, TaskStatus, AttemptRow,
     AttemptStatus, LiveStatus, ReportRow, DecisionRow, TimerRow

\* Finishing a task closes what is open on it and leaves the other tasks' alone.
LEMMA FinishClosesOpen ==
  ASSUME IInv, NEW t \in TaskId, NEW to \in TaskStatus, NEW refs \in SUBSET Ref,
         Transition(t, to, refs)
  PROVE  OpenOnOpen'
  <1>1. to \in {"active", "done", "abandoned"}
    BY DEF Transition, transitions, IInv, TypeOK
  <1>2. \A u \in TaskId : task'[u] = IF u = t THEN to ELSE task[u]
    BY DEF Transition, IInv, TypeOK
  <1>3. CASE to \in Finished
    BY <1>1, <1>2, <1>3, IdAssumption
       DEF Transition, IInv, TypeOK, OpenOnOpen, withdrawOpen, cancelTimers, DecisionRow, TimerRow
  <1>4. CASE to \notin Finished
    BY <1>1, <1>2, <1>4, IdAssumption
       DEF Transition, IInv, TypeOK, OpenOnOpen, Finished, Open, DecisionRow, TimerRow
  <1> QED
    BY <1>3, <1>4

\* The attempt that --continue names exists and has a smaller id.
LEMMA ContinuesEarlier ==
  ASSUME IInv, NEW a \in AttemptId, NEW t \in TaskId, NEW prev \in AttemptId \cup {NoTask},
         AddAttempt(a, t, prev), prev # NoTask
  PROVE  prev \in AttemptId /\ prev < a /\ attempt[prev].status # "none"
  <1>1. prev \in AttemptId /\ attempt[prev].cleaned
    BY DEF AddAttempt, CanContinue
  <1>2. attempt[prev].status # "none"
    BY <1>1 DEF IInv, RowsOwned
  <1>3. attempt[a].status = "none"
    BY DEF AddAttempt, NextId
  <1>4. a \in Nat /\ prev \in Nat /\ prev # a
    BY <1>1, <1>2, <1>3, IdAssumption
  <1>5. ~(a < prev)
    BY <1>1, <1>2, <1>3 DEF IInv, IdsInOrder
  <1>6. prev < a
    BY <1>4, <1>5
  <1> QED
    BY <1>1, <1>2, <1>6

\* A new attempt's branch is its own, or that of an attempt of the same task.
LEMMA NewBranchKeepsTask ==
  ASSUME IInv, TypeOK', NEW a \in AttemptId, NEW t \in TaskId,
         NEW prev \in AttemptId \cup {NoTask}, AddAttempt(a, t, prev)
  PROVE  BranchKeepsTask'
  <1>1. \A b \in AttemptId : b # a => attempt'[b] = attempt[b]
    BY DEF AddAttempt, IInv, TypeOK
  <1>2. attempt[a].status = "none"
    BY DEF AddAttempt, NextId
  <1>3. \A b \in AttemptId : attempt[b].status # "none" => b # a /\ attempt[b].branch # a
    BY <1>2, IdAssumption DEF IInv, BranchKeepsTask, IdsInOrder
  <1>4. CASE prev = NoTask
    <2>1. attempt'[a].branch = a
      BY <1>4 DEF AddAttempt, IInv, TypeOK
    <2> QED
      BY <1>1, <1>3, <2>1, IdAssumption DEF IInv, BranchKeepsTask
  <1>5. CASE prev # NoTask
    <2>1. prev \in AttemptId /\ prev < a /\ attempt[prev].status # "none" /\ attempt[prev].task = t
      BY ContinuesEarlier, <1>5 DEF AddAttempt, CanContinue
    <2>2. attempt'[a].branch = attempt[prev].branch /\ attempt'[a].task = t
      BY <1>5 DEF AddAttempt, IInv, TypeOK
    <2> QED
      BY <1>1, <1>3, <2>1, <2>2, IdAssumption DEF IInv, BranchKeepsTask
  <1> QED
    BY <1>4, <1>5

\* A task enters the inbox, where nothing can be live or done yet.
LEMMA AddTaskStep ==
  ASSUME IInv, TypeOK',
         NEW t \in TaskId,
         AddTask(t)
  PROVE  IInv'
  <1> USE IdAssumption DEF IInv, TypeOK, AddTask,
          AttemptRow, AttemptStatus, LiveStatus, ReportRow, DecisionRow, TimerRow
  <1>1. RowsOwned'
    BY DEF RowsOwned, Live
  <1>2. LiveOnActive'
    BY DEF LiveOnActive, Live, RowsOwned
  <1>3. OpenOnOpen'
    BY DEF OpenOnOpen, Open
  <1>4. DoneTaskIsRead'
    BY DEF DoneTaskIsRead, Unread, Live, LiveOnActive, RowsOwned
  <1> QED
        BY <1>1, <1>2, <1>3, <1>4 DEF IdsInOrder, OneLive, BranchKeepsTask, Live

\* A task that finishes has no live attempt, and its decisions and timers are
\* closed with it.
LEMMA TransitionStep ==
  ASSUME IInv, TypeOK',
         NEW t \in TaskId,
         NEW to \in TaskStatus,
         NEW refs \in SUBSET Ref,
         Transition(t, to, refs)
  PROVE  IInv'
  <1> USE IdAssumption DEF IInv, TypeOK, Transition, transitions, HasLive, withdrawOpen, cancelTimers,
          AttemptRow, AttemptStatus, LiveStatus, ReportRow, DecisionRow, TimerRow
  <1>1. RowsOwned'
    BY DEF RowsOwned, Live, Finished, Open
  <1>2. LiveOnActive'
    BY DEF LiveOnActive, Live, RowsOwned, Finished, Open
  <1>3. OpenOnOpen'
    BY FinishClosesOpen
  <1>4. DoneTaskIsRead'
    BY DEF DoneTaskIsRead, Unread, Live, LiveOnActive, RowsOwned, Finished, Open
  <1> QED
        BY <1>1, <1>2, <1>3, <1>4 DEF IdsInOrder, OneLive, BranchKeepsTask, Live

\* Recording a deliverable touches nothing else.
LEMMA DeliverStep ==
  ASSUME IInv, TypeOK',
         NEW t \in TaskId,
         NEW refs \in SUBSET Ref,
         Deliver(t, refs)
  PROVE  IInv'
  <1> USE IdAssumption DEF IInv, TypeOK, Deliver,
          AttemptRow, AttemptStatus, LiveStatus, ReportRow, DecisionRow, TimerRow
  <1> QED
        BY DEF RowsOwned, IdsInOrder, LiveOnActive, OpenOnOpen, OneLive, DoneTaskIsRead,
       BranchKeepsTask, Live, Open, Unread

\* A new plan revision touches nothing else.
LEMMA SetPlanStep ==
  ASSUME IInv, TypeOK',
         NEW t \in TaskId,
         SetPlan(t)
  PROVE  IInv'
  <1> USE IdAssumption DEF IInv, TypeOK, SetPlan,
          AttemptRow, AttemptStatus, LiveStatus, ReportRow, DecisionRow, TimerRow
  <1> QED
        BY DEF RowsOwned, IdsInOrder, LiveOnActive, OpenOnOpen, OneLive, DoneTaskIsRead,
       BranchKeepsTask, Live, Open, Unread

\* The new attempt is the task's only live one, and its branch is its own or
\* that of an earlier attempt of the task.
LEMMA AddAttemptStep ==
  ASSUME IInv, TypeOK',
         NEW a \in AttemptId,
         NEW t \in TaskId,
         NEW prev \in AttemptId \cup {NoTask},
         AddAttempt(a, t, prev)
  PROVE  IInv'
  <1> USE IdAssumption DEF IInv, TypeOK, AddAttempt, NextId, CanContinue, HasLive, cancelWaits,
          AttemptRow, AttemptStatus, LiveStatus, ReportRow, DecisionRow, TimerRow
  <1>1. RowsOwned'
    BY DEF RowsOwned, Live, Open
  <1>2. IdsInOrder'
    BY DEF IdsInOrder, Open
  <1>3. LiveOnActive'
    BY DEF LiveOnActive, Live, RowsOwned, Open
  <1>4. OpenOnOpen'
    BY DEF OpenOnOpen, Open
  <1>5. OneLive'
    BY DEF OneLive, Live, LiveOnActive, RowsOwned, Open
  <1>6. BranchKeepsTask'
    BY NewBranchKeepsTask
  <1> QED
        BY <1>1, <1>2, <1>3, <1>4, <1>5, <1>6 DEF DoneTaskIsRead, Unread, Live

\* A launching attempt was live already.
LEMMA AttemptRunningStep ==
  ASSUME IInv, TypeOK',
         NEW a \in AttemptId,
         AttemptRunning(a)
  PROVE  IInv'
  <1> USE IdAssumption DEF IInv, TypeOK, AttemptRunning,
          AttemptRow, AttemptStatus, LiveStatus, ReportRow, DecisionRow, TimerRow
  <1>1. RowsOwned'
    BY DEF RowsOwned, Live
  <1>2. IdsInOrder'
    BY DEF IdsInOrder
  <1>3. LiveOnActive'
    BY DEF LiveOnActive, Live, RowsOwned
  <1>4. OneLive'
    BY DEF OneLive, Live, LiveOnActive, RowsOwned
  <1>5. BranchKeepsTask'
    BY DEF BranchKeepsTask, RowsOwned, IdsInOrder, Live
  <1> QED
        BY <1>1, <1>2, <1>3, <1>4, <1>5 DEF OpenOnOpen, DoneTaskIsRead, Open, Unread, Live

\* An attempt that ends is one live attempt fewer.
LEMMA EndAttemptStep ==
  ASSUME IInv, TypeOK',
         NEW a \in AttemptId,
         NEW to \in AttemptStatus,
         EndAttempt(a, to)
  PROVE  IInv'
  <1> USE IdAssumption DEF IInv, TypeOK, EndAttempt, attemptEnds,
          AttemptRow, AttemptStatus, LiveStatus, ReportRow, DecisionRow, TimerRow
  <1>1. RowsOwned'
    BY DEF RowsOwned, Live
  <1>2. IdsInOrder'
    BY DEF IdsInOrder
  <1>3. LiveOnActive'
    BY DEF LiveOnActive, Live, RowsOwned
  <1>4. OneLive'
    BY DEF OneLive, Live, LiveOnActive, RowsOwned
  <1>5. BranchKeepsTask'
    BY DEF BranchKeepsTask, RowsOwned, IdsInOrder, Live
  <1> QED
        BY <1>1, <1>2, <1>3, <1>4, <1>5 DEF OpenOnOpen, DoneTaskIsRead, Open, Unread, Live

\* Only an ended attempt is cleaned.
LEMMA CleanAttemptStep ==
  ASSUME IInv, TypeOK',
         NEW a \in AttemptId,
         CleanAttempt(a)
  PROVE  IInv'
  <1> USE IdAssumption DEF IInv, TypeOK, CleanAttempt,
          AttemptRow, AttemptStatus, LiveStatus, ReportRow, DecisionRow, TimerRow
  <1>1. RowsOwned'
    BY DEF RowsOwned, Live
  <1>2. IdsInOrder'
    BY DEF IdsInOrder
  <1>3. LiveOnActive'
    BY DEF LiveOnActive, Live, RowsOwned
  <1>4. OneLive'
    BY DEF OneLive, Live, LiveOnActive, RowsOwned
  <1>5. BranchKeepsTask'
    BY DEF BranchKeepsTask, RowsOwned, IdsInOrder, Live
  <1> QED
        BY <1>1, <1>2, <1>3, <1>4, <1>5 DEF OpenOnOpen, DoneTaskIsRead, Open, Unread, Live

\* A report is filed by a running attempt, so its task is not done.
LEMMA AddReportStep ==
  ASSUME IInv, TypeOK',
         NEW r \in ReportId,
         NEW a \in AttemptId,
         AddReport(r, a)
  PROVE  IInv'
  <1> USE IdAssumption DEF IInv, TypeOK, AddReport,
          AttemptRow, AttemptStatus, LiveStatus, ReportRow, DecisionRow, TimerRow
  <1>1. RowsOwned'
    BY DEF RowsOwned, Live
  <1>2. DoneTaskIsRead'
    BY DEF DoneTaskIsRead, Unread, Live, LiveOnActive, RowsOwned
  <1>3. attempt' = attempt /\ task' = task /\ decision' = decision /\ timer' = timer
    OBVIOUS
  <1>4. IdsInOrder'
    BY <1>3 DEF IdsInOrder
  <1>5. LiveOnActive'
    BY <1>3 DEF LiveOnActive, Live
  <1>6. OpenOnOpen'
    BY <1>3 DEF OpenOnOpen, Open
  <1>7. OneLive'
    BY <1>3 DEF OneLive, Live
  <1>8. BranchKeepsTask'
    BY <1>3 DEF BranchKeepsTask
  <1> QED
    BY <1>1, <1>2, <1>4, <1>5, <1>6, <1>7, <1>8

\* Reading a report leaves fewer unread.
LEMMA AckReportStep ==
  ASSUME IInv, TypeOK',
         NEW r \in ReportId,
         AckReport(r)
  PROVE  IInv'
  <1> USE IdAssumption DEF IInv, TypeOK, AckReport,
          AttemptRow, AttemptStatus, LiveStatus, ReportRow, DecisionRow, TimerRow
  <1>1. RowsOwned'
    BY DEF RowsOwned, Live
  <1>2. DoneTaskIsRead'
    BY DEF DoneTaskIsRead, Unread, Live, LiveOnActive, RowsOwned
  <1>3. attempt' = attempt /\ task' = task /\ decision' = decision /\ timer' = timer
    OBVIOUS
  <1>4. IdsInOrder'
    BY <1>3 DEF IdsInOrder
  <1>5. LiveOnActive'
    BY <1>3 DEF LiveOnActive, Live
  <1>6. OpenOnOpen'
    BY <1>3 DEF OpenOnOpen, Open
  <1>7. OneLive'
    BY <1>3 DEF OneLive, Live
  <1>8. BranchKeepsTask'
    BY <1>3 DEF BranchKeepsTask
  <1> QED
    BY <1>1, <1>2, <1>4, <1>5, <1>6, <1>7, <1>8

\* A question is asked about an open task.
LEMMA AskStep ==
  ASSUME IInv, TypeOK',
         NEW d \in DecisionId,
         NEW t \in TaskId,
         Ask(d, t)
  PROVE  IInv'
  <1> USE IdAssumption DEF IInv, TypeOK, Ask,
          AttemptRow, AttemptStatus, LiveStatus, ReportRow, DecisionRow, TimerRow
  <1>1. OpenOnOpen'
    BY DEF OpenOnOpen, Open
  <1> QED
        BY <1>1 DEF RowsOwned, IdsInOrder, LiveOnActive, OneLive, DoneTaskIsRead,
       BranchKeepsTask, Live, Unread

\* A closed decision is one open decision fewer.
LEMMA CloseDecisionStep ==
  ASSUME IInv, TypeOK',
         NEW d \in DecisionId,
         NEW to \in {"answered", "withdrawn"},
         closeDecision(d, to)
  PROVE  IInv'
  <1> USE IdAssumption DEF IInv, TypeOK, closeDecision,
          AttemptRow, AttemptStatus, LiveStatus, ReportRow, DecisionRow, TimerRow
  <1>1. OpenOnOpen'
    BY DEF OpenOnOpen, Open
  <1> QED
        BY <1>1 DEF RowsOwned, IdsInOrder, LiveOnActive, OneLive, DoneTaskIsRead,
       BranchKeepsTask, Live, Unread

\* A timer is armed for an open task, or for none.
LEMMA AddTimerStep ==
  ASSUME IInv, TypeOK',
         NEW w \in TimerId,
         NEW t \in TaskId \cup {NoTask},
         NEW waits \in BOOLEAN,
         NEW repeats \in BOOLEAN,
         AddTimer(w, t, waits, repeats)
  PROVE  IInv'
  <1> USE IdAssumption DEF IInv, TypeOK, AddTimer,
          AttemptRow, AttemptStatus, LiveStatus, ReportRow, DecisionRow, TimerRow
  <1>1. OpenOnOpen'
    BY DEF OpenOnOpen, Open
  <1> QED
        BY <1>1 DEF RowsOwned, IdsInOrder, LiveOnActive, OneLive, DoneTaskIsRead,
       BranchKeepsTask, Live, Unread

\* Firing arms nothing.
LEMMA FireTimersStep ==
  ASSUME IInv, TypeOK',
         NEW due \in SUBSET TimerId,
         FireTimers(due)
  PROVE  IInv'
  <1> USE IdAssumption DEF IInv, TypeOK, FireTimers,
          AttemptRow, AttemptStatus, LiveStatus, ReportRow, DecisionRow, TimerRow
  <1>1. OpenOnOpen'
    BY DEF OpenOnOpen, Open, Armed
  <1> QED
        BY <1>1 DEF RowsOwned, IdsInOrder, LiveOnActive, OneLive, DoneTaskIsRead,
       BranchKeepsTask, Live, Unread

\* Cancelling arms nothing.
LEMMA CancelTimerStep ==
  ASSUME IInv, TypeOK',
         NEW w \in TimerId,
         CancelTimer(w)
  PROVE  IInv'
  <1> USE IdAssumption DEF IInv, TypeOK, CancelTimer,
          AttemptRow, AttemptStatus, LiveStatus, ReportRow, DecisionRow, TimerRow
  <1>1. OpenOnOpen'
    BY DEF OpenOnOpen, Open
  <1> QED
        BY <1>1 DEF RowsOwned, IdsInOrder, LiveOnActive, OneLive, DoneTaskIsRead,
       BranchKeepsTask, Live, Unread

LEMMA StepIInv == IInv /\ [Next]_vars => IInv'
  <1> SUFFICES ASSUME IInv, [Next]_vars PROVE IInv'
    OBVIOUS
  <1>1. TypeOK'
    BY TypeStep DEF IInv
  <1>2. CASE TaskNext
    BY <1>1, <1>2, AddTaskStep, TransitionStep, DeliverStep, SetPlanStep DEF TaskNext
  <1>3. CASE AttemptNext
    BY <1>1, <1>3, AddAttemptStep, AttemptRunningStep, EndAttemptStep, CleanAttemptStep
       DEF AttemptNext
  <1>4. CASE ReportNext
    BY <1>1, <1>4, AddReportStep, AckReportStep DEF ReportNext
  <1>5. CASE DecisionNext
    BY <1>1, <1>5, AskStep, CloseDecisionStep DEF DecisionNext
  <1>6. CASE TimerNext
    BY <1>1, <1>6, AddTimerStep, FireTimersStep, CancelTimerStep DEF TimerNext
  <1>7. CASE UNCHANGED vars
    BY <1>7 DEF vars, IInv, TypeOK, RowsOwned, IdsInOrder, LiveOnActive, OpenOnOpen, OneLive,
       DoneTaskIsRead, BranchKeepsTask, Live, Unread
  <1> QED
    BY <1>2, <1>3, <1>4, <1>5, <1>6, <1>7 DEF Next

LEMMA AlwaysIInv == Spec => []IInv
  BY InitIInv, StepIInv, PTL DEF Spec

-----------------------------------------------------------------------------
(* The properties the runs check *)

\* A finished task has no live attempt, open decision or armed timer, in a
\* fleet of any size: what closes a task (Transition) and what opens something
\* for one (AddAttempt, Ask, AddTimer) exclude each other.
THEOREM FinishedClosed == Spec => []FinishedTaskIsClosed
  <1>1. IInv => FinishedTaskIsClosed
    BY IdAssumption DEF IInv, FinishedTaskIsClosed, LiveOnActive, OpenOnOpen, RowsOwned, HasLive,
       Live, LiveStatus, Armed, Open, Finished
  <1> QED
    BY <1>1, AlwaysIInv, PTL

\* No report of a done task is ever unread, whatever its workers still do.
THEOREM DoneRead == Spec => []DoneTaskIsRead
  <1>1. IInv => DoneTaskIsRead
    BY DEF IInv
  <1> QED
    BY <1>1, AlwaysIInv, PTL

\* At most one live worker per task and per branch, along any chain of
\* attempts that continue each other.
THEOREM OneWorkerAlways == Spec => []OneWorker
  <1>1. IInv => OneWorker
    <2> SUFFICES ASSUME IInv, NEW a \in AttemptId, NEW b \in AttemptId,
                        Live(a), Live(b), a # b
                 PROVE  attempt[a].task # attempt[b].task /\ attempt[a].branch # attempt[b].branch
      BY DEF OneWorker
    <2>1. attempt[a].task # attempt[b].task
      BY DEF IInv, OneLive
    <2>2. /\ attempt[attempt[a].branch].task = attempt[a].task
          /\ attempt[attempt[b].branch].task = attempt[b].task
      BY DEF IInv, BranchKeepsTask, Live, LiveStatus
    <2> QED
      BY <2>1, <2>2
  <1> QED
    BY <1>1, AlwaysIInv, PTL

\* A branch stays with the task of the attempt it is named after.
THEOREM BranchStays == Spec => []BranchKeepsTask
  <1>1. IInv => BranchKeepsTask
    BY DEF IInv
  <1> QED
    BY <1>1, AlwaysIInv, PTL

-----------------------------------------------------------------------------
(* Timers *)

\* The cap on armed timers, and one wait per task, for any cap.
LEMMA TimersStep == TypeOK /\ TimersBounded /\ [Next]_vars => TimersBounded'
  <1> SUFFICES ASSUME TypeOK, TimersBounded, [Next]_vars PROVE TimersBounded'
    OBVIOUS
  <1>1. IsFiniteSet(Armed) /\ Cardinality(Armed) \in Nat
    BY IdAssumption, FS_Subset, FS_CardinalityType DEF Armed
  <1>2. CASE /\ Armed' \subseteq Armed
             /\ \A w \in Armed' : timer'[w].task = timer[w].task /\ timer'[w].waits = timer[w].waits
    <2>1. Cardinality(Armed') <= Cardinality(Armed)
      BY <1>1, <1>2, FS_Subset
    <2>2. IsFiniteSet(Armed') /\ Cardinality(Armed') \in Nat
      BY <1>1, <1>2, FS_Subset, FS_CardinalityType
    <2> QED
      BY <1>1, <1>2, <2>1, <2>2, IdAssumption DEF TimersBounded
  <1>3. ASSUME NEW w \in TimerId, NEW t \in TaskId \cup {NoTask},
               NEW waits \in BOOLEAN, NEW repeats \in BOOLEAN,
               AddTimer(w, t, waits, repeats)
        PROVE  TimersBounded'
    <2>1. Armed' = Armed \cup {w} /\ w \notin Armed
      BY <1>3 DEF AddTimer, Armed, NextId, TypeOK
    <2>2. Cardinality(Armed') <= MaxTimers
      <3>1. Cardinality(Armed) < MaxTimers
        BY <1>3 DEF AddTimer
      <3>2. Cardinality(Armed \cup {w}) = Cardinality(Armed) + 1
        BY <1>1, <2>1, FS_AddElement
      <3> QED
        BY <1>1, <2>1, <3>1, <3>2, IdAssumption
    <2>3. \A v \in Armed : timer'[v] = timer[v]
      BY <1>3, <2>1 DEF AddTimer, TypeOK, Armed
    <2>4. timer'[w].task = t /\ timer'[w].waits = waits
      BY <1>3 DEF AddTimer, TypeOK
    <2>5. waits => \A v \in Armed : ~(timer[v].task = t /\ timer[v].waits)
      BY <1>3 DEF AddTimer
    <2> QED
      BY <2>1, <2>2, <2>3, <2>4, <2>5 DEF TimersBounded
  <1>4. ASSUME NEW t \in TaskId, NEW to \in TaskStatus, NEW refs \in SUBSET Ref,
               Transition(t, to, refs)
        PROVE  TimersBounded'
    BY <1>2, <1>4 DEF Transition, cancelTimers, Armed, TypeOK, TimerRow
  <1>5. ASSUME NEW a \in AttemptId, NEW t \in TaskId, NEW prev \in AttemptId \cup {NoTask},
               AddAttempt(a, t, prev)
        PROVE  TimersBounded'
    BY <1>2, <1>5 DEF AddAttempt, cancelWaits, Armed, TypeOK, TimerRow
  <1>6. ASSUME NEW due \in SUBSET TimerId, FireTimers(due)
        PROVE  TimersBounded'
    BY <1>2, <1>6 DEF FireTimers, Armed, TypeOK, TimerRow
  <1>7. ASSUME NEW w \in TimerId, CancelTimer(w)
        PROVE  TimersBounded'
    BY <1>2, <1>7 DEF CancelTimer, Armed, TypeOK, TimerRow
  <1>8. CASE UNCHANGED timer
    BY <1>2, <1>8 DEF Armed
  <1> QED
    BY <1>3, <1>4, <1>5, <1>6, <1>7, <1>8
       DEF Next, TaskNext, AttemptNext, ReportNext, DecisionNext, TimerNext, AddTask, Deliver,
           SetPlan, AttemptRunning, EndAttempt, CleanAttempt, AddReport, AckReport, Ask,
           closeDecision, vars

\* However many processes arm timers, a fleet stays within its cap and a task
\* has at most one wait.
THEOREM TimersAlwaysBounded == Spec => []TimersBounded
  <1>1. Init => TimersBounded
    <2> SUFFICES ASSUME Init PROVE TimersBounded
      OBVIOUS
    <2>1. Armed = {}
      BY DEF Init, Armed
    <2> QED
      BY <2>1, FS_EmptySet, IdAssumption DEF TimersBounded
  <1> QED
    BY <1>1, TimersStep, TypeCorrect, PTL DEF Spec

\* No step that makes an attempt live leaves a wait of its task armed.
THEOREM WaitEnds == Spec => WorkerEndsWait
  <1>1. TypeOK /\ [Next]_vars =>
          [\A a \in AttemptId : ~Live(a) /\ Live(a)' =>
             \A w \in TimerId : timer'[w].status = "armed" /\ timer'[w].waits
                                => timer'[w].task # attempt'[a].task]_vars
    <2> SUFFICES ASSUME TypeOK, Next, NEW b \in AttemptId, ~Live(b), Live(b)',
                        NEW v \in TimerId, timer'[v].status = "armed", timer'[v].waits
                 PROVE  timer'[v].task # attempt'[b].task
      OBVIOUS
    <2>1. ASSUME NEW a \in AttemptId, NEW t \in TaskId, NEW prev \in AttemptId \cup {NoTask},
                 AddAttempt(a, t, prev)
          PROVE  timer'[v].task # attempt'[b].task
      BY <2>1 DEF AddAttempt, cancelWaits, Live, TypeOK, TimerRow
    <2>2. ASSUME NEW a \in AttemptId, AttemptRunning(a) PROVE FALSE
      BY <2>2 DEF AttemptRunning, Live, LiveStatus, TypeOK
    <2>3. ASSUME NEW a \in AttemptId, NEW to \in AttemptStatus, EndAttempt(a, to) PROVE FALSE
      <3>1. to \notin LiveStatus
        BY <2>3 DEF EndAttempt, attemptEnds, LiveStatus, TypeOK, AttemptRow
      <3> QED
        BY <2>3, <3>1 DEF EndAttempt, Live, TypeOK
    <2>4. ASSUME NEW a \in AttemptId, CleanAttempt(a) PROVE FALSE
      BY <2>4 DEF CleanAttempt, Live, TypeOK, AttemptRow
    <2>5. CASE UNCHANGED attempt
      BY <2>5 DEF Live
    <2> QED
      BY <2>1, <2>2, <2>3, <2>4, <2>5
         DEF Next, TaskNext, AttemptNext, ReportNext, DecisionNext, TimerNext, AddTask,
             Transition, Deliver, SetPlan, AddReport, AckReport, Ask, closeDecision, AddTimer,
             FireTimers, CancelTimer
  <1> QED
    BY <1>1, TypeCorrect, PTL DEF Spec, WorkerEndsWait

\* A row not yet used names no task.
BlankRows ==
  /\ \A d \in DecisionId : decision[d].status = "none" => decision[d].task = NoTask
  /\ \A a \in AttemptId : attempt[a].status = "none" => attempt[a].task = NoTask

LEMMA BlankStep == TypeOK /\ BlankRows /\ [Next]_vars => BlankRows'
  <1> SUFFICES ASSUME TypeOK, BlankRows, [Next]_vars PROVE BlankRows'
    OBVIOUS
  <1>1. ASSUME NEW d \in DecisionId, decision'[d].status = "none" PROVE decision'[d].task = NoTask
    <2>1. ASSUME NEW t \in TaskId, NEW to \in TaskStatus, NEW refs \in SUBSET Ref, Transition(t, to, refs)
          PROVE  decision'[d].task = NoTask
      BY <1>1, <2>1 DEF Transition, withdrawOpen, BlankRows, TypeOK, DecisionRow
    <2>2. ASSUME NEW e \in DecisionId, NEW t \in TaskId, Ask(e, t) PROVE decision'[d].task = NoTask
      BY <1>1, <2>2 DEF Ask, BlankRows, TypeOK
    <2>3. ASSUME NEW e \in DecisionId, NEW to \in {"answered", "withdrawn"}, closeDecision(e, to)
          PROVE  decision'[d].task = NoTask
      BY <1>1, <2>3 DEF closeDecision, BlankRows, TypeOK, DecisionRow
    <2>4. CASE UNCHANGED decision
      BY <1>1, <2>4 DEF BlankRows
    <2> QED
      BY <2>1, <2>2, <2>3, <2>4
         DEF Next, TaskNext, AttemptNext, ReportNext, DecisionNext, TimerNext, AddTask, Deliver, SetPlan,
             AddAttempt, AttemptRunning, EndAttempt, CleanAttempt, AddReport, AckReport, AddTimer, FireTimers,
             CancelTimer, vars
  <1>2. ASSUME NEW a \in AttemptId, attempt'[a].status = "none" PROVE attempt'[a].task = NoTask
    <2>1. ASSUME NEW b \in AttemptId, NEW t \in TaskId, NEW prev \in AttemptId \cup {NoTask}, AddAttempt(b, t, prev)
          PROVE  attempt'[a].task = NoTask
      BY <1>2, <2>1 DEF AddAttempt, BlankRows, TypeOK
    <2>2. ASSUME NEW b \in AttemptId,
                 AttemptRunning(b) \/ CleanAttempt(b) \/ \E to \in AttemptStatus : EndAttempt(b, to)
          PROVE  attempt'[a].task = NoTask
      BY <1>2, <2>2 DEF AttemptRunning, CleanAttempt, EndAttempt, attemptEnds, BlankRows, TypeOK, AttemptRow
    <2>3. CASE UNCHANGED attempt
      BY <1>2, <2>3 DEF BlankRows
    <2> QED
      BY <2>1, <2>2, <2>3
         DEF Next, TaskNext, AttemptNext, ReportNext, DecisionNext, TimerNext, AddTask, Transition, Deliver,
             SetPlan, AddReport, AckReport, Ask, closeDecision, AddTimer, FireTimers, CancelTimer, vars
  <1> QED
    BY <1>1, <1>2 DEF BlankRows

LEMMA AlwaysBlank == Spec => []BlankRows
  <1>1. Init => BlankRows
    BY DEF Init, BlankRows
  <1> QED
    BY <1>1, BlankStep, TypeCorrect, PTL DEF Spec

\* A task that is done or abandoned is never written again but for its
\* deliveries: neither late answers and late ends of attempts nor a plan or a
\* decision asked of it change what its record says.
THEOREM FinishedFinal == Spec => FinishedIsFinal
  <1>1. IInv /\ BlankRows /\ [Next]_vars =>
          [\A t \in TaskId : task[t] \in Finished =>
             /\ task'[t] = task[t]
             /\ plan'[t] = plan[t]
             /\ \A d \in DecisionId : (decision[d].task = t \/ decision'[d].task = t)
                                      => decision'[d] = decision[d]
             /\ \A a \in AttemptId : (attempt[a].task = t \/ attempt'[a].task = t)
                                     => attempt'[a].status = attempt[a].status]_vars
    <2> SUFFICES ASSUME IInv, BlankRows, Next, NEW t \in TaskId, task[t] \in Finished
                 PROVE  /\ task'[t] = task[t]
                        /\ plan'[t] = plan[t]
                        /\ \A d \in DecisionId : (decision[d].task = t \/ decision'[d].task = t)
                                                 => decision'[d] = decision[d]
                        /\ \A a \in AttemptId : (attempt[a].task = t \/ attempt'[a].task = t)
                                                => attempt'[a].status = attempt[a].status
      OBVIOUS
    <2>0. /\ TypeOK /\ t # NoTask /\ task[t] \notin Open /\ task[t] # "none" /\ task[t] # "active"
          /\ \A a \in AttemptId : Live(a) => task[attempt[a].task] = "active"
          /\ \A d \in DecisionId : decision[d].task = t => decision[d].status # "open"
      BY IdAssumption DEF IInv, LiveOnActive, OpenOnOpen, Open, Finished
    <2>1. task'[t] = task[t]
      <3>1. ASSUME NEW u \in TaskId, NEW to \in TaskStatus, NEW refs \in SUBSET Ref, Transition(u, to, refs)
            PROVE  task'[t] = task[t]
        <4>1. t # u
          BY <2>0, <3>1 DEF Transition, transitions, TypeOK, Finished
        <4> QED
          BY <2>0, <3>1, <4>1 DEF Transition, TypeOK
      <3>2. ASSUME NEW u \in TaskId, AddTask(u) PROVE task'[t] = task[t]
        BY <2>0, <3>2 DEF AddTask, TypeOK
      <3> QED
        BY <3>1, <3>2
           DEF Next, TaskNext, AttemptNext, ReportNext, DecisionNext, TimerNext, Deliver, SetPlan, AddAttempt,
               AttemptRunning, EndAttempt, CleanAttempt, AddReport, AckReport, Ask, closeDecision, AddTimer,
               FireTimers, CancelTimer
    <2>2. plan'[t] = plan[t]
      <3>1. ASSUME NEW u \in TaskId, SetPlan(u) PROVE plan'[t] = plan[t]
        BY <2>0, <3>1 DEF SetPlan, TypeOK
      <3> QED
        BY <3>1
           DEF Next, TaskNext, AttemptNext, ReportNext, DecisionNext, TimerNext, AddTask, Transition, Deliver,
               AddAttempt, AttemptRunning, EndAttempt, CleanAttempt, AddReport, AckReport, Ask, closeDecision,
               AddTimer, FireTimers, CancelTimer
    <2>3. ASSUME NEW d \in DecisionId, decision[d].task = t \/ decision'[d].task = t
          PROVE  decision'[d] = decision[d]
      <3>1. ASSUME NEW u \in TaskId, NEW to \in TaskStatus, NEW refs \in SUBSET Ref, Transition(u, to, refs)
            PROVE  decision'[d] = decision[d]
        BY <2>0, <2>3, <3>1 DEF Transition, withdrawOpen, TypeOK, DecisionRow
      <3>2. ASSUME NEW e \in DecisionId, NEW u \in TaskId, Ask(e, u) PROVE decision'[d] = decision[d]
        <4>1. u # t /\ decision[e].status = "none" /\ decision' = [decision EXCEPT ![e] = [task |-> u, status |-> "open"]]
          BY <2>0, <3>2 DEF Ask, NextId
        <4>2. decision[e].task = NoTask
          BY <4>1 DEF BlankRows
        <4> QED
          BY <2>0, <2>3, <4>1, <4>2 DEF TypeOK
      <3>3. ASSUME NEW e \in DecisionId, NEW to \in {"answered", "withdrawn"}, closeDecision(e, to)
            PROVE  decision'[d] = decision[d]
        BY <2>0, <2>3, <3>3 DEF closeDecision, TypeOK, DecisionRow
      <3> QED
        BY <3>1, <3>2, <3>3
           DEF Next, TaskNext, AttemptNext, ReportNext, DecisionNext, TimerNext, AddTask, Deliver, SetPlan,
               AddAttempt, AttemptRunning, EndAttempt, CleanAttempt, AddReport, AckReport, AddTimer, FireTimers,
               CancelTimer
    <2>4. ASSUME NEW a \in AttemptId, attempt[a].task = t \/ attempt'[a].task = t
          PROVE  attempt'[a].status = attempt[a].status
      <3>1. ASSUME NEW b \in AttemptId, NEW u \in TaskId, NEW prev \in AttemptId \cup {NoTask},
                   AddAttempt(b, u, prev)
            PROVE  attempt'[a].status = attempt[a].status
        <4>1. u # t /\ attempt[b].status = "none"
          BY <2>0, <3>1 DEF AddAttempt, NextId
        <4>2. attempt[b].task = NoTask
          BY <4>1 DEF BlankRows
        <4>3. a # b
          BY <2>0, <2>4, <3>1, <4>1, <4>2 DEF AddAttempt, TypeOK
        <4> QED
          BY <2>0, <3>1, <4>3 DEF AddAttempt, TypeOK
      <3>2. ASSUME NEW b \in AttemptId, AttemptRunning(b) \/ \E to \in AttemptStatus : EndAttempt(b, to)
            PROVE  attempt'[a].status = attempt[a].status
        <4>1. Live(b)
          BY <2>0, <3>2 DEF AttemptRunning, EndAttempt, attemptEnds, Live, LiveStatus, TypeOK, AttemptRow
        <4>2. a # b
          BY <2>0, <2>4, <3>2, <4>1 DEF AttemptRunning, EndAttempt, TypeOK, AttemptRow
        <4> QED
          BY <2>0, <3>2, <4>2 DEF AttemptRunning, EndAttempt, TypeOK
      <3>3. ASSUME NEW b \in AttemptId, CleanAttempt(b) PROVE attempt'[a].status = attempt[a].status
        BY <2>0, <3>3 DEF CleanAttempt, TypeOK, AttemptRow
      <3> QED
        BY <3>1, <3>2, <3>3
           DEF Next, TaskNext, AttemptNext, ReportNext, DecisionNext, TimerNext, AddTask, Transition, Deliver,
               SetPlan, AddReport, AckReport, Ask, closeDecision, AddTimer, FireTimers, CancelTimer
    <2> QED
      BY <2>1, <2>2, <2>3, <2>4
  <1> QED
    BY <1>1, AlwaysIInv, AlwaysBlank, PTL DEF Spec, FinishedIsFinal

\* The rows of the store agree with each other, whatever commands run and
\* however many tasks, attempts and timers there are.
THEOREM StoreSafe == Spec => []StoreSafety
  <1>1. /\ TypeOK /\ OneWorker /\ BranchKeepsTask
        /\ FinishedTaskIsClosed /\ DoneTaskIsRead /\ TimersBounded
        => StoreSafety
    BY DEF StoreSafety
  <1> QED
    BY <1>1, TypeCorrect, OneWorkerAlways, BranchStays, FinishedClosed, DoneRead,
       TimersAlwaysBounded, PTL

=============================================================================
