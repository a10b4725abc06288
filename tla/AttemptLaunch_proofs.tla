------------------------ MODULE AttemptLaunch_proofs ------------------------
(***************************************************************************)
(* Proofs about AttemptLaunch for every number of attempts, terminals,     *)
(* operations and faults: its types; that a running attempt keeps its      *)
(* worktree and branch; that what it does to the rows is what FleetStore   *)
(* allows; that two workers never run in one worktree, no uncommitted file *)
(* is destroyed unasked, and no worker and no worktree is left behind but  *)
(* after a fault or a launch that was too slow; and that no branch is      *)
(* deleted with commits that no remote has, but by such a launch.          *)
(***************************************************************************)
EXTENDS AttemptLaunch, TLAPS, FiniteSetTheorems

-----------------------------------------------------------------------------
(* Type correctness *)

\* An attempt that was started has a branch, its own unless it continues
\* another; only such an attempt has a
\* launcher or a worktree; an operation under way is about an attempt that was
\* started.
Placed ==
  /\ \A a \in AttemptId :
       /\ row[a].status = "none" <=> launch[a] = "none"
       /\ row[a].status # "none" =>
            row[a].branch \in AttemptId /\ (~row[a].continues => row[a].branch = a)
       /\ tree[a].there => row[a].status # "none"
  /\ \A p \in Proc : op[p].at # "idle" => op[p].a \in AttemptId /\ row[op[p].a].status # "none"
  /\ \A k \in TermId : Alive(k) => term[k].of \in AttemptId

\* The records an operation goes on with are operations' records.
LEMMA OpTypes ==
  ASSUME NEW r \in OpState
  PROVE  /\ Idle \in OpState
         /\ \A step \in {"idle", "close", "kill", "pane", "repoint", "end", "look", "evict", "remove", "mark"} :
              [r EXCEPT !.at = step] \in OpState
         /\ \A to \in EndStatus : [r EXCEPT !.at = "end", !.to = to] \in OpState
         /\ \A k \in TermId : [r EXCEPT !.at = "repoint", !.term = k] \in OpState
         /\ \A a \in AttemptId, to \in EndStatus :
              [Idle EXCEPT !.at = "close", !.a = a, !.lock = TRUE, !.to = to] \in OpState
         /\ \A a \in AttemptId :
              /\ [Idle EXCEPT !.at = "kill", !.a = a, !.lock = TRUE] \in OpState
              /\ [Idle EXCEPT !.at = "pane", !.a = a, !.lock = TRUE] \in OpState
              /\ [Idle EXCEPT !.at = "look", !.a = a, !.lock = TRUE] \in OpState
              /\ \A discard \in BOOLEAN :
                   [Idle EXCEPT !.at = "look", !.a = a, !.discard = discard, !.evict = TRUE] \in OpState
  BY ZenonT(40) DEF OpState, Idle, EndStatus

\* The rows, worktrees and terminals a step writes are of their types.
LEMMA RowTypes ==
  ASSUME NEW r \in Row
  PROVE  /\ \A s \in LiveStatus \cup EndStatus : [r EXCEPT !.status = s] \in Row
         /\ \A k \in TermId : [r EXCEPT !.term = k] \in Row /\ [r EXCEPT !.status = "running", !.term = k] \in Row
         /\ [r EXCEPT !.over = TRUE] \in Row
         /\ [r EXCEPT !.cleaned = TRUE] \in Row
         /\ \A b \in AttemptId, c \in BOOLEAN :
              [NoRow EXCEPT !.status = "launching", !.continues = c, !.branch = b] \in Row
  BY DEF Row, NoRow, LiveStatus, EndStatus

\* A step of an operation, an ended row and killed terminals keep their types.
LEMMA IdleOp == Idle \in OpState
  BY DEF OpState, Idle, EndStatus

\* A row of an attempt that was not started is a row.
LEMMA RowBlank == NoRow \in Row
  BY DEF Row, NoRow

\* Going on with an operation's record keeps op's type.
LEMMA GotoType ==
  ASSUME op \in [Proc -> OpState], NEW p \in Proc, NEW r \in OpState, Goto(p, r)
  PROVE  op' \in [Proc -> OpState]
  BY DEF Goto

\* So does going on to the next step.
LEMMA ThenType ==
  ASSUME op \in [Proc -> OpState], NEW p \in Proc,
         NEW step \in {"idle", "close", "kill", "pane", "repoint", "end", "look", "evict", "remove", "mark"},
         Then(p, step)
  PROVE  op' \in [Proc -> OpState]
  BY OpTypes, GotoType DEF Then

\* Killing workers keeps the terminals' type.
LEMMA KillType ==
  ASSUME term \in [TermId -> TermState], NEW K, Kill(K)
  PROVE  term' \in [TermId -> TermState]
  BY DEF Kill, TermState

\* Ending a row, or refusing to, keeps the rows' type.
LEMMA EndType ==
  ASSUME row \in [AttemptId -> Row], NEW a, NEW to \in EndStatus, EndRow(a, to)
  PROVE  row' \in [AttemptId -> Row]
  BY RowTypes DEF EndRow

-----------------------------------------------------------------------------
(* Type correctness *)

\* Every launcher step, operation and move of Luvus or a worker keeps the types.
LEMMA TypeStep == TypeOK /\ Placed /\ [Next]_vars => TypeOK'
  <1> SUFFICES ASSUME TypeOK, Placed, [Next]_vars PROVE TypeOK'
    OBVIOUS
  <1> USE IdAssumption DEF TypeOK
  <1>1. ASSUME NEW a \in AttemptId, NEW prev \in AttemptId \cup {NoAttempt}, Start(a, prev) PROVE TypeOK'
    <2>1. row' \in [AttemptId -> Row]
      BY <1>1, RowTypes, RowBlank DEF Start, Placed, Ended, EndStatus
    <2>2. launch' \in [AttemptId -> LaunchStep]
      BY <1>1 DEF Start, Step, LaunchStep
    <2> QED
      BY <1>1, <2>1, <2>2 DEF Start, git, luvus
  <1>2. ASSUME NEW a \in AttemptId, Add(a) PROVE TypeOK'
    <2>1. tree' \in [AttemptId -> Tree]
      BY <1>2 DEF Add, NewTree, NoTree, Tree
    <2>2. branches' \subseteq AttemptId
      BY <1>2 DEF Add, Step, Placed
    <2>3. launch' \in [AttemptId -> LaunchStep]
      BY <1>2 DEF Add, Step, LaunchStep
    <2> QED
      BY <1>2, <2>1, <2>2, <2>3 DEF Add, git, luvus
  <1>3. ASSUME NEW a \in AttemptId, AddFails(a) PROVE TypeOK'
    <2>1. launch' \in [AttemptId -> LaunchStep]
      BY <1>3 DEF AddFails, Step, LaunchStep
    <2> QED
      BY <1>3, <2>1 DEF AddFails, Fault, git, luvus
  <1>4. ASSUME NEW a \in AttemptId, NEW k \in TermId, Create(a, k) PROVE TypeOK'
    <2>1. launch' \in [AttemptId -> LaunchStep]
      BY <1>4 DEF Create, Step, LaunchStep
    <2>2. term' \in [TermId -> TermState]
      BY <1>4 DEF Create, Open, TermState
    <2> QED
      BY <1>4, <2>1, <2>2 DEF Create, git, luvus
  <1>5. ASSUME NEW a \in AttemptId, CreateRefused(a) PROVE TypeOK'
    <2>1. launch' \in [AttemptId -> LaunchStep]
      BY <1>5 DEF CreateRefused, Step, LaunchStep
    <2> QED
      BY <1>5, <2>1 DEF CreateRefused, Fault, git, luvus
  <1>6. ASSUME NEW a \in AttemptId, CreateUnknown(a) PROVE TypeOK'
    <2>1. launch' \in [AttemptId -> LaunchStep]
      BY <1>6 DEF CreateUnknown, Step, LaunchStep
    <2>2. term' \in [TermId -> TermState]
      BY <1>6 DEF CreateUnknown, Open, TermState
    <2>3. late' \subseteq AttemptId
      BY <1>6 DEF CreateUnknown
    <2> QED
      BY <1>6, <2>1, <2>2, <2>3 DEF CreateUnknown, Fault, git, luvus
  <1>7. ASSUME NEW a \in AttemptId, Record(a) PROVE TypeOK'
    <2>1. launch' \in [AttemptId -> LaunchStep]
      BY <1>7 DEF Record, Step, LaunchStep
    <2>2. row' \in [AttemptId -> Row]
      <3>1. CASE row[a].status = "launching"
        <4>1. PICK k \in TermId : row' = [row EXCEPT ![a].status = "running", ![a].term = k]
          BY <1>7, <3>1 DEF Record
        <4>2. [row[a] EXCEPT !.status = "running", !.term = k] \in Row
          BY RowTypes
        <4>3. \A b \in AttemptId : row'[b] = IF b = a THEN [row[a] EXCEPT !.status = "running", !.term = k] ELSE row[b]
          BY <4>1 DEF Row
        <4> QED
          BY <4>1, <4>2, <4>3
      <3>2. CASE row[a].status # "launching"
        BY <1>7, <3>2 DEF Record
      <3> QED
        BY <3>1, <3>2
    <2> QED
      BY <1>7, <2>1, <2>2 DEF Record, git, luvus
  <1>8. ASSUME NEW a \in AttemptId, StopOwn(a) PROVE TypeOK'
    <2>1. launch' \in [AttemptId -> LaunchStep]
      BY <1>8 DEF StopOwn, Step, LaunchStep
    <2>2. term' \in [TermId -> TermState]
      BY <1>8, KillType DEF StopOwn
    <2> QED
      BY <1>8, <2>1, <2>2 DEF StopOwn, git, luvus
  <1>9. ASSUME NEW a \in AttemptId, CloseUnknown(a) PROVE TypeOK'
    <2>1. launch' \in [AttemptId -> LaunchStep]
      BY <1>9 DEF CloseUnknown, Step, LaunchStep
    <2>2. term' \in [TermId -> TermState]
      BY <1>9, KillType DEF CloseUnknown
    <2> QED
      BY <1>9, <2>1, <2>2 DEF CloseUnknown, git, luvus
  <1>10. ASSUME NEW a \in AttemptId, Discard(a) PROVE TypeOK'
    <2>1. launch' \in [AttemptId -> LaunchStep]
      BY <1>10 DEF Discard, Step, LaunchStep
    <2>2. tree' \in [AttemptId -> Tree]
      BY <1>10 DEF Discard, NoTree, Tree
    <2>3. lost' \subseteq {"edits", "commits"}
      BY <1>10 DEF Discard, Loss
    <2> QED
      BY <1>10, <2>1, <2>2, <2>3 DEF Discard, git, luvus
  <1>11. ASSUME NEW a \in AttemptId, DropBranch(a) PROVE TypeOK'
    <2>1. launch' \in [AttemptId -> LaunchStep]
      BY <1>11 DEF DropBranch, Step, LaunchStep
    <2>2. branches' \subseteq AttemptId
      BY <1>11 DEF DropBranch
    <2> QED
      BY <1>11, <2>1, <2>2 DEF DropBranch, git, luvus
  <1>12. ASSUME NEW a \in AttemptId, Fail(a) PROVE TypeOK'
    <2>1. launch' \in [AttemptId -> LaunchStep]
      BY <1>12 DEF Fail, Step, LaunchStep
    <2>2. row' \in [AttemptId -> Row]
      BY <1>12, EndType DEF Fail, EndStatus
    <2> QED
      BY <1>12, <2>1, <2>2 DEF Fail, git, luvus
  <1>13. ASSUME NEW a \in AttemptId, LauncherDies(a) PROVE TypeOK'
    <2>1. launch' \in [AttemptId -> LaunchStep]
      BY <1>13 DEF LauncherDies, LaunchStep
    <2>2. late' \subseteq AttemptId
      BY <1>13 DEF LauncherDies
    <2> QED
      BY <1>13, <2>1, <2>2 DEF LauncherDies, Fault, git, luvus
  <1>14. ASSUME NEW a \in AttemptId, GracePasses(a) PROVE TypeOK'
    <2>1. row' \in [AttemptId -> Row]
      BY <1>14, RowTypes DEF GracePasses
    <2> QED
      BY <1>14, <2>1 DEF GracePasses, git, luvus
  <1>15. ASSUME NEW p \in Proc, NEW a \in AttemptId, Settle(p, a) PROVE TypeOK'
    <2>1. \A to \in observeTerminal(a) : to \in EndStatus
      BY <1>15 DEF observeTerminal, EndStatus
    <2>2. op' \in [Proc -> OpState]
      BY <1>15, <2>1, IdleOp, OpTypes, GotoType DEF Settle
    <2> QED
      BY <1>15, <2>1, <2>2 DEF Settle, git, luvus
  <1>16. ASSUME NEW p \in Proc, SettleClose(p) PROVE TypeOK'
    <2> op[p] \in OpState
      OBVIOUS
    <2>1. term' \in [TermId -> TermState]
      BY <1>16, KillType DEF SettleClose
    <2>2. op' \in [Proc -> OpState]
      BY <1>16, ThenType DEF SettleClose
    <2> QED
      BY <1>16, <2>1, <2>2 DEF SettleClose, git, luvus
  <1>17. ASSUME NEW p \in Proc, End(p) PROVE TypeOK'
    <2> op[p] \in OpState
      OBVIOUS
    <2>1. row' \in [AttemptId -> Row]
      BY <1>17, EndType DEF End, OpState
    <2>2. op' \in [Proc -> OpState]
      BY <1>17, IdleOp, GotoType DEF End
    <2> QED
      BY <1>17, <2>1, <2>2 DEF End, git, luvus
  <1>18. ASSUME NEW p \in Proc, NEW a \in AttemptId, Stop(p, a) PROVE TypeOK'
    <2>1. op' \in [Proc -> OpState]
      BY <1>18, IdleOp, OpTypes, GotoType DEF Stop
    <2> QED
      BY <1>18, <2>1 DEF Stop, git, luvus
  <1>19. ASSUME NEW p \in Proc, StopKill(p) PROVE TypeOK'
    <2> op[p] \in OpState
      OBVIOUS
    <2>1. term' \in [TermId -> TermState]
      BY <1>19, KillType DEF StopKill
    <2>2. op' \in [Proc -> OpState]
      BY <1>19, OpTypes, GotoType DEF StopKill, EndStatus
    <2> QED
      BY <1>19, <2>1, <2>2 DEF StopKill, git, luvus
  <1>20. ASSUME NEW p \in Proc, NEW a \in AttemptId, Switch(p, a) PROVE TypeOK'
    <2>1. term' \in [TermId -> TermState]
      BY <1>20, KillType DEF Switch
    <2>2. op' \in [Proc -> OpState]
      BY <1>20, IdleOp, OpTypes, GotoType DEF Switch
    <2> QED
      BY <1>20, <2>1, <2>2 DEF Switch, git, luvus
  <1>21. ASSUME NEW p \in Proc, NEW k \in TermId, Pane(p, k) PROVE TypeOK'
    <2> op[p] \in OpState
      OBVIOUS
    <2>1. term' \in [TermId -> TermState]
      BY <1>21 DEF Pane, Open, TermState, Placed
    <2>2. op' \in [Proc -> OpState]
      BY <1>21, OpTypes, GotoType DEF Pane
    <2> QED
      BY <1>21, <2>1, <2>2 DEF Pane, git, luvus
  <1>22. ASSUME NEW p \in Proc, PaneFails(p) PROVE TypeOK'
    <2> op[p] \in OpState
      OBVIOUS
    <2>1. late' \subseteq AttemptId
      BY <1>22 DEF PaneFails, Placed
    <2>2. op' \in [Proc -> OpState]
      BY <1>22, OpTypes, GotoType DEF PaneFails, EndStatus
    <2> QED
      BY <1>22, <2>1, <2>2 DEF PaneFails, Fault, git, luvus
  <1>23. ASSUME NEW p \in Proc, Repoint(p) PROVE TypeOK'
    <2> op[p] \in OpState
      OBVIOUS
    <2>1. row' \in [AttemptId -> Row]
      <3>1. CASE row[op[p].a].status = "running"
        <4>1. row' = [row EXCEPT ![op[p].a].term = op[p].term]
          BY <1>23, <3>1 DEF Repoint
        <4>2. op[p].a \in AttemptId /\ op[p].term \in TermId \cup {NoTerm}
          BY <1>23 DEF Repoint, OpState, Placed
        <4> QED
          BY <4>1, <4>2 DEF Row
      <3>2. CASE row[op[p].a].status # "running"
        BY <1>23, <3>2 DEF Repoint
      <3> QED
        BY <3>1, <3>2
    <2>2. term' \in [TermId -> TermState]
      BY <1>23, KillType DEF Repoint
    <2>3. op' \in [Proc -> OpState]
      BY <1>23, IdleOp, OpTypes, GotoType DEF Repoint, EndStatus
    <2> QED
      BY <1>23, <2>1, <2>2, <2>3 DEF Repoint, git, luvus
  <1>24. ASSUME NEW p \in Proc, NEW a \in AttemptId, NEW discard \in BOOLEAN, Clean(p, a, discard) PROVE TypeOK'
    <2>1. op' \in [Proc -> OpState]
      BY <1>24, IdleOp, OpTypes, GotoType DEF Clean
    <2> QED
      BY <1>24, <2>1 DEF Clean, git, luvus
  <1>25. ASSUME NEW p \in Proc, NEW a \in AttemptId, Reap(p, a) PROVE TypeOK'
    <2>1. op' \in [Proc -> OpState]
      BY <1>25, IdleOp, OpTypes, GotoType DEF Reap
    <2> QED
      BY <1>25, <2>1 DEF Reap, git, luvus
  <1>26. ASSUME NEW p \in Proc, Look(p) PROVE TypeOK'
    <2> op[p] \in OpState
      OBVIOUS
    <2>1. op' \in [Proc -> OpState]
      BY <1>26, IdleOp, ThenType, GotoType DEF Look
    <2> QED
      BY <1>26, <2>1 DEF Look, git, luvus
  <1>27. ASSUME NEW p \in Proc, Evict(p) PROVE TypeOK'
    <2> op[p] \in OpState
      OBVIOUS
    <2>1. term' \in [TermId -> TermState]
      BY <1>27, KillType DEF Evict
    <2>2. op' \in [Proc -> OpState]
      BY <1>27, ThenType DEF Evict
    <2> QED
      BY <1>27, <2>1, <2>2 DEF Evict, git, luvus
  <1>28. ASSUME NEW p \in Proc, Remove(p) PROVE TypeOK'
    <2> op[p] \in OpState
      OBVIOUS
    <2>1. tree' \in [AttemptId -> Tree]
      <3>1. NoTree \in Tree
        BY DEF NoTree, Tree
      <3>2. tree' = tree \/ tree' = [tree EXCEPT ![op[p].a] = NoTree]
        BY <1>28 DEF Remove
      <3> QED
        BY <3>1, <3>2
    <2>2. lost' \subseteq {"edits", "commits"}
      BY <1>28 DEF Remove, Loss
    <2>3. op' \in [Proc -> OpState]
      BY <1>28, IdleOp, ThenType, GotoType DEF Remove
    <2> QED
      BY <1>28, <2>1, <2>2, <2>3 DEF Remove, git, luvus
  <1>29. ASSUME NEW p \in Proc, Mark(p) PROVE TypeOK'
    <2> op[p] \in OpState
      OBVIOUS
    <2>1. row' \in [AttemptId -> Row]
      BY <1>29, RowTypes DEF Mark, Placed
    <2>2. op' \in [Proc -> OpState]
      BY <1>29, IdleOp, GotoType DEF Mark
    <2> QED
      BY <1>29, <2>1, <2>2 DEF Mark, git, luvus
  <1>30. ASSUME NEW p \in Proc, Killed(p) PROVE TypeOK'
    <2> op[p] \in OpState
      OBVIOUS
    <2>1. late' \subseteq AttemptId
      BY <1>30 DEF Killed, Placed
    <2>2. op' \in [Proc -> OpState]
      BY <1>30, IdleOp, GotoType DEF Killed
    <2> QED
      BY <1>30, <2>1, <2>2 DEF Killed, Fault, git, luvus
  <1>31. ASSUME NEW a \in AttemptId, NEW k \in TermId, LateCreate(a, k) PROVE TypeOK'
    <2>1. term' \in [TermId -> TermState]
      BY <1>31 DEF LateCreate, Open, TermState
    <2> QED
      BY <1>31, <2>1 DEF LateCreate, git, luvus
  <1>32. ASSUME NEW k \in TermId, Work(k) PROVE TypeOK'
    <2>1. tree' \in [AttemptId -> Tree]
      <3>1. PICK b \in AttemptId : b = term[k].of
        BY <1>32 DEF Work, Placed
      <3>2. tree' \in {tree, [tree EXCEPT ![b].dirty = TRUE], [tree EXCEPT ![b].dirty = FALSE],
                        [tree EXCEPT ![b].loose = TRUE]}
        BY <1>32, <3>1 DEF Work
      <3>3. /\ [tree[b] EXCEPT !.dirty = TRUE] \in Tree /\ [tree[b] EXCEPT !.dirty = FALSE] \in Tree
            /\ [tree[b] EXCEPT !.loose = TRUE] \in Tree
        BY DEF Tree
      <3>4. \A t \in Tree : [tree EXCEPT ![b] = t] \in [AttemptId -> Tree]
        OBVIOUS
      <3> QED
        BY <3>2, <3>3, <3>4
    <2>2. unpushed' \subseteq AttemptId
      BY <1>32 DEF Work, Placed
    <2> QED
      BY <1>32, <2>1, <2>2 DEF Work, git, luvus
  <1>33. ASSUME NEW k \in TermId, WorkerExits(k) PROVE TypeOK'
    <2>1. term' \in [TermId -> TermState]
      BY <1>33, KillType DEF WorkerExits
    <2> QED
      BY <1>33, <2>1 DEF WorkerExits, git, luvus
  <1>34. ASSUME NEW S \in SUBSET TermId, Restart(S) PROVE TypeOK'
    <2>1. term' \in [TermId -> TermState]
      BY <1>34 DEF Restart, TermState
    <2> QED
      BY <1>34, <2>1 DEF Restart, Fault, git, luvus
  <1>35. CASE UNCHANGED vars
    BY <1>35 DEF vars, git, luvus
  <1> QED
    BY <1>1, <1>2, <1>3, <1>4, <1>5, <1>6, <1>7, <1>8, <1>9, <1>10, <1>11, <1>12,
       <1>13, <1>14, <1>15, <1>16, <1>17, <1>18, <1>19, <1>20, <1>21, <1>22, <1>23, <1>24,
       <1>25, <1>26, <1>27, <1>28, <1>29, <1>30, <1>31, <1>32, <1>33, <1>34, <1>35
       DEF Next, AttemptNext, OpNext, TermNext, Launcher, Proceed
-----------------------------------------------------------------------------
(* What the steps that branch do, attempt by attempt *)

\* Record makes a launching row running, or sends the launcher to stop.
LEMMA RecordEffect ==
  ASSUME TypeOK, NEW a \in AttemptId, Record(a)
  PROVE  /\ launch[a] = "record"
         /\ \A b \in AttemptId :
              /\ row'[b].branch = row[b].branch /\ row'[b].continues = row[b].continues
              /\ row'[b].cleaned = row[b].cleaned
              /\ row'[b].status = IF b = a /\ row[a].status = "launching" THEN "running" ELSE row[b].status
              /\ launch'[b] = IF b # a THEN launch[b]
                              ELSE IF row[a].status = "launching" THEN "done" ELSE "stop"
         /\ UNCHANGED <<tree, branches, term, op>>
  <1>1. launch[a] = "record" /\ UNCHANGED <<tree, branches, term, op>>
    BY DEF Record, Step, git, luvus
  <1>2. CASE row[a].status = "launching"
    <2>1. PICK k \in TermId : row' = [row EXCEPT ![a].status = "running", ![a].term = k]
      BY <1>2 DEF Record
    <2>2. launch' = [launch EXCEPT ![a] = "done"]
      BY <1>2 DEF Record, Step
    <2> QED
      BY <1>1, <1>2, <2>1, <2>2 DEF TypeOK, Row
  <1>3. CASE row[a].status # "launching"
    <2>1. row' = row /\ launch' = [launch EXCEPT ![a] = "stop"]
      BY <1>3 DEF Record, Step
    <2> QED
      BY <1>1, <1>3, <2>1 DEF TypeOK, Row
  <1> QED
    BY <1>2, <1>3

\* Repoint changes no attempt's status or branch and starts no worker.
LEMMA RepointEffect ==
  ASSUME TypeOK, NEW p \in Proc, Repoint(p)
  PROVE  /\ op[p].at = "repoint"
         /\ \A b \in AttemptId : 
              /\ row'[b].branch = row[b].branch /\ row'[b].continues = row[b].continues
              /\ row'[b].cleaned = row[b].cleaned
              /\ row'[b].status = row[b].status
         /\ \A k \in TermId : term'[k].of = term[k].of /\ (Alive(k)' => Alive(k))
         /\ \A r \in Proc \ {p} : op'[r] = op[r]
         /\ op'[p].at = "idle" \/ (op'[p].at = "end" /\ op'[p].a = op[p].a)
         /\ UNCHANGED <<tree, branches, launch>>
  <1>1. op[p].at = "repoint" /\ UNCHANGED <<tree, branches, launch>>
    BY DEF Repoint, git
  <1>2. CASE row[op[p].a].status = "running"
    <2>1. row' = [row EXCEPT ![op[p].a].term = op[p].term] /\ op' = [op EXCEPT ![p] = Idle] /\ term' = term
      BY <1>2 DEF Repoint, Goto
    <2>2. op'[p].at = "idle" /\ \A r \in Proc \ {p} : op'[r] = op[r]
      BY <2>1 DEF TypeOK, Idle
    <2>3. \A b \in AttemptId : 
              /\ row'[b].branch = row[b].branch /\ row'[b].continues = row[b].continues
              /\ row'[b].cleaned = row[b].cleaned
              /\ row'[b].status = row[b].status
      BY <2>1 DEF TypeOK, Row
    <2> QED
      BY <1>1, <2>1, <2>2, <2>3 DEF Alive
  <1>3. CASE row[op[p].a].status # "running"
    <2>1. row' = row /\ Kill({op[p].term}) /\ op' = [op EXCEPT ![p] = [op[p] EXCEPT !.at = "end", !.to = "interrupted"]]
      BY <1>3 DEF Repoint, Goto
    <2>2. op'[p].at = "end" /\ op'[p].a = op[p].a /\ \A r \in Proc \ {p} : op'[r] = op[r]
      BY <2>1 DEF TypeOK, OpState
    <2>3. \A k \in TermId : term'[k].of = term[k].of /\ (Alive(k)' => Alive(k))
      BY <2>1 DEF TypeOK, TermState, Kill, Alive
    <2> QED
      BY <1>1, <2>1, <2>2, <2>3
  <1> QED
    BY <1>2, <1>3

\* Look goes on about the same attempt or gives up.
LEMMA LookEffect ==
  ASSUME TypeOK, NEW p \in Proc, Look(p)
  PROVE  /\ op[p].at = "look"
         /\ \A r \in Proc \ {p} : op'[r] = op[r]
         /\ op'[p].at = "idle" \/ (op'[p].at \in {"mark", "evict", "remove"} /\ op'[p].a = op[p].a)
         /\ UNCHANGED <<row, tree, branches, launch, term>>
  <1>1. op' = [op EXCEPT ![p] = Idle]
        \/ \E step \in {"mark", "evict", "remove"} : op' = [op EXCEPT ![p] = [op[p] EXCEPT !.at = step]]
    BY DEF Look, Then, Goto
  <1> QED
    BY <1>1 DEF TypeOK, OpState, Idle, Look, git, luvus

\* Remove takes away no worktree but that of its own attempt.
LEMMA RemoveEffect ==
  ASSUME TypeOK, NEW p \in Proc, Remove(p)
  PROVE  /\ op[p].at = "remove"
         /\ \A b \in AttemptId : tree'[b] = tree[b] \/ (b = op[p].a /\ ~tree'[b].there)
         /\ \A r \in Proc \ {p} : op'[r] = op[r]
         /\ op'[p].at = "idle" \/ (op'[p].at = "mark" /\ op'[p].a = op[p].a)
         /\ UNCHANGED <<row, branches, launch, term>>
  <1>1. op' = [op EXCEPT ![p] = Idle] \/ op' = [op EXCEPT ![p] = [op[p] EXCEPT !.at = "mark"]]
    BY DEF Remove, Then, Goto
  <1>2. tree' = tree \/ tree' = [tree EXCEPT ![op[p].a] = NoTree]
    BY DEF Remove
  <1>3. \A b \in AttemptId : tree'[b] = tree[b] \/ (b = op[p].a /\ ~tree'[b].there)
    BY <1>2 DEF TypeOK, NoTree
  <1> QED
    BY <1>1, <1>3 DEF TypeOK, OpState, Idle, Remove, luvus

\* A worker makes and removes no worktree and attaches none.
LEMMA WorkEffect ==
  ASSUME TypeOK, Placed, NEW k \in TermId, Work(k)
  PROVE  /\ \A b \in AttemptId : tree'[b].there = tree[b].there /\ (tree[b].loose => tree'[b].loose)
         /\ UNCHANGED <<row, branches, launch, term, op>>
  <1>1. PICK b \in AttemptId : b = term[k].of
    BY DEF Work, Placed
  <1>2. tree' \in {tree, [tree EXCEPT ![b].dirty = TRUE], [tree EXCEPT ![b].dirty = FALSE],
                   [tree EXCEPT ![b].loose = TRUE]}
    BY <1>1 DEF Work
  <1> QED
    BY <1>2 DEF TypeOK, Tree, Work, luvus

\* Ending a row ends a live attempt or changes nothing.
LEMMA EndEffect ==
  ASSUME TypeOK, NEW p \in Proc, End(p)
  PROVE  /\ op[p].at = "end"
         /\ \A b \in AttemptId :
              /\ row'[b].branch = row[b].branch /\ row'[b].continues = row[b].continues
              /\ row'[b].cleaned = row[b].cleaned
              /\ row'[b].status = row[b].status
                 \/ (row[b].status \in LiveStatus /\ row'[b].status \in EndStatus)
         /\ \A r \in Proc \ {p} : op'[r] = op[r]
         /\ op'[p].at = "idle"
         /\ UNCHANGED <<tree, branches, launch, term>>
  <1>1. op' = [op EXCEPT ![p] = Idle] /\ op[p].at = "end"
    BY DEF End, Goto
  <1>2. op[p].to \in attemptEnds[row[op[p].a].status] /\ op[p].a \in AttemptId
        => row[op[p].a].status \in LiveStatus /\ op[p].to \in EndStatus
    BY DEF TypeOK, Row, attemptEnds, LiveStatus, EndStatus
  <1>3. row' = row \/ (/\ op[p].to \in attemptEnds[row[op[p].a].status]
                       /\ row' = [row EXCEPT ![op[p].a].status = op[p].to])
    BY DEF End, EndRow
  <1>4. \A b \in AttemptId :
          /\ row'[b].branch = row[b].branch /\ row'[b].continues = row[b].continues
              /\ row'[b].cleaned = row[b].cleaned
          /\ row'[b].status = row[b].status
             \/ (row[b].status \in LiveStatus /\ row'[b].status \in EndStatus)
    BY <1>2, <1>3 DEF TypeOK, Row
  <1> QED
    BY <1>1, <1>4 DEF TypeOK, Idle, End, git, luvus

-----------------------------------------------------------------------------
(* A running attempt's workplace *)

\* While an attempt is launching its launcher finds the worktree it made, and
\* a running one's launcher is done.
LaunchInOrder ==
  \A a \in AttemptId :
    /\ row[a].status = "running" => launch[a] = "done" /\ tree[a].there
    /\ row[a].status = "launching" /\ launch[a] \in {"create", "record"} => tree[a].there

\* Only an ended attempt's worktree is being removed.
RemovesEnded ==
  \A p \in Proc : op[p].at \in {"look", "evict", "remove", "mark"} => Ended(op[p].a)

\* git's rule: an attached worktree's branch exists and is in no other.
BranchesHeld ==
  /\ \A a \in AttemptId : tree[a].there /\ ~tree[a].loose => row[a].branch \in branches
  /\ \A a, b \in AttemptId :
       a # b /\ tree[a].there /\ tree[b].there /\ row[a].branch = row[b].branch
       => tree[a].loose \/ tree[b].loose

\* No step uses or ends an attempt that was not started.
LEMMA PlacedStep == TypeOK /\ Placed /\ [Next]_vars => Placed'
  <1> SUFFICES ASSUME TypeOK, Placed, [Next]_vars PROVE Placed'
    OBVIOUS
  <1>1. ASSUME NEW a \in AttemptId, NEW prev \in AttemptId \cup {NoAttempt}, Start(a, prev) PROVE Placed'
    BY <1>1, IdAssumption DEF Start, Step, Ended, EndStatus, LiveStatus, Live, TypeOK, Row, Tree,
       TermState, OpState, Placed, Alive, git, luvus
  <1>2. ASSUME NEW a \in AttemptId, Add(a) PROVE Placed'
    BY <1>2, IdAssumption DEF Add, CanAdd, Step, NewTree, NoTree, CheckedOut, TypeOK, Row, Tree,
       TermState, OpState, Placed, Alive, git, luvus
  <1>3. ASSUME NEW a \in AttemptId, AddFails(a) PROVE Placed'
    BY <1>3, IdAssumption DEF AddFails, Step, TypeOK, Row, Tree, TermState, OpState, Placed, Alive,
       git, luvus
  <1>4. ASSUME NEW a \in AttemptId, NEW k \in TermId, Create(a, k) PROVE Placed'
    BY <1>4, IdAssumption DEF Create, Step, Open, TypeOK, Row, Tree, TermState, OpState, Placed,
       Alive, git, luvus
  <1>5. ASSUME NEW a \in AttemptId, CreateRefused(a) PROVE Placed'
    BY <1>5, IdAssumption DEF CreateRefused, Step, TypeOK, Row, Tree, TermState, OpState, Placed,
       Alive, git, luvus
  <1>6. ASSUME NEW a \in AttemptId, CreateUnknown(a) PROVE Placed'
    BY <1>6, IdAssumption DEF CreateUnknown, Step, Open, TypeOK, Row, Tree, TermState, OpState,
       Placed, Alive, git, luvus
  <1>7. ASSUME NEW a \in AttemptId, Record(a) PROVE Placed'
    <2>1. \A b \in AttemptId :
           /\ row'[b].status = "none" <=> launch'[b] = "none"
           /\ row'[b].status # "none" => row'[b].branch \in AttemptId /\ (~row'[b].continues => row'[b].branch = b)
           /\ tree'[b].there => row'[b].status # "none"
      BY <1>7, RecordEffect DEF Placed, Alive
    <2>2. \A r \in Proc : op'[r].at # "idle" => op'[r].a \in AttemptId /\ row'[op'[r].a].status # "none"
      BY <1>7, RecordEffect DEF Placed, Alive
    <2>3. \A j \in TermId : Alive(j)' => term'[j].of \in AttemptId
      BY <1>7, RecordEffect DEF Placed, Alive
    <2> QED
      BY <2>1, <2>2, <2>3 DEF Placed
  <1>8. ASSUME NEW a \in AttemptId, StopOwn(a) PROVE Placed'
    BY <1>8, IdAssumption DEF StopOwn, Step, Kill, TypeOK, Row, Tree, TermState, OpState, Placed,
       Alive, git, luvus
  <1>9. ASSUME NEW a \in AttemptId, CloseUnknown(a) PROVE Placed'
    BY <1>9, IdAssumption DEF CloseUnknown, Step, Kill, TypeOK, Row, Tree, TermState, OpState,
       Placed, Alive, git, luvus
  <1>10. ASSUME NEW a \in AttemptId, Discard(a) PROVE Placed'
    BY <1>10, IdAssumption DEF Discard, Step, NoTree, TypeOK, Row, Tree, TermState, OpState,
       Placed, Alive, git, luvus
  <1>11. ASSUME NEW a \in AttemptId, DropBranch(a) PROVE Placed'
    BY <1>11, IdAssumption DEF DropBranch, Step, CheckedOut, TypeOK, Row, Tree, TermState, OpState,
       Placed, Alive, git, luvus
  <1>12. ASSUME NEW a \in AttemptId, Fail(a) PROVE Placed'
    BY <1>12, IdAssumption DEF Fail, Step, EndRow, attemptEnds, TypeOK, Row, Tree, TermState,
       OpState, Placed, Alive, git, luvus
  <1>13. ASSUME NEW a \in AttemptId, LauncherDies(a) PROVE Placed'
    BY <1>13, IdAssumption DEF LauncherDies, TypeOK, Row, Tree, TermState, OpState, Placed, Alive,
       git, luvus
  <1>14. ASSUME NEW a \in AttemptId, GracePasses(a) PROVE Placed'
    BY <1>14, IdAssumption DEF GracePasses, TypeOK, Row, Tree, TermState, OpState, Placed, Alive,
       git, luvus
  <1>15. ASSUME NEW p \in Proc, NEW a \in AttemptId, Settle(p, a) PROVE Placed'
    BY <1>15, IdAssumption DEF Settle, Goto, Idle, Live, LiveStatus, TypeOK, Row, Tree, TermState,
       OpState, Placed, Alive, git, luvus
  <1>16. ASSUME NEW p \in Proc, SettleClose(p) PROVE Placed'
    BY <1>16, IdAssumption DEF SettleClose, Goto, Then, Kill, TypeOK, Row, Tree, TermState,
       OpState, Placed, Alive, git, luvus
  <1>17. ASSUME NEW p \in Proc, End(p) PROVE Placed'
    <2>1. \A b \in AttemptId :
           /\ row'[b].status = "none" <=> launch'[b] = "none"
           /\ row'[b].status # "none" => row'[b].branch \in AttemptId /\ (~row'[b].continues => row'[b].branch = b)
           /\ tree'[b].there => row'[b].status # "none"
      BY <1>17, EndEffect DEF Placed, Alive, LiveStatus, EndStatus
    <2>2. \A r \in Proc : op'[r].at # "idle" => op'[r].a \in AttemptId /\ row'[op'[r].a].status # "none"
      BY <1>17, EndEffect DEF Placed, Alive, LiveStatus, EndStatus
    <2>3. \A j \in TermId : Alive(j)' => term'[j].of \in AttemptId
      BY <1>17, EndEffect DEF Placed, Alive, LiveStatus, EndStatus
    <2> QED
      BY <2>1, <2>2, <2>3 DEF Placed
  <1>18. ASSUME NEW p \in Proc, NEW a \in AttemptId, Stop(p, a) PROVE Placed'
    BY <1>18, IdAssumption DEF Stop, Goto, Idle, TypeOK, Row, Tree, TermState, OpState, Placed,
       Alive, git, luvus
  <1>19. ASSUME NEW p \in Proc, StopKill(p) PROVE Placed'
    BY <1>19, IdAssumption DEF StopKill, Goto, Kill, TypeOK, Row, Tree, TermState, OpState, Placed,
       Alive, git, luvus
  <1>20. ASSUME NEW p \in Proc, NEW a \in AttemptId, Switch(p, a) PROVE Placed'
    BY <1>20, IdAssumption DEF Switch, Goto, Idle, Kill, TypeOK, Row, Tree, TermState, OpState,
       Placed, Alive, git, luvus
  <1>21. ASSUME NEW p \in Proc, NEW k \in TermId, Pane(p, k) PROVE Placed'
    BY <1>21, IdAssumption DEF Pane, Goto, Open, TypeOK, Row, Tree, TermState, OpState, Placed,
       Alive, git, luvus
  <1>22. ASSUME NEW p \in Proc, PaneFails(p) PROVE Placed'
    BY <1>22, IdAssumption DEF PaneFails, Goto, TypeOK, Row, Tree, TermState, OpState, Placed,
       Alive, git, luvus
  <1>23. ASSUME NEW p \in Proc, Repoint(p) PROVE Placed'
    <2>1. \A b \in AttemptId :
           /\ row'[b].status = "none" <=> launch'[b] = "none"
           /\ row'[b].status # "none" => row'[b].branch \in AttemptId /\ (~row'[b].continues => row'[b].branch = b)
           /\ tree'[b].there => row'[b].status # "none"
      BY <1>23, RepointEffect DEF Placed, Alive
    <2>2. \A r \in Proc : op'[r].at # "idle" => op'[r].a \in AttemptId /\ row'[op'[r].a].status # "none"
      BY <1>23, RepointEffect DEF Placed, Alive
    <2>3. \A j \in TermId : Alive(j)' => term'[j].of \in AttemptId
      BY <1>23, RepointEffect DEF Placed, Alive
    <2> QED
      BY <2>1, <2>2, <2>3 DEF Placed
  <1>24. ASSUME NEW p \in Proc, NEW a \in AttemptId, NEW discard \in BOOLEAN, Clean(p, a, discard) PROVE Placed'
    BY <1>24, IdAssumption DEF Clean, Goto, Idle, Ended, EndStatus, TypeOK, Row, Tree, TermState,
       OpState, Placed, Alive, git, luvus
  <1>25. ASSUME NEW p \in Proc, NEW a \in AttemptId, Reap(p, a) PROVE Placed'
    BY <1>25, IdAssumption DEF Reap, Goto, Idle, Ended, EndStatus, TypeOK, Row, Tree, TermState,
       OpState, Placed, Alive, git, luvus
  <1>26. ASSUME NEW p \in Proc, Look(p) PROVE Placed'
    BY <1>26, LookEffect DEF TermState, OpState, Placed, Alive
  <1>27. ASSUME NEW p \in Proc, Evict(p) PROVE Placed'
    BY <1>27, IdAssumption DEF Evict, Goto, Then, Kill, TypeOK, Row, Tree, TermState, OpState,
       Placed, Alive, git, luvus
  <1>28. ASSUME NEW p \in Proc, Remove(p) PROVE Placed'
    BY <1>28, RemoveEffect DEF TermState, OpState, Placed, Alive
  <1>29. ASSUME NEW p \in Proc, Mark(p) PROVE Placed'
    BY <1>29, IdAssumption DEF Mark, Goto, Idle, TypeOK, Row, Tree, TermState, OpState, Placed,
       Alive, git, luvus
  <1>30. ASSUME NEW p \in Proc, Killed(p) PROVE Placed'
    BY <1>30, IdAssumption DEF Killed, Goto, Idle, TypeOK, Row, Tree, TermState, OpState, Placed,
       Alive, git, luvus
  <1>31. ASSUME NEW a \in AttemptId, NEW k \in TermId, LateCreate(a, k) PROVE Placed'
    BY <1>31, IdAssumption DEF LateCreate, Open, TypeOK, Row, Tree, TermState, OpState, Placed,
       Alive, git, luvus
  <1>32. ASSUME NEW k \in TermId, Work(k) PROVE Placed'
    BY <1>32, WorkEffect DEF TermState, OpState, Placed, Alive
  <1>33. ASSUME NEW k \in TermId, WorkerExits(k) PROVE Placed'
    BY <1>33, IdAssumption DEF WorkerExits, Kill, TypeOK, Row, Tree, TermState, OpState, Placed,
       Alive, git, luvus
  <1>34. ASSUME NEW S \in SUBSET TermId, Restart(S) PROVE Placed'
    BY <1>34, IdAssumption DEF Restart, TypeOK, Row, Tree, TermState, OpState, Placed, Alive, git,
       luvus
  <1>35. CASE UNCHANGED vars
    BY <1>35 DEF vars, git, luvus, Row, Tree, TermState, OpState, Placed, Alive
  <1> QED
    BY <1>1, <1>2, <1>3, <1>4, <1>5, <1>6, <1>7, <1>8, <1>9, <1>10, <1>11, <1>12,
       <1>13, <1>14, <1>15, <1>16, <1>17, <1>18, <1>19, <1>20, <1>21, <1>22, <1>23, <1>24,
       <1>25, <1>26, <1>27, <1>28, <1>29, <1>30, <1>31, <1>32, <1>33, <1>34, <1>35
       DEF Next, AttemptNext, OpNext, TermNext, Launcher, Proceed

\* No step takes the worktree from under a launcher or a running attempt.
LEMMA LaunchStepInv == TypeOK /\ Placed /\ RemovesEnded /\ LaunchInOrder /\ [Next]_vars => LaunchInOrder'
  <1> SUFFICES ASSUME TypeOK, Placed, RemovesEnded, LaunchInOrder, [Next]_vars PROVE LaunchInOrder'
    OBVIOUS
  <1>1. ASSUME NEW a \in AttemptId, NEW prev \in AttemptId \cup {NoAttempt}, Start(a, prev) PROVE LaunchInOrder'
    BY <1>1, IdAssumption DEF Start, Step, Ended, EndStatus, LiveStatus, Live, TypeOK, Row, Tree,
       OpState, Placed, RemovesEnded, LaunchInOrder, Ended, EndStatus, git, luvus
  <1>2. ASSUME NEW a \in AttemptId, Add(a) PROVE LaunchInOrder'
    BY <1>2, IdAssumption DEF Add, CanAdd, Step, NewTree, NoTree, CheckedOut, TypeOK, Row, Tree,
       OpState, Placed, RemovesEnded, LaunchInOrder, Ended, EndStatus, git, luvus
  <1>3. ASSUME NEW a \in AttemptId, AddFails(a) PROVE LaunchInOrder'
    BY <1>3, IdAssumption DEF AddFails, Step, TypeOK, Row, Tree, OpState, Placed, RemovesEnded,
       LaunchInOrder, Ended, EndStatus, git, luvus
  <1>4. ASSUME NEW a \in AttemptId, NEW k \in TermId, Create(a, k) PROVE LaunchInOrder'
    BY <1>4, IdAssumption DEF Create, Step, Open, TypeOK, Row, Tree, OpState, Placed, RemovesEnded,
       LaunchInOrder, Ended, EndStatus, git, luvus
  <1>5. ASSUME NEW a \in AttemptId, CreateRefused(a) PROVE LaunchInOrder'
    BY <1>5, IdAssumption DEF CreateRefused, Step, TypeOK, Row, Tree, OpState, Placed,
       RemovesEnded, LaunchInOrder, Ended, EndStatus, git, luvus
  <1>6. ASSUME NEW a \in AttemptId, CreateUnknown(a) PROVE LaunchInOrder'
    BY <1>6, IdAssumption DEF CreateUnknown, Step, Open, TypeOK, Row, Tree, OpState, Placed,
       RemovesEnded, LaunchInOrder, Ended, EndStatus, git, luvus
  <1>7. ASSUME NEW a \in AttemptId, Record(a) PROVE LaunchInOrder'
    BY <1>7, RecordEffect DEF OpState, Placed, RemovesEnded, LaunchInOrder, Ended, EndStatus
  <1>8. ASSUME NEW a \in AttemptId, StopOwn(a) PROVE LaunchInOrder'
    BY <1>8, IdAssumption DEF StopOwn, Step, Kill, TypeOK, Row, Tree, OpState, Placed,
       RemovesEnded, LaunchInOrder, Ended, EndStatus, git, luvus
  <1>9. ASSUME NEW a \in AttemptId, CloseUnknown(a) PROVE LaunchInOrder'
    BY <1>9, IdAssumption DEF CloseUnknown, Step, Kill, TypeOK, Row, Tree, OpState, Placed,
       RemovesEnded, LaunchInOrder, Ended, EndStatus, git, luvus
  <1>10. ASSUME NEW a \in AttemptId, Discard(a) PROVE LaunchInOrder'
    BY <1>10, IdAssumption DEF Discard, Step, NoTree, TypeOK, Row, Tree, OpState, Placed,
       RemovesEnded, LaunchInOrder, Ended, EndStatus, git, luvus
  <1>11. ASSUME NEW a \in AttemptId, DropBranch(a) PROVE LaunchInOrder'
    BY <1>11, IdAssumption DEF DropBranch, Step, CheckedOut, TypeOK, Row, Tree, OpState, Placed,
       RemovesEnded, LaunchInOrder, Ended, EndStatus, git, luvus
  <1>12. ASSUME NEW a \in AttemptId, Fail(a) PROVE LaunchInOrder'
    BY <1>12, IdAssumption DEF Fail, Step, EndRow, attemptEnds, TypeOK, Row, Tree, OpState, Placed,
       RemovesEnded, LaunchInOrder, Ended, EndStatus, git, luvus
  <1>13. ASSUME NEW a \in AttemptId, LauncherDies(a) PROVE LaunchInOrder'
    BY <1>13, IdAssumption DEF LauncherDies, TypeOK, Row, Tree, OpState, Placed, RemovesEnded,
       LaunchInOrder, Ended, EndStatus, git, luvus
  <1>14. ASSUME NEW a \in AttemptId, GracePasses(a) PROVE LaunchInOrder'
    BY <1>14, IdAssumption DEF GracePasses, TypeOK, Row, Tree, OpState, Placed, RemovesEnded,
       LaunchInOrder, Ended, EndStatus, git, luvus
  <1>15. ASSUME NEW p \in Proc, NEW a \in AttemptId, Settle(p, a) PROVE LaunchInOrder'
    BY <1>15, IdAssumption DEF Settle, Goto, Idle, Live, LiveStatus, TypeOK, Row, Tree, OpState,
       Placed, RemovesEnded, LaunchInOrder, Ended, EndStatus, git, luvus
  <1>16. ASSUME NEW p \in Proc, SettleClose(p) PROVE LaunchInOrder'
    BY <1>16, IdAssumption DEF SettleClose, Goto, Then, Kill, TypeOK, Row, Tree, OpState, Placed,
       RemovesEnded, LaunchInOrder, Ended, EndStatus, git, luvus
  <1>17. ASSUME NEW p \in Proc, End(p) PROVE LaunchInOrder'
    BY <1>17, EndEffect DEF OpState, Placed, RemovesEnded, LaunchInOrder, Ended, EndStatus,
       LiveStatus
  <1>18. ASSUME NEW p \in Proc, NEW a \in AttemptId, Stop(p, a) PROVE LaunchInOrder'
    BY <1>18, IdAssumption DEF Stop, Goto, Idle, TypeOK, Row, Tree, OpState, Placed, RemovesEnded,
       LaunchInOrder, Ended, EndStatus, git, luvus
  <1>19. ASSUME NEW p \in Proc, StopKill(p) PROVE LaunchInOrder'
    BY <1>19, IdAssumption DEF StopKill, Goto, Kill, TypeOK, Row, Tree, OpState, Placed,
       RemovesEnded, LaunchInOrder, Ended, EndStatus, git, luvus
  <1>20. ASSUME NEW p \in Proc, NEW a \in AttemptId, Switch(p, a) PROVE LaunchInOrder'
    BY <1>20, IdAssumption DEF Switch, Goto, Idle, Kill, TypeOK, Row, Tree, OpState, Placed,
       RemovesEnded, LaunchInOrder, Ended, EndStatus, git, luvus
  <1>21. ASSUME NEW p \in Proc, NEW k \in TermId, Pane(p, k) PROVE LaunchInOrder'
    BY <1>21, IdAssumption DEF Pane, Goto, Open, TypeOK, Row, Tree, OpState, Placed, RemovesEnded,
       LaunchInOrder, Ended, EndStatus, git, luvus
  <1>22. ASSUME NEW p \in Proc, PaneFails(p) PROVE LaunchInOrder'
    BY <1>22, IdAssumption DEF PaneFails, Goto, TypeOK, Row, Tree, OpState, Placed, RemovesEnded,
       LaunchInOrder, Ended, EndStatus, git, luvus
  <1>23. ASSUME NEW p \in Proc, Repoint(p) PROVE LaunchInOrder'
    BY <1>23, RepointEffect DEF OpState, Placed, RemovesEnded, LaunchInOrder, Ended, EndStatus
  <1>24. ASSUME NEW p \in Proc, NEW a \in AttemptId, NEW discard \in BOOLEAN, Clean(p, a, discard) PROVE LaunchInOrder'
    BY <1>24, IdAssumption DEF Clean, Goto, Idle, Ended, EndStatus, TypeOK, Row, Tree, OpState,
       Placed, RemovesEnded, LaunchInOrder, Ended, EndStatus, git, luvus
  <1>25. ASSUME NEW p \in Proc, NEW a \in AttemptId, Reap(p, a) PROVE LaunchInOrder'
    BY <1>25, IdAssumption DEF Reap, Goto, Idle, Ended, EndStatus, TypeOK, Row, Tree, OpState,
       Placed, RemovesEnded, LaunchInOrder, Ended, EndStatus, git, luvus
  <1>26. ASSUME NEW p \in Proc, Look(p) PROVE LaunchInOrder'
    BY <1>26, LookEffect DEF OpState, Placed, RemovesEnded, LaunchInOrder, Ended, EndStatus
  <1>27. ASSUME NEW p \in Proc, Evict(p) PROVE LaunchInOrder'
    BY <1>27, IdAssumption DEF Evict, Goto, Then, Kill, TypeOK, Row, Tree, OpState, Placed,
       RemovesEnded, LaunchInOrder, Ended, EndStatus, git, luvus
  <1>28. ASSUME NEW p \in Proc, Remove(p) PROVE LaunchInOrder'
    BY <1>28, RemoveEffect DEF OpState, Placed, RemovesEnded, LaunchInOrder, Ended, EndStatus
  <1>29. ASSUME NEW p \in Proc, Mark(p) PROVE LaunchInOrder'
    BY <1>29, IdAssumption DEF Mark, Goto, Idle, TypeOK, Row, Tree, OpState, Placed, RemovesEnded,
       LaunchInOrder, Ended, EndStatus, git, luvus
  <1>30. ASSUME NEW p \in Proc, Killed(p) PROVE LaunchInOrder'
    BY <1>30, IdAssumption DEF Killed, Goto, Idle, TypeOK, Row, Tree, OpState, Placed,
       RemovesEnded, LaunchInOrder, Ended, EndStatus, git, luvus
  <1>31. ASSUME NEW a \in AttemptId, NEW k \in TermId, LateCreate(a, k) PROVE LaunchInOrder'
    BY <1>31, IdAssumption DEF LateCreate, Open, TypeOK, Row, Tree, OpState, Placed, RemovesEnded,
       LaunchInOrder, Ended, EndStatus, git, luvus
  <1>32. ASSUME NEW k \in TermId, Work(k) PROVE LaunchInOrder'
    BY <1>32, WorkEffect DEF OpState, Placed, RemovesEnded, LaunchInOrder, Ended, EndStatus
  <1>33. ASSUME NEW k \in TermId, WorkerExits(k) PROVE LaunchInOrder'
    BY <1>33, IdAssumption DEF WorkerExits, Kill, TypeOK, Row, Tree, OpState, Placed, RemovesEnded,
       LaunchInOrder, Ended, EndStatus, git, luvus
  <1>34. ASSUME NEW S \in SUBSET TermId, Restart(S) PROVE LaunchInOrder'
    BY <1>34, IdAssumption DEF Restart, TypeOK, Row, Tree, OpState, Placed, RemovesEnded,
       LaunchInOrder, Ended, EndStatus, git, luvus
  <1>35. CASE UNCHANGED vars
    BY <1>35 DEF vars, git, luvus, Row, Tree, OpState, Placed, RemovesEnded, LaunchInOrder, Ended,
       EndStatus
  <1> QED
    BY <1>1, <1>2, <1>3, <1>4, <1>5, <1>6, <1>7, <1>8, <1>9, <1>10, <1>11, <1>12,
       <1>13, <1>14, <1>15, <1>16, <1>17, <1>18, <1>19, <1>20, <1>21, <1>22, <1>23, <1>24,
       <1>25, <1>26, <1>27, <1>28, <1>29, <1>30, <1>31, <1>32, <1>33, <1>34, <1>35
       DEF Next, AttemptNext, OpNext, TermNext, Launcher, Proceed

\* What has ended stays ended.
LEMMA RemovesStep == TypeOK /\ Placed /\ RemovesEnded /\ [Next]_vars => RemovesEnded'
  <1> SUFFICES ASSUME TypeOK, Placed, RemovesEnded, [Next]_vars PROVE RemovesEnded'
    OBVIOUS
  <1>1. ASSUME NEW a \in AttemptId, NEW prev \in AttemptId \cup {NoAttempt}, Start(a, prev) PROVE RemovesEnded'
    BY <1>1, IdAssumption DEF Start, Step, Ended, EndStatus, LiveStatus, Live, TypeOK, Row,
       OpState, Placed, RemovesEnded, Ended, EndStatus, git, luvus
  <1>2. ASSUME NEW a \in AttemptId, Add(a) PROVE RemovesEnded'
    BY <1>2, IdAssumption DEF Add, CanAdd, Step, NewTree, NoTree, CheckedOut, TypeOK, Row, OpState,
       Placed, RemovesEnded, Ended, EndStatus, git, luvus
  <1>3. ASSUME NEW a \in AttemptId, AddFails(a) PROVE RemovesEnded'
    BY <1>3, IdAssumption DEF AddFails, Step, TypeOK, Row, OpState, Placed, RemovesEnded, Ended,
       EndStatus, git, luvus
  <1>4. ASSUME NEW a \in AttemptId, NEW k \in TermId, Create(a, k) PROVE RemovesEnded'
    BY <1>4, IdAssumption DEF Create, Step, Open, TypeOK, Row, OpState, Placed, RemovesEnded,
       Ended, EndStatus, git, luvus
  <1>5. ASSUME NEW a \in AttemptId, CreateRefused(a) PROVE RemovesEnded'
    BY <1>5, IdAssumption DEF CreateRefused, Step, TypeOK, Row, OpState, Placed, RemovesEnded,
       Ended, EndStatus, git, luvus
  <1>6. ASSUME NEW a \in AttemptId, CreateUnknown(a) PROVE RemovesEnded'
    BY <1>6, IdAssumption DEF CreateUnknown, Step, Open, TypeOK, Row, OpState, Placed,
       RemovesEnded, Ended, EndStatus, git, luvus
  <1>7. ASSUME NEW a \in AttemptId, Record(a) PROVE RemovesEnded'
    <2>1. \A b \in AttemptId : Ended(b) => Ended(b)'
      BY <1>7, RecordEffect DEF Ended, EndStatus
    <2> QED
      BY <1>7, <2>1, RecordEffect DEF RemovesEnded, Placed
  <1>8. ASSUME NEW a \in AttemptId, StopOwn(a) PROVE RemovesEnded'
    BY <1>8, IdAssumption DEF StopOwn, Step, Kill, TypeOK, Row, OpState, Placed, RemovesEnded,
       Ended, EndStatus, git, luvus
  <1>9. ASSUME NEW a \in AttemptId, CloseUnknown(a) PROVE RemovesEnded'
    BY <1>9, IdAssumption DEF CloseUnknown, Step, Kill, TypeOK, Row, OpState, Placed, RemovesEnded,
       Ended, EndStatus, git, luvus
  <1>10. ASSUME NEW a \in AttemptId, Discard(a) PROVE RemovesEnded'
    BY <1>10, IdAssumption DEF Discard, Step, NoTree, TypeOK, Row, OpState, Placed, RemovesEnded,
       Ended, EndStatus, git, luvus
  <1>11. ASSUME NEW a \in AttemptId, DropBranch(a) PROVE RemovesEnded'
    BY <1>11, IdAssumption DEF DropBranch, Step, CheckedOut, TypeOK, Row, OpState, Placed,
       RemovesEnded, Ended, EndStatus, git, luvus
  <1>12. ASSUME NEW a \in AttemptId, Fail(a) PROVE RemovesEnded'
    BY <1>12, IdAssumption DEF Fail, Step, EndRow, attemptEnds, TypeOK, Row, OpState, Placed,
       RemovesEnded, Ended, EndStatus, git, luvus
  <1>13. ASSUME NEW a \in AttemptId, LauncherDies(a) PROVE RemovesEnded'
    BY <1>13, IdAssumption DEF LauncherDies, TypeOK, Row, OpState, Placed, RemovesEnded, Ended,
       EndStatus, git, luvus
  <1>14. ASSUME NEW a \in AttemptId, GracePasses(a) PROVE RemovesEnded'
    BY <1>14, IdAssumption DEF GracePasses, TypeOK, Row, OpState, Placed, RemovesEnded, Ended,
       EndStatus, git, luvus
  <1>15. ASSUME NEW p \in Proc, NEW a \in AttemptId, Settle(p, a) PROVE RemovesEnded'
    BY <1>15, IdAssumption DEF Settle, Goto, Idle, Live, LiveStatus, TypeOK, Row, OpState, Placed,
       RemovesEnded, Ended, EndStatus, git, luvus
  <1>16. ASSUME NEW p \in Proc, SettleClose(p) PROVE RemovesEnded'
    BY <1>16, IdAssumption DEF SettleClose, Goto, Then, Kill, TypeOK, Row, OpState, Placed,
       RemovesEnded, Ended, EndStatus, git, luvus
  <1>17. ASSUME NEW p \in Proc, End(p) PROVE RemovesEnded'
    BY <1>17, EndEffect DEF OpState, Placed, RemovesEnded, Ended, EndStatus, LiveStatus
  <1>18. ASSUME NEW p \in Proc, NEW a \in AttemptId, Stop(p, a) PROVE RemovesEnded'
    BY <1>18, IdAssumption DEF Stop, Goto, Idle, TypeOK, Row, OpState, Placed, RemovesEnded, Ended,
       EndStatus, git, luvus
  <1>19. ASSUME NEW p \in Proc, StopKill(p) PROVE RemovesEnded'
    BY <1>19, IdAssumption DEF StopKill, Goto, Kill, TypeOK, Row, OpState, Placed, RemovesEnded,
       Ended, EndStatus, git, luvus
  <1>20. ASSUME NEW p \in Proc, NEW a \in AttemptId, Switch(p, a) PROVE RemovesEnded'
    BY <1>20, IdAssumption DEF Switch, Goto, Idle, Kill, TypeOK, Row, OpState, Placed,
       RemovesEnded, Ended, EndStatus, git, luvus
  <1>21. ASSUME NEW p \in Proc, NEW k \in TermId, Pane(p, k) PROVE RemovesEnded'
    BY <1>21, IdAssumption DEF Pane, Goto, Open, TypeOK, Row, OpState, Placed, RemovesEnded, Ended,
       EndStatus, git, luvus
  <1>22. ASSUME NEW p \in Proc, PaneFails(p) PROVE RemovesEnded'
    BY <1>22, IdAssumption DEF PaneFails, Goto, TypeOK, Row, OpState, Placed, RemovesEnded, Ended,
       EndStatus, git, luvus
  <1>23. ASSUME NEW p \in Proc, Repoint(p) PROVE RemovesEnded'
    <2>1. \A b \in AttemptId : Ended(b) => Ended(b)'
      BY <1>23, RepointEffect DEF Ended
    <2> QED
      BY <1>23, <2>1, RepointEffect DEF RemovesEnded, Placed
  <1>24. ASSUME NEW p \in Proc, NEW a \in AttemptId, NEW discard \in BOOLEAN, Clean(p, a, discard) PROVE RemovesEnded'
    BY <1>24, IdAssumption DEF Clean, Goto, Idle, Ended, EndStatus, TypeOK, Row, OpState, Placed,
       RemovesEnded, Ended, EndStatus, git, luvus
  <1>25. ASSUME NEW p \in Proc, NEW a \in AttemptId, Reap(p, a) PROVE RemovesEnded'
    BY <1>25, IdAssumption DEF Reap, Goto, Idle, Ended, EndStatus, TypeOK, Row, OpState, Placed,
       RemovesEnded, Ended, EndStatus, git, luvus
  <1>26. ASSUME NEW p \in Proc, Look(p) PROVE RemovesEnded'
    BY <1>26, LookEffect DEF OpState, Placed, RemovesEnded, Ended, EndStatus
  <1>27. ASSUME NEW p \in Proc, Evict(p) PROVE RemovesEnded'
    BY <1>27, IdAssumption DEF Evict, Goto, Then, Kill, TypeOK, Row, OpState, Placed, RemovesEnded,
       Ended, EndStatus, git, luvus
  <1>28. ASSUME NEW p \in Proc, Remove(p) PROVE RemovesEnded'
    BY <1>28, RemoveEffect DEF OpState, Placed, RemovesEnded, Ended, EndStatus
  <1>29. ASSUME NEW p \in Proc, Mark(p) PROVE RemovesEnded'
    BY <1>29, IdAssumption DEF Mark, Goto, Idle, TypeOK, Row, OpState, Placed, RemovesEnded, Ended,
       EndStatus, git, luvus
  <1>30. ASSUME NEW p \in Proc, Killed(p) PROVE RemovesEnded'
    BY <1>30, IdAssumption DEF Killed, Goto, Idle, TypeOK, Row, OpState, Placed, RemovesEnded,
       Ended, EndStatus, git, luvus
  <1>31. ASSUME NEW a \in AttemptId, NEW k \in TermId, LateCreate(a, k) PROVE RemovesEnded'
    BY <1>31, IdAssumption DEF LateCreate, Open, TypeOK, Row, OpState, Placed, RemovesEnded, Ended,
       EndStatus, git, luvus
  <1>32. ASSUME NEW k \in TermId, Work(k) PROVE RemovesEnded'
    BY <1>32, WorkEffect DEF OpState, Placed, RemovesEnded, Ended, EndStatus
  <1>33. ASSUME NEW k \in TermId, WorkerExits(k) PROVE RemovesEnded'
    BY <1>33, IdAssumption DEF WorkerExits, Kill, TypeOK, Row, OpState, Placed, RemovesEnded,
       Ended, EndStatus, git, luvus
  <1>34. ASSUME NEW S \in SUBSET TermId, Restart(S) PROVE RemovesEnded'
    BY <1>34, IdAssumption DEF Restart, TypeOK, Row, OpState, Placed, RemovesEnded, Ended,
       EndStatus, git, luvus
  <1>35. CASE UNCHANGED vars
    BY <1>35 DEF vars, git, luvus, Row, OpState, Placed, RemovesEnded, Ended, EndStatus
  <1> QED
    BY <1>1, <1>2, <1>3, <1>4, <1>5, <1>6, <1>7, <1>8, <1>9, <1>10, <1>11, <1>12,
       <1>13, <1>14, <1>15, <1>16, <1>17, <1>18, <1>19, <1>20, <1>21, <1>22, <1>23, <1>24,
       <1>25, <1>26, <1>27, <1>28, <1>29, <1>30, <1>31, <1>32, <1>33, <1>34, <1>35
       DEF Next, AttemptNext, OpNext, TermNext, Launcher, Proceed

\* No step deletes an attached branch or attaches it twice.
LEMMA BranchesStep == TypeOK /\ Placed /\ BranchesHeld /\ [Next]_vars => BranchesHeld'
  <1> SUFFICES ASSUME TypeOK, Placed, BranchesHeld, [Next]_vars PROVE BranchesHeld'
    OBVIOUS
  <1>1. ASSUME NEW a \in AttemptId, NEW prev \in AttemptId \cup {NoAttempt}, Start(a, prev) PROVE BranchesHeld'
    BY <1>1, IdAssumption DEF Start, Step, Ended, EndStatus, LiveStatus, Live, TypeOK, Row, Tree,
       Placed, BranchesHeld, git, luvus
  <1>2. ASSUME NEW a \in AttemptId, Add(a) PROVE BranchesHeld'
    <2>1. /\ \A b \in AttemptId \ {a} : tree'[b] = tree[b]
          /\ branches' = branches \cup {row[a].branch}
          /\ UNCHANGED row
      BY <1>2 DEF Add
    <2>2. \A b \in AttemptId \ {a} : tree[b].there /\ row[b].branch = row[a].branch => tree[b].loose
      BY <1>2 DEF Add, CanAdd, CheckedOut, Step, Placed, BranchesHeld
    <2> QED
      BY <2>1, <2>2 DEF BranchesHeld
  <1>3. ASSUME NEW a \in AttemptId, AddFails(a) PROVE BranchesHeld'
    BY <1>3, IdAssumption DEF AddFails, Step, TypeOK, Row, Tree, Placed, BranchesHeld, git, luvus
  <1>4. ASSUME NEW a \in AttemptId, NEW k \in TermId, Create(a, k) PROVE BranchesHeld'
    BY <1>4, IdAssumption DEF Create, Step, Open, TypeOK, Row, Tree, Placed, BranchesHeld, git,
       luvus
  <1>5. ASSUME NEW a \in AttemptId, CreateRefused(a) PROVE BranchesHeld'
    BY <1>5, IdAssumption DEF CreateRefused, Step, TypeOK, Row, Tree, Placed, BranchesHeld, git,
       luvus
  <1>6. ASSUME NEW a \in AttemptId, CreateUnknown(a) PROVE BranchesHeld'
    BY <1>6, IdAssumption DEF CreateUnknown, Step, Open, TypeOK, Row, Tree, Placed, BranchesHeld,
       git, luvus
  <1>7. ASSUME NEW a \in AttemptId, Record(a) PROVE BranchesHeld'
    BY <1>7, RecordEffect DEF Placed, BranchesHeld
  <1>8. ASSUME NEW a \in AttemptId, StopOwn(a) PROVE BranchesHeld'
    BY <1>8, IdAssumption DEF StopOwn, Step, Kill, TypeOK, Row, Tree, Placed, BranchesHeld, git,
       luvus
  <1>9. ASSUME NEW a \in AttemptId, CloseUnknown(a) PROVE BranchesHeld'
    BY <1>9, IdAssumption DEF CloseUnknown, Step, Kill, TypeOK, Row, Tree, Placed, BranchesHeld,
       git, luvus
  <1>10. ASSUME NEW a \in AttemptId, Discard(a) PROVE BranchesHeld'
    BY <1>10, IdAssumption DEF Discard, Step, NoTree, TypeOK, Row, Tree, Placed, BranchesHeld, git,
       luvus
  <1>11. ASSUME NEW a \in AttemptId, DropBranch(a) PROVE BranchesHeld'
    BY <1>11, IdAssumption DEF DropBranch, Step, CheckedOut, TypeOK, Row, Tree, Placed,
       BranchesHeld, git, luvus
  <1>12. ASSUME NEW a \in AttemptId, Fail(a) PROVE BranchesHeld'
    BY <1>12, IdAssumption DEF Fail, Step, EndRow, attemptEnds, TypeOK, Row, Tree, Placed,
       BranchesHeld, git, luvus
  <1>13. ASSUME NEW a \in AttemptId, LauncherDies(a) PROVE BranchesHeld'
    BY <1>13, IdAssumption DEF LauncherDies, TypeOK, Row, Tree, Placed, BranchesHeld, git, luvus
  <1>14. ASSUME NEW a \in AttemptId, GracePasses(a) PROVE BranchesHeld'
    BY <1>14, IdAssumption DEF GracePasses, TypeOK, Row, Tree, Placed, BranchesHeld, git, luvus
  <1>15. ASSUME NEW p \in Proc, NEW a \in AttemptId, Settle(p, a) PROVE BranchesHeld'
    BY <1>15, IdAssumption DEF Settle, Goto, Idle, Live, LiveStatus, TypeOK, Row, Tree, Placed,
       BranchesHeld, git, luvus
  <1>16. ASSUME NEW p \in Proc, SettleClose(p) PROVE BranchesHeld'
    BY <1>16, IdAssumption DEF SettleClose, Goto, Then, Kill, TypeOK, Row, Tree, Placed,
       BranchesHeld, git, luvus
  <1>17. ASSUME NEW p \in Proc, End(p) PROVE BranchesHeld'
    BY <1>17, EndEffect DEF Placed, BranchesHeld, LiveStatus
  <1>18. ASSUME NEW p \in Proc, NEW a \in AttemptId, Stop(p, a) PROVE BranchesHeld'
    BY <1>18, IdAssumption DEF Stop, Goto, Idle, TypeOK, Row, Tree, Placed, BranchesHeld, git, luvus
  <1>19. ASSUME NEW p \in Proc, StopKill(p) PROVE BranchesHeld'
    BY <1>19, IdAssumption DEF StopKill, Goto, Kill, TypeOK, Row, Tree, Placed, BranchesHeld, git,
       luvus
  <1>20. ASSUME NEW p \in Proc, NEW a \in AttemptId, Switch(p, a) PROVE BranchesHeld'
    BY <1>20, IdAssumption DEF Switch, Goto, Idle, Kill, TypeOK, Row, Tree, Placed, BranchesHeld,
       git, luvus
  <1>21. ASSUME NEW p \in Proc, NEW k \in TermId, Pane(p, k) PROVE BranchesHeld'
    BY <1>21, IdAssumption DEF Pane, Goto, Open, TypeOK, Row, Tree, Placed, BranchesHeld, git, luvus
  <1>22. ASSUME NEW p \in Proc, PaneFails(p) PROVE BranchesHeld'
    BY <1>22, IdAssumption DEF PaneFails, Goto, TypeOK, Row, Tree, Placed, BranchesHeld, git, luvus
  <1>23. ASSUME NEW p \in Proc, Repoint(p) PROVE BranchesHeld'
    BY <1>23, RepointEffect DEF Placed, BranchesHeld
  <1>24. ASSUME NEW p \in Proc, NEW a \in AttemptId, NEW discard \in BOOLEAN, Clean(p, a, discard) PROVE BranchesHeld'
    BY <1>24, IdAssumption DEF Clean, Goto, Idle, Ended, EndStatus, TypeOK, Row, Tree, Placed,
       BranchesHeld, git, luvus
  <1>25. ASSUME NEW p \in Proc, NEW a \in AttemptId, Reap(p, a) PROVE BranchesHeld'
    BY <1>25, IdAssumption DEF Reap, Goto, Idle, Ended, EndStatus, TypeOK, Row, Tree, Placed,
       BranchesHeld, git, luvus
  <1>26. ASSUME NEW p \in Proc, Look(p) PROVE BranchesHeld'
    BY <1>26, LookEffect DEF Placed, BranchesHeld
  <1>27. ASSUME NEW p \in Proc, Evict(p) PROVE BranchesHeld'
    BY <1>27, IdAssumption DEF Evict, Goto, Then, Kill, TypeOK, Row, Tree, Placed, BranchesHeld,
       git, luvus
  <1>28. ASSUME NEW p \in Proc, Remove(p) PROVE BranchesHeld'
    BY <1>28, RemoveEffect DEF Placed, BranchesHeld
  <1>29. ASSUME NEW p \in Proc, Mark(p) PROVE BranchesHeld'
    BY <1>29, IdAssumption DEF Mark, Goto, Idle, TypeOK, Row, Tree, Placed, BranchesHeld, git, luvus
  <1>30. ASSUME NEW p \in Proc, Killed(p) PROVE BranchesHeld'
    BY <1>30, IdAssumption DEF Killed, Goto, Idle, TypeOK, Row, Tree, Placed, BranchesHeld, git,
       luvus
  <1>31. ASSUME NEW a \in AttemptId, NEW k \in TermId, LateCreate(a, k) PROVE BranchesHeld'
    BY <1>31, IdAssumption DEF LateCreate, Open, TypeOK, Row, Tree, Placed, BranchesHeld, git, luvus
  <1>32. ASSUME NEW k \in TermId, Work(k) PROVE BranchesHeld'
    BY <1>32, WorkEffect DEF Placed, BranchesHeld
  <1>33. ASSUME NEW k \in TermId, WorkerExits(k) PROVE BranchesHeld'
    BY <1>33, IdAssumption DEF WorkerExits, Kill, TypeOK, Row, Tree, Placed, BranchesHeld, git,
       luvus
  <1>34. ASSUME NEW S \in SUBSET TermId, Restart(S) PROVE BranchesHeld'
    BY <1>34, IdAssumption DEF Restart, TypeOK, Row, Tree, Placed, BranchesHeld, git, luvus
  <1>35. CASE UNCHANGED vars
    BY <1>35 DEF vars, git, luvus, Row, Tree, Placed, BranchesHeld
  <1> QED
    BY <1>1, <1>2, <1>3, <1>4, <1>5, <1>6, <1>7, <1>8, <1>9, <1>10, <1>11, <1>12,
       <1>13, <1>14, <1>15, <1>16, <1>17, <1>18, <1>19, <1>20, <1>21, <1>22, <1>23, <1>24,
       <1>25, <1>26, <1>27, <1>28, <1>29, <1>30, <1>31, <1>32, <1>33, <1>34, <1>35
       DEF Next, AttemptNext, OpNext, TermNext, Launcher, Proceed

\* The inductive invariant the theorems of this module rest on.
WInv == TypeOK /\ Placed /\ LaunchInOrder /\ RemovesEnded /\ BranchesHeld

\* At the start there is nothing to lose.
LEMMA WInit == Init => WInv
  BY IdAssumption DEF Init, WInv, TypeOK, Placed, LaunchInOrder, RemovesEnded, BranchesHeld,
     NoRow, Row, LiveStatus, EndStatus, NoTree, Tree, TermState, LaunchStep, Idle, OpState, Alive

\* The invariant holds from the start and survives every step.
LEMMA AlwaysWInv == Spec => []WInv
  <1>1. WInv /\ [Next]_vars => WInv'
    BY TypeStep, PlacedStep, LaunchStepInv, RemovesStep, BranchesStep DEF WInv
  <1> QED
    BY WInit, <1>1, PTL DEF Spec

\* Rows, worktrees, terminals, launchers and operations keep their types.
THEOREM TypeCorrect == Spec => []TypeOK
  <1>1. WInv => TypeOK
    BY DEF WInv
  <1> QED
    BY AlwaysWInv, <1>1, PTL

\* A running attempt has its worktree and branch to itself, for any number of
\* attempts that continue each other, operations and faults.
THEOREM WorkplaceKept == Spec => []RunningHasWorkplace
  <1>1. WInv => RunningHasWorkplace
    BY DEF WInv, LaunchInOrder, BranchesHeld, RunningHasWorkplace
  <1> QED
    BY AlwaysWInv, <1>1, PTL

-----------------------------------------------------------------------------
(* The rows change as FleetStore lets them *)

\* Starting an attempt is the store's AddAttempt.
LEMMA StartMaps ==
  ASSUME TypeOK, Placed, NEW a \in AttemptId, NEW prev \in AttemptId \cup {NoAttempt}, Start(a, prev)
  PROVE  Store!AddAttempt(a, 1, prev)
  <1> DEFINE new == [NoRow EXCEPT !.status = "launching", !.continues = prev # NoAttempt,
                                  !.branch = IF prev = NoAttempt THEN a ELSE row[prev].branch]
  <1>1. row' = [row EXCEPT ![a] = new]
    BY DEF Start
  <1>2. /\ new.status = "launching" /\ new.cleaned = FALSE
        /\ new.branch = IF prev = NoAttempt THEN a ELSE row[prev].branch
    BY DEF NoRow
  <1>3. \A b \in AttemptId : row'[b] = IF b = a THEN new ELSE row[b]
    BY <1>1 DEF TypeOK
  <1>4. \A b \in AttemptId :
          storeAttempt[b] = [task |-> IF row[b].status = "none" THEN 0 ELSE 1, status |-> row[b].status,
                             branch |-> row[b].branch, cleaned |-> row[b].cleaned]
    BY DEF storeAttempt
  <1>5. storeAttempt' = [storeAttempt EXCEPT ![a] =
          [task |-> 1, status |-> "launching",
           branch |-> IF prev = 0 THEN a ELSE storeAttempt[prev].branch, cleaned |-> FALSE]]
    <2> HIDE DEF new
    <2> QED
      BY ZenonT(40), <1>2, <1>3, <1>4, IdAssumption DEF storeAttempt
  <1>6. Store!NextId(a, storeAttempt)
    BY <1>4 DEF Store!NextId, Start, storeAttempt
  <1>7. prev # 0 => Store!CanContinue(1, prev)
    <2> SUFFICES ASSUME prev # 0 PROVE Store!CanContinue(1, prev)
      OBVIOUS
    <2>1. prev \in AttemptId /\ row[prev].status \in EndStatus /\ row[prev].cleaned
      BY IdAssumption DEF Start, Ended
    <2>2. /\ storeAttempt[prev].task = 1 /\ storeAttempt[prev].cleaned
          /\ storeAttempt[prev].status = row[prev].status
      BY <2>1 DEF EndStatus, storeAttempt
    <2> QED
      BY <2>1, <2>2 DEF EndStatus, Store!CanContinue, Store!Live, Store!LiveStatus
  <1>8. ~Store!HasLive(1)
    <2>1. \A b \in AttemptId : storeAttempt[b].status = row[b].status
      BY DEF storeAttempt
    <2>2. \A b \in AttemptId : row[b].status \notin {"launching", "running"}
      BY DEF Start, Live, LiveStatus
    <2> QED
      BY <2>1, <2>2 DEF Store!HasLive, Store!Live, Store!LiveStatus
  <1>9. [w \in {} |-> 0] = Store!cancelWaits(1)
    BY DEF Store!cancelWaits
  <1> QED
    BY <1>5, <1>6, <1>7, <1>8, <1>9 DEF Store!AddAttempt

\* Recording the terminal is AttemptRunning, or a conflict.
LEMMA RecordMaps ==
  ASSUME TypeOK, NEW a \in AttemptId, Record(a)
  PROVE  Store!AttemptRunning(a) \/ UNCHANGED storeAttempt
  <1>1. CASE row[a].status = "launching"
    <2>1. \A b \in AttemptId :
            /\ row'[b].branch = row[b].branch /\ row'[b].cleaned = row[b].cleaned
            /\ row'[b].status = IF b = a THEN "running" ELSE row[b].status
      BY <1>1, RecordEffect
    <2>2. storeAttempt' = [storeAttempt EXCEPT ![a].status = "running"]
      BY ZenonT(40), <1>1, <2>1 DEF storeAttempt
    <2> QED
      BY <1>1, <2>2 DEF Store!AttemptRunning, storeAttempt
  <1>2. CASE row[a].status # "launching"
    BY <1>2 DEF Record, storeAttempt
  <1> QED
    BY <1>1, <1>2

\* Ending a row is EndAttempt, or a conflict.
LEMMA EndMaps ==
  ASSUME TypeOK, NEW a \in AttemptId, NEW to \in EndStatus, EndRow(a, to)
  PROVE  Store!EndAttempt(a, to) \/ UNCHANGED storeAttempt
  <1>1. CASE to \in attemptEnds[row[a].status]
    <2>1. row' = [row EXCEPT ![a].status = to]
      BY <1>1 DEF EndRow
    <2>2. row[a].status \in LiveStatus
      BY <1>1 DEF TypeOK, Row, attemptEnds, LiveStatus, EndStatus
    <2>3. storeAttempt' = [storeAttempt EXCEPT ![a].status = to]
      <3>1. row \in [AttemptId -> Row] /\ row[a].status # "none" /\ to # "none"
        BY <2>2 DEF TypeOK, LiveStatus, EndStatus
      <3>2. row'[a] = [row[a] EXCEPT !.status = to] /\ (\A b \in AttemptId : b # a => row'[b] = row[b])
        BY <2>1, <3>1
      <3>3. row'[a].status = to /\ row'[a].branch = row[a].branch /\ row'[a].cleaned = row[a].cleaned
        BY <3>1, <3>2 DEF Row
      <3> QED BY <3>1, <3>2, <3>3 DEF storeAttempt
    <2>4. to \in Store!attemptEnds[storeAttempt[a].status]
      BY <1>1, <2>2 DEF attemptEnds, storeAttempt, Store!attemptEnds, Store!AttemptStatus,
         LiveStatus, EndStatus
    <2> QED
      BY <2>3, <2>4 DEF Store!EndAttempt
  <1>2. CASE to \notin attemptEnds[row[a].status]
    BY <1>2 DEF EndRow, storeAttempt
  <1> QED
    BY <1>1, <1>2

\* Marking an attempt is CleanAttempt, or a conflict.
LEMMA MarkMaps ==
  ASSUME TypeOK, NEW p \in Proc, op[p].a \in AttemptId, Mark(p)
  PROVE  Store!CleanAttempt(op[p].a) \/ UNCHANGED storeAttempt
  <1>0. PICK a \in AttemptId : a = op[p].a
    OBVIOUS
  <1> USE <1>0
  <1>1. CASE Ended(a) /\ ~row[a].cleaned
    <2>1. row' = [row EXCEPT ![a].cleaned = TRUE]
      BY <1>1 DEF Mark
    <2>2. /\ \A b \in AttemptId \ {a} : row'[b] = row[b]
          /\ row'[a].branch = row[a].branch /\ row'[a].status = row[a].status
          /\ row'[a].cleaned = TRUE
      BY <2>1 DEF TypeOK, Row
    <2>3. storeAttempt' = [storeAttempt EXCEPT ![a].cleaned = TRUE]
      <3>1. \A b \in AttemptId \ {a} : storeAttempt'[b] = storeAttempt[b]
        BY <2>2 DEF storeAttempt
      <3>2. storeAttempt'[a] = [storeAttempt[a] EXCEPT !.cleaned = TRUE]
        <4> DEFINE seen(c) == [task |-> IF row[a].status = "none" THEN 0 ELSE 1,
                               status |-> row[a].status, branch |-> row[a].branch, cleaned |-> c]
        <4>1. storeAttempt[a] = seen(row[a].cleaned)
          BY DEF storeAttempt
        <4>2. storeAttempt'[a] = seen(TRUE)
          BY <2>2 DEF storeAttempt
        <4>3. \A c : [seen(row[a].cleaned) EXCEPT !.cleaned = c] = seen(c)
          OBVIOUS
        <4>4. [seen(row[a].cleaned) EXCEPT !.cleaned = TRUE] = seen(TRUE)
          BY <4>3, Zenon
        <4> HIDE DEF seen
        <4> QED
          BY <4>1, <4>2, <4>4
      <3>3. /\ storeAttempt = [b \in AttemptId |-> storeAttempt[b]]
            /\ storeAttempt' = [b \in AttemptId |-> storeAttempt'[b]]
        BY DEF storeAttempt
      <3> QED
        BY <3>1, <3>2, <3>3
    <2> QED
      BY <1>1, <2>3 DEF Store!CleanAttempt, Store!Live, Store!LiveStatus, storeAttempt, Ended,
         EndStatus
  <1>2. CASE ~Ended(a)
    BY <1>2 DEF Mark, storeAttempt
  <1>3. CASE row[a].cleaned
    <2>1. row' = row \/ row' = [row EXCEPT ![a].cleaned = TRUE]
      BY DEF Mark
    <2>2. [row[a] EXCEPT !.cleaned = TRUE] = row[a]
      BY <1>3 DEF TypeOK, Row
    <2> QED
      BY <2>1, <2>2 DEF TypeOK, storeAttempt
  <1> QED
    BY <1>1, <1>2, <1>3

\* Whatever launcher, operations, Luvus and workers do, the rows change as the
\* store lets them, for any number of attempts.
THEOREM StoreImplemented == Spec => ImplementsStore
  <1> USE DEF Store!AttemptNext
  <1>1. ASSUME WInv, [Next]_vars PROVE [Store!Next]_(Store!vars)
    <2> USE <1>1 DEF WInv
    <2>1. ASSUME UNCHANGED storeAttempt PROVE UNCHANGED Store!vars
      BY <2>1 DEF Store!vars
    <2>2. ASSUME NEW a \in AttemptId, NEW prev \in AttemptId \cup {NoAttempt}, Start(a, prev)
          PROVE  Store!Next
      BY <2>2, StartMaps, IdAssumption DEF Store!Next
    <2>3. ASSUME NEW a \in AttemptId, Record(a) PROVE [Store!Next]_(Store!vars)
      BY <2>1, <2>3, RecordMaps DEF Store!Next
    <2>4. ASSUME NEW a \in AttemptId, Fail(a) PROVE [Store!Next]_(Store!vars)
      <3>1. Store!EndAttempt(a, "failed") \/ UNCHANGED storeAttempt
        BY <2>4, EndMaps DEF Fail, EndStatus
      <3> QED
        BY <2>1, <3>1 DEF Store!Next, Store!AttemptStatus
    <2>5. ASSUME NEW p \in Proc, End(p) PROVE [Store!Next]_(Store!vars)
      <3>1. op[p].a \in AttemptId /\ op[p].to \in EndStatus
        BY <2>5 DEF End, Placed, TypeOK, OpState
      <3>2. Store!EndAttempt(op[p].a, op[p].to) \/ UNCHANGED storeAttempt
        BY <2>5, <3>1, EndMaps DEF End
      <3> QED
        BY <2>1, <3>1, <3>2 DEF Store!Next, Store!AttemptStatus, EndStatus
    <2>6. ASSUME NEW p \in Proc, Mark(p) PROVE [Store!Next]_(Store!vars)
      <3>1. op[p].a \in AttemptId
        BY <2>6 DEF Mark, Placed
      <3>2. Store!CleanAttempt(op[p].a) \/ UNCHANGED storeAttempt
        BY <2>6, <3>1, MarkMaps
      <3> QED
        BY <2>1, <3>1, <3>2 DEF Store!Next
    <2>7. ASSUME NEW a \in AttemptId, GracePasses(a) PROVE UNCHANGED storeAttempt
      BY <2>7 DEF GracePasses, TypeOK, Row, storeAttempt
    <2>8. ASSUME NEW p \in Proc, Repoint(p) PROVE UNCHANGED storeAttempt
      BY <2>8, RepointEffect DEF storeAttempt
    <2>9. ASSUME UNCHANGED row PROVE UNCHANGED storeAttempt
      BY <2>9 DEF storeAttempt
    <2>10. CASE AttemptNext
      <3>1. ASSUME NEW a \in AttemptId,
                   \/ Add(a) \/ AddFails(a) \/ (\E k \in TermId : Create(a, k))
                   \/ CreateRefused(a) \/ CreateUnknown(a) \/ StopOwn(a) \/ CloseUnknown(a)
                   \/ Discard(a) \/ DropBranch(a) \/ LauncherDies(a)
                   \/ (\E k \in TermId : LateCreate(a, k))
            PROVE  UNCHANGED row
        BY <3>1 DEF Add, AddFails, Create, CreateRefused, CreateUnknown, StopOwn, CloseUnknown,
           Discard,
           DropBranch, LauncherDies, LateCreate
      <3> QED
        BY <2>1, <2>2, <2>3, <2>4, <2>7, <2>9, <2>10, <3>1 DEF AttemptNext, Launcher
    <2>11. CASE OpNext
      <3>1. ASSUME NEW p \in Proc,
                   \/ (\E a \in AttemptId :
                         \/ Settle(p, a) \/ Stop(p, a) \/ Switch(p, a) \/ Reap(p, a)
                         \/ (\E discard \in BOOLEAN : Clean(p, a, discard)))
                   \/ SettleClose(p) \/ StopKill(p) \/ (\E k \in TermId : Pane(p, k)) \/ PaneFails(p)
                   \/ Look(p) \/ Evict(p) \/ Remove(p) \/ Killed(p)
            PROVE  UNCHANGED row
        BY <3>1 DEF Settle, Stop, Switch, Reap, Clean, SettleClose, StopKill, Pane, PaneFails, Look,
           Evict, Remove, Killed
      <3> QED
        BY <2>1, <2>5, <2>6, <2>8, <2>9, <2>11, <3>1 DEF OpNext, Proceed
    <2>12. CASE TermNext \/ UNCHANGED vars
      <3>1. UNCHANGED row
        BY <2>12 DEF TermNext, Work, WorkerExits, Restart, vars
      <3> QED
        BY <2>1, <2>9, <3>1
    <2> QED
      BY <2>10, <2>11, <2>12 DEF Next
  <1> QED
    BY <1>1, AlwaysWInv, PTL DEF Spec, ImplementsStore

-----------------------------------------------------------------------------
(* The workers in the worktrees: the inductive invariant *)

\* Before its terminal is created nothing is, or will be, in an attempt's
\* worktree, and nothing was written there.
Untouched == {"none", "add", "create", "discard", "branch"}
Fresh ==
  /\ \A k \in TermId : term[k].status = "none" => term[k].of = NoAttempt
  /\ \A a \in AttemptId : launch[a] \in Untouched =>
       /\ \A k \in TermId : term[k].of # a
       /\ a \notin late /\ ~tree[a].dirty

\* Settle, stop and switch hold the attempt's lock, which only one can.
LockStep == {"close", "kill", "pane", "repoint", "end"}
Locks ==
  /\ \A p \in Proc : op[p].at \in LockStep => op[p].lock
  /\ \A p, q \in Proc : op[p].lock /\ op[q].lock /\ op[p].a = op[q].a => p = q

\* A create may be under way, or still be carried out, only while the attempt
\* has no worker.
Held ==
  /\ \A j, k \in TermId : Alive(j) /\ Alive(k) /\ term[j].of = term[k].of => j = k
  /\ \A k \in TermId : Alive(k) => term[k].of \notin late
  /\ \A a \in AttemptId : row[a].status = "running" => row[a].term \in TermId /\ term[row[a].term].of = a
  /\ \A p \in Proc :
       /\ op[p].at \in {"pane", "repoint"} => row[op[p].a].status = "running"
       /\ op[p].at = "pane" => op[p].a \notin late /\ \A k \in TermId : Alive(k) => term[k].of # op[p].a
       /\ op[p].at = "repoint" => op[p].term \in TermId /\ term[op[p].term].of = op[p].a

\* An attempt that ended under its launcher had outlived the grace.
Slow ==
  /\ \A p \in Proc :
       /\ op[p].at \in {"close", "end"} /\ op[p].to = "failed" => row[op[p].a].over
       /\ op[p].at = "mark" => ~tree[op[p].a].there \/ row[op[p].a].over
  /\ \A a \in AttemptId :
       /\ Ended(a) /\ launch[a] # "done" => row[a].over
       /\ row[a].cleaned => Ended(a) /\ (tree[a].there => row[a].over)

\* As long as nothing went wrong an attempt's last worker is gone before its
\* row ends, or its launcher is about to stop it.
Attended(a) == launch[a] \in {"record", "stop"} \/ \A k \in TermId : Alive(k) => term[k].of # a
Faultless ==
  /\ \A p \in Proc :
       op[p].at \in {"kill", "pane", "repoint"} \/ (op[p].at \in {"close", "end"} /\ op[p].to # "failed")
       => row[op[p].a].status # "launching"
  /\ faults = 0 =>
       /\ late = {}
       /\ \A a \in AttemptId :
            /\ launch[a] # "unknown" /\ (launch[a] = "done" => row[a].status # "launching")
            /\ launch[a] = "fail" \/ Ended(a) => Attended(a)
       /\ \A p \in Proc : op[p].at = "end" =>
            Attended(op[p].a) \/ (row[op[p].a].status = "running" /\ op[p].to = "failed")

XInv == WInv /\ Fresh /\ Locks /\ Held /\ Slow /\ Faultless /\ EditsKept

-----------------------------------------------------------------------------
(* What the steps that branch do to the workers' state *)

\* An operation that ends its work holds no lock.
LEMMA IdleOver ==
  ASSUME TypeOK, NEW p \in Proc, op' = [op EXCEPT ![p] = Idle]
  PROVE  /\ op'[p].at = "idle" /\ ~op'[p].lock
         /\ \A r \in Proc \ {p} : op'[r] = op[r]
  BY DEF TypeOK, Idle

\* Record points a launching row at the terminal made for it.
LEMMA RecordPoints ==
  ASSUME TypeOK, NEW a \in AttemptId, Record(a)
  PROVE  /\ \A b \in AttemptId :
              /\ row'[b].over = row[b].over
              /\ row'[b].term = row[b].term \/
                   (/\ b = a /\ row[a].status = "launching"
                    /\ row'[b].term \in TermId /\ term[row'[b].term].of = a)
              /\ row[a].status = "launching" => row'[a].term \in TermId /\ term[row'[a].term].of = a
         /\ UNCHANGED <<late, faults, lost>>
  <1>1. CASE row[a].status = "launching"
    <2>1. PICK k \in TermId : term[k].of = a /\ row' = [row EXCEPT ![a].status = "running", ![a].term = k]
      BY <1>1 DEF Record
    <2>2. \A b \in AttemptId : row'[b] = IF b = a THEN [row[a] EXCEPT !.status = "running", !.term = k] ELSE row[b]
      BY <2>1 DEF TypeOK, Row
    <2>3. [row[a] EXCEPT !.status = "running", !.term = k].term = k
          /\ [row[a] EXCEPT !.status = "running", !.term = k].over = row[a].over
      BY DEF TypeOK, Row
    <2> QED
      BY ZenonT(40), <1>1, <2>1, <2>2, <2>3 DEF Record, luvus
  <1>2. CASE row[a].status # "launching"
    BY <1>2 DEF Record, luvus
  <1> QED
    BY <1>1, <1>2

\* Repoint always finds its attempt running: the lock keeps it so.
LEMMA RepointPoints ==
  ASSUME XInv, NEW p \in Proc, Repoint(p)
  PROVE  /\ op[p].at = "repoint" /\ row[op[p].a].status = "running"
         /\ \A b \in AttemptId :
              /\ row'[b].status = row[b].status /\ row'[b].over = row[b].over
              /\ row'[b].cleaned = row[b].cleaned
              /\ row'[b].term = IF b = op[p].a THEN op[p].term ELSE row[b].term
         /\ op'[p].at = "idle" /\ ~op'[p].lock
         /\ \A r \in Proc \ {p} : op'[r] = op[r]
         /\ UNCHANGED <<tree, launch, term, late, faults, lost>>
  <1>1. op[p].at = "repoint" /\ row[op[p].a].status = "running"
    BY DEF Repoint, XInv, Held
  <1>2. row' = [row EXCEPT ![op[p].a].term = op[p].term] /\ op' = [op EXCEPT ![p] = Idle]
    BY <1>1 DEF Repoint, Goto
  <1>3. UNCHANGED <<tree, launch, term, late, faults, lost>>
    BY <1>1 DEF Repoint, git
  <1>4. \A b \in AttemptId :
          /\ row'[b].status = row[b].status /\ row'[b].over = row[b].over
          /\ row'[b].cleaned = row[b].cleaned
          /\ row'[b].term = IF b = op[p].a THEN op[p].term ELSE row[b].term
    BY <1>2 DEF XInv, WInv, TypeOK, Row
  <1> QED
    BY <1>1, <1>2, <1>3, <1>4, IdleOver DEF XInv, WInv

\* Look and Remove: on to the mark only where no worktree is.
LEMMA RemovalEffect ==
  ASSUME TypeOK, NEW p \in Proc, Look(p) \/ Remove(p)
  PROVE  /\ op[p].at \in {"look", "remove"}
         /\ \A r \in Proc \ {p} : op'[r] = op[r]
         /\ \/ op'[p].at = "idle" /\ ~op'[p].lock
            \/ /\ op'[p].at \in {"mark", "evict", "remove"}
               /\ op'[p].a = op[p].a /\ op'[p].lock = op[p].lock
         /\ op'[p].at = "mark" /\ op[p].a \in AttemptId => ~tree'[op[p].a].there
         /\ \A b \in AttemptId : tree'[b] = tree[b] \/ ~tree'[b].there
         /\ UNCHANGED <<row, launch, term, late, faults>>
  <1> DEFINE a == op[p].a
  <1>0. op[p] \in OpState
    BY DEF TypeOK
  <1>1. /\ op[p].at \in {"look", "remove"} /\ UNCHANGED <<row, launch, term, late, faults>>
        /\ tree' = tree \/ tree' = [tree EXCEPT ![a] = NoTree]
    BY DEF Look, Remove, git, luvus
  <1>2. \/ op' = [op EXCEPT ![p] = Idle]
        \/ op' = [op EXCEPT ![p] = [op[p] EXCEPT !.at = "evict"]]
        \/ op' = [op EXCEPT ![p] = [op[p] EXCEPT !.at = "remove"]]
        \/ /\ op' = [op EXCEPT ![p] = [op[p] EXCEPT !.at = "mark"]]
           /\ (tree' = tree /\ ~tree[a].there) \/ tree' = [tree EXCEPT ![a] = NoTree]
    BY DEF Look, Remove, Then, Goto, git
  <1>3. \A r \in Proc \ {p} : op'[r] = op[r]
    BY <1>2 DEF TypeOK
  <1>4. \/ op'[p].at = "idle" /\ ~op'[p].lock
        \/ op'[p].at \in {"mark", "evict", "remove"} /\ op'[p].a = op[p].a /\ op'[p].lock = op[p].lock
    BY <1>0, <1>2, IdleOver DEF TypeOK, OpState
  <1>5. op'[p].at = "mark" => (tree' = tree /\ ~tree[a].there) \/ tree' = [tree EXCEPT ![a] = NoTree]
    BY <1>0, <1>2, IdleOver DEF TypeOK, OpState
  <1>6. \A b \in AttemptId : tree'[b] = tree[b] \/ ~tree'[b].there
    BY <1>1 DEF TypeOK, NoTree
  <1>7. op'[p].at = "mark" /\ a \in AttemptId => ~tree'[a].there
    BY <1>5 DEF TypeOK, NoTree
  <1> QED
    BY <1>1, <1>3, <1>4, <1>6, <1>7

\* End ends a launching row only as failed, and a running one never so.
LEMMA EndsAs ==
  ASSUME TypeOK, NEW p \in Proc, End(p)
  PROVE  /\ op[p].at = "end"
         /\ \A b \in AttemptId :
              /\ row'[b].over = row[b].over /\ row'[b].term = row[b].term /\ row'[b].cleaned = row[b].cleaned
              /\ \/ row'[b].status = row[b].status
                 \/ /\ b = op[p].a /\ row'[b].status = op[p].to /\ op[p].to \in EndStatus
                    /\ \/ row[b].status = "launching" /\ op[p].to = "failed"
                       \/ row[b].status = "running" /\ op[p].to # "failed"
         /\ op'[p].at = "idle" /\ ~op'[p].lock
         /\ \A r \in Proc \ {p} : op'[r] = op[r]
         /\ UNCHANGED <<tree, launch, term, late, faults, lost>>
  <1>1. op' = [op EXCEPT ![p] = Idle] /\ op[p].at = "end" /\ UNCHANGED <<tree, launch, term, late, faults, lost>>
    BY DEF End, Goto, git, luvus
  <1>2. op[p].to \in EndStatus
    BY DEF TypeOK, OpState
  <1>3. op[p].a \in AttemptId /\ op[p].to \in attemptEnds[row[op[p].a].status]
        => \/ row[op[p].a].status = "launching" /\ op[p].to = "failed"
           \/ row[op[p].a].status = "running" /\ op[p].to # "failed"
    BY DEF TypeOK, Row, attemptEnds, LiveStatus, EndStatus
  <1>4. row' = row \/ (/\ op[p].to \in attemptEnds[row[op[p].a].status]
                       /\ row' = [row EXCEPT ![op[p].a].status = op[p].to])
    BY DEF End, EndRow
  <1>5. \A b \in AttemptId :
          /\ row'[b].over = row[b].over /\ row'[b].term = row[b].term /\ row'[b].cleaned = row[b].cleaned
          /\ \/ row'[b].status = row[b].status
             \/ /\ b = op[p].a /\ row'[b].status = op[p].to /\ op[p].to \in attemptEnds[row[op[p].a].status]
    BY <1>4 DEF TypeOK, Row
  <1> QED
    BY <1>1, <1>2, <1>3, <1>5, IdleOver

\* What Luvus may have made when it did not answer.
LEMMA UnknownEffect ==
  ASSUME TypeOK, NEW a \in AttemptId, CreateUnknown(a)
  PROVE  \/ term' = term /\ late' \in {late, late \cup {a}}
         \/ /\ late' = late
            /\ \E k \in TermId :
                 /\ term[k].status = "none" /\ term'[k].of = a /\ term'[k].status = "open"
                 /\ \A j \in TermId \ {k} : term'[j] = term[j]
  <1>1. CASE UNCHANGED term
    BY <1>1 DEF CreateUnknown
  <1>2. ASSUME NEW k \in TermId, Open(k, a), UNCHANGED late
        PROVE  /\ late' = late
               /\ term[k].status = "none" /\ term'[k].of = a /\ term'[k].status = "open"
               /\ \A j \in TermId \ {k} : term'[j] = term[j]
    BY <1>2 DEF Open, NewTerm, TypeOK
  <1> QED
    BY <1>1, <1>2 DEF CreateUnknown


\* Until its terminal is created an attempt's worktree stays as the launcher made it.
LEMMA FreshStep == XInv /\ [Next]_vars => Fresh'
  <1> SUFFICES ASSUME XInv, [Next]_vars PROVE Fresh'
    OBVIOUS
  <1>1. ASSUME NEW a \in AttemptId, NEW prev \in AttemptId \cup {NoAttempt}, Start(a, prev) PROVE Fresh'
    BY <1>1, IdAssumption DEF Start, Step, NoRow, Live, LiveStatus, XInv, WInv, Placed, Fresh,
       Untouched, TypeOK, Row, Tree, TermState, OpState, git, luvus, Alive
  <1>2. ASSUME NEW a \in AttemptId, Add(a) PROVE Fresh'
    BY <1>2, IdAssumption DEF Add, CanAdd, Step, NewTree, NoTree, XInv, WInv, Placed, Fresh,
       Untouched, TypeOK, Row, Tree, TermState, OpState, git, luvus, Alive
  <1>3. ASSUME NEW a \in AttemptId, AddFails(a) PROVE Fresh'
    BY <1>3, IdAssumption DEF AddFails, Step, Fault, XInv, WInv, Placed, Fresh, Untouched, TypeOK,
       Row, Tree, TermState, OpState, git, luvus, Alive
  <1>4. ASSUME NEW a \in AttemptId, NEW k \in TermId, Create(a, k) PROVE Fresh'
    BY <1>4, IdAssumption DEF Create, Step, Open, NewTerm, XInv, WInv, Placed, Fresh, Untouched,
       TypeOK, Row, Tree, TermState, OpState, git, luvus, Alive
  <1>5. ASSUME NEW a \in AttemptId, CreateRefused(a) PROVE Fresh'
    BY <1>5, IdAssumption DEF CreateRefused, Step, Fault, XInv, WInv, Placed, Fresh, Untouched,
       TypeOK, Row, Tree, TermState, OpState, git, luvus, Alive
  <1>6. ASSUME NEW a \in AttemptId, CreateUnknown(a) PROVE Fresh'
    BY <1>6, IdAssumption DEF CreateUnknown, Step, Open, NewTerm, Fault, XInv, WInv, Placed, Fresh,
       Untouched, TypeOK, Row, Tree, TermState, OpState, git, luvus, Alive
  <1>7. ASSUME NEW a \in AttemptId, Record(a) PROVE Fresh'
    BY <1>7, IdAssumption DEF Record, Step, XInv, WInv, Placed, Fresh, Untouched, TypeOK, Row,
       Tree, TermState, OpState, git, luvus, Alive
  <1>8. ASSUME NEW a \in AttemptId, StopOwn(a) PROVE Fresh'
    BY <1>8, IdAssumption DEF StopOwn, Step, Kill, Workers, XInv, WInv, Placed, Fresh, Untouched,
       TypeOK, Row, Tree, TermState, OpState, git, luvus, Alive
  <1>9. ASSUME NEW a \in AttemptId, CloseUnknown(a) PROVE Fresh'
    BY <1>9, IdAssumption DEF CloseUnknown, Step, Kill, Workers, XInv, WInv, Placed, Fresh,
       Untouched, TypeOK, Row, Tree, TermState, OpState, git, luvus, Alive
  <1>10. ASSUME NEW a \in AttemptId, Discard(a) PROVE Fresh'
    BY <1>10, IdAssumption DEF Discard, Step, NoTree, Loss, XInv, WInv, Placed, Fresh, Untouched,
       TypeOK, Row, Tree, TermState, OpState, git, luvus, Alive
  <1>11. ASSUME NEW a \in AttemptId, DropBranch(a) PROVE Fresh'
    BY <1>11, IdAssumption DEF DropBranch, Step, XInv, WInv, Placed, Fresh, Untouched, TypeOK, Row,
       Tree, TermState, OpState, git, luvus, Alive
  <1>12. ASSUME NEW a \in AttemptId, Fail(a) PROVE Fresh'
    BY <1>12, IdAssumption DEF Fail, Step, EndRow, attemptEnds, LiveStatus, EndStatus, XInv, WInv,
       Placed, Fresh, Untouched, TypeOK, Row, Tree, TermState, OpState, git, luvus, Alive
  <1>13. ASSUME NEW a \in AttemptId, LauncherDies(a) PROVE Fresh'
    BY <1>13, IdAssumption DEF LauncherDies, Fault, XInv, WInv, Placed, Fresh, Untouched, TypeOK,
       Row, Tree, TermState, OpState, git, luvus, Alive
  <1>14. ASSUME NEW a \in AttemptId, GracePasses(a) PROVE Fresh'
    BY <1>14, IdAssumption DEF GracePasses, XInv, WInv, Placed, Fresh, Untouched, TypeOK, Row,
       Tree, TermState, OpState, git, luvus, Alive
  <1>15. ASSUME NEW p \in Proc, NEW a \in AttemptId, Settle(p, a) PROVE Fresh'
    BY <1>15, IdAssumption DEF Settle, Goto, Idle, Live, LiveStatus, LockFree, observeTerminal,
       XInv, WInv, Placed, Fresh, Untouched, TypeOK, Row, Tree, TermState, OpState, git, luvus,
       Alive
  <1>16. ASSUME NEW p \in Proc, SettleClose(p) PROVE Fresh'
    BY <1>16, IdAssumption DEF SettleClose, Goto, Then, Kill, Workers, XInv, WInv, Placed, Fresh,
       Untouched, TypeOK, Row, Tree, TermState, OpState, git, luvus, Alive
  <1>17. ASSUME NEW p \in Proc, End(p) PROVE Fresh'
    BY <1>17, IdAssumption DEF End, Goto, Idle, EndRow, attemptEnds, LiveStatus, EndStatus, XInv,
       WInv, Placed, Fresh, Untouched, TypeOK, Row, Tree, TermState, OpState, git, luvus, Alive
  <1>18. ASSUME NEW p \in Proc, NEW a \in AttemptId, Stop(p, a) PROVE Fresh'
    BY <1>18, IdAssumption DEF Stop, Goto, Idle, LockFree, XInv, WInv, Placed, Fresh, Untouched,
       TypeOK, Row, Tree, TermState, OpState, git, luvus, Alive
  <1>19. ASSUME NEW p \in Proc, StopKill(p) PROVE Fresh'
    BY <1>19, IdAssumption DEF StopKill, Goto, Kill, Workers, XInv, WInv, Placed, Fresh, Untouched,
       TypeOK, Row, Tree, TermState, OpState, git, luvus, Alive
  <1>20. ASSUME NEW p \in Proc, NEW a \in AttemptId, Switch(p, a) PROVE Fresh'
    BY <1>20, IdAssumption DEF Switch, Goto, Idle, Kill, LockFree, XInv, WInv, Placed, Fresh,
       Untouched, TypeOK, Row, Tree, TermState, OpState, git, luvus, Alive
  <1>21. ASSUME NEW p \in Proc, NEW k \in TermId, Pane(p, k) PROVE Fresh'
    <2>1. launch[op[p].a] = "done" \/ op[p].at # "pane"
      BY DEF XInv, WInv, Placed, LaunchInOrder, Held
    <2> QED
      BY <1>21, <2>1, IdAssumption DEF Pane, Goto, Idle, Open, NewTerm, Fault, XInv, WInv, Placed,
         Fresh, Untouched, TypeOK, OpState, TermState, git, luvus
  <1>22. ASSUME NEW p \in Proc, PaneFails(p) PROVE Fresh'
    <2>1. launch[op[p].a] = "done" \/ op[p].at # "pane"
      BY DEF XInv, WInv, Placed, LaunchInOrder, Held
    <2> QED
      BY <1>22, <2>1, IdAssumption DEF PaneFails, Goto, Idle, Open, NewTerm, Fault, XInv, WInv,
         Placed, Fresh, Untouched, TypeOK, OpState, TermState, git, luvus
  <1>23. ASSUME NEW p \in Proc, Repoint(p) PROVE Fresh'
    BY <1>23, RepointPoints DEF XInv, Fresh
  <1>24. ASSUME NEW p \in Proc, NEW a \in AttemptId, NEW discard \in BOOLEAN, Clean(p, a, discard) PROVE Fresh'
    BY <1>24, IdAssumption DEF Clean, Goto, Idle, XInv, WInv, Placed, Fresh, Untouched, TypeOK,
       Row, Tree, TermState, OpState, git, luvus, Alive
  <1>25. ASSUME NEW p \in Proc, NEW a \in AttemptId, Reap(p, a) PROVE Fresh'
    BY <1>25, IdAssumption DEF Reap, Goto, Idle, LockFree, XInv, WInv, Placed, Fresh, Untouched,
       TypeOK, Row, Tree, TermState, OpState, git, luvus, Alive
  <1>26. ASSUME NEW p \in Proc, Look(p) PROVE Fresh'
    BY <1>26, IdAssumption DEF Look, Goto, Then, Idle, XInv, WInv, Placed, Fresh, Untouched,
       TypeOK, Row, Tree, TermState, OpState, git, luvus, Alive
  <1>27. ASSUME NEW p \in Proc, Evict(p) PROVE Fresh'
    BY <1>27, IdAssumption DEF Evict, Goto, Then, Kill, Workers, XInv, WInv, Placed, Fresh,
       Untouched, TypeOK, Row, Tree, TermState, OpState, git, luvus, Alive
  <1>28. ASSUME NEW p \in Proc, Remove(p) PROVE Fresh'
    BY <1>28, IdAssumption DEF Remove, Goto, Then, Idle, NoTree, Loss, XInv, WInv, Placed, Fresh,
       Untouched, TypeOK, Row, Tree, TermState, OpState, git, luvus, Alive
  <1>29. ASSUME NEW p \in Proc, Mark(p) PROVE Fresh'
    BY <1>29, IdAssumption DEF Mark, Goto, Idle, XInv, WInv, Placed, Fresh, Untouched, TypeOK, Row,
       Tree, TermState, OpState, git, luvus, Alive
  <1>30. ASSUME NEW p \in Proc, Killed(p) PROVE Fresh'
    <2>1. launch[op[p].a] = "done" \/ op[p].at # "pane"
      BY DEF XInv, WInv, Placed, LaunchInOrder, Held
    <2> QED
      BY <1>30, <2>1, IdAssumption DEF Killed, Goto, Idle, Open, NewTerm, Fault, XInv, WInv,
         Placed, Fresh, Untouched, TypeOK, OpState, TermState, git, luvus
  <1>31. ASSUME NEW a \in AttemptId, NEW k \in TermId, LateCreate(a, k) PROVE Fresh'
    BY <1>31, IdAssumption DEF LateCreate, Open, NewTerm, XInv, WInv, Placed, Fresh, Untouched,
       TypeOK, Row, Tree, TermState, OpState, git, luvus, Alive
  <1>32. ASSUME NEW k \in TermId, Work(k) PROVE Fresh'
    BY <1>32, IdAssumption DEF Work, XInv, WInv, Placed, Fresh, Untouched, TypeOK, Row, Tree,
       TermState, OpState, git, luvus, Alive
  <1>33. ASSUME NEW k \in TermId, WorkerExits(k) PROVE Fresh'
    BY <1>33, IdAssumption DEF WorkerExits, Kill, XInv, WInv, Placed, Fresh, Untouched, TypeOK,
       Row, Tree, TermState, OpState, git, luvus, Alive
  <1>34. ASSUME NEW S \in SUBSET TermId, Restart(S) PROVE Fresh'
    BY <1>34, IdAssumption DEF Restart, Fault, XInv, WInv, Placed, Fresh, Untouched, TypeOK, Row,
       Tree, TermState, OpState, git, luvus, Alive
  <1>35. CASE UNCHANGED vars
    BY <1>35 DEF vars, XInv, WInv, Placed, Fresh, Untouched, TypeOK, Row, Tree, TermState, OpState,
       git, luvus, Alive
  <1> QED
    BY <1>1, <1>2, <1>3, <1>4, <1>5, <1>6, <1>7, <1>8, <1>9, <1>10, <1>11, <1>12, <1>13, <1>14,
       <1>15, <1>16, <1>17, <1>18, <1>19, <1>20, <1>21, <1>22, <1>23, <1>24, <1>25, <1>26, <1>27,
       <1>28, <1>29, <1>30, <1>31, <1>32, <1>33, <1>34, <1>35
       DEF Next, AttemptNext, OpNext, TermNext, Launcher, Proceed

\* An attempt's lock has one holder at most.
LEMMA LocksStep == XInv /\ [Next]_vars => Locks'
  <1> SUFFICES ASSUME XInv, [Next]_vars PROVE Locks'
    OBVIOUS
  <1>1. ASSUME NEW a \in AttemptId, NEW prev \in AttemptId \cup {NoAttempt}, Start(a, prev) PROVE Locks'
    BY <1>1, IdAssumption DEF Start, Step, NoRow, Live, LiveStatus, XInv, WInv, Locks, LockStep,
       TypeOK, Row, Tree, TermState, OpState, git, luvus, Alive
  <1>2. ASSUME NEW a \in AttemptId, Add(a) PROVE Locks'
    BY <1>2, IdAssumption DEF Add, CanAdd, Step, NewTree, NoTree, XInv, WInv, Locks, LockStep,
       TypeOK, Row, Tree, TermState, OpState, git, luvus, Alive
  <1>3. ASSUME NEW a \in AttemptId, AddFails(a) PROVE Locks'
    BY <1>3, IdAssumption DEF AddFails, Step, Fault, XInv, WInv, Locks, LockStep, TypeOK, Row,
       Tree, TermState, OpState, git, luvus, Alive
  <1>4. ASSUME NEW a \in AttemptId, NEW k \in TermId, Create(a, k) PROVE Locks'
    BY <1>4, IdAssumption DEF Create, Step, Open, NewTerm, XInv, WInv, Locks, LockStep, TypeOK,
       Row, Tree, TermState, OpState, git, luvus, Alive
  <1>5. ASSUME NEW a \in AttemptId, CreateRefused(a) PROVE Locks'
    BY <1>5, IdAssumption DEF CreateRefused, Step, Fault, XInv, WInv, Locks, LockStep, TypeOK, Row,
       Tree, TermState, OpState, git, luvus, Alive
  <1>6. ASSUME NEW a \in AttemptId, CreateUnknown(a) PROVE Locks'
    BY <1>6, IdAssumption DEF CreateUnknown, Step, Open, NewTerm, Fault, XInv, WInv, Locks,
       LockStep, TypeOK, Row, Tree, TermState, OpState, git, luvus, Alive
  <1>7. ASSUME NEW a \in AttemptId, Record(a) PROVE Locks'
    BY <1>7, IdAssumption DEF Record, Step, XInv, WInv, Locks, LockStep, TypeOK, Row, Tree,
       TermState, OpState, git, luvus, Alive
  <1>8. ASSUME NEW a \in AttemptId, StopOwn(a) PROVE Locks'
    BY <1>8, IdAssumption DEF StopOwn, Step, Kill, Workers, XInv, WInv, Locks, LockStep, TypeOK,
       Row, Tree, TermState, OpState, git, luvus, Alive
  <1>9. ASSUME NEW a \in AttemptId, CloseUnknown(a) PROVE Locks'
    BY <1>9, IdAssumption DEF CloseUnknown, Step, Kill, Workers, XInv, WInv, Locks, LockStep,
       TypeOK, Row, Tree, TermState, OpState, git, luvus, Alive
  <1>10. ASSUME NEW a \in AttemptId, Discard(a) PROVE Locks'
    BY <1>10, IdAssumption DEF Discard, Step, NoTree, Loss, XInv, WInv, Locks, LockStep, TypeOK,
       Row, Tree, TermState, OpState, git, luvus, Alive
  <1>11. ASSUME NEW a \in AttemptId, DropBranch(a) PROVE Locks'
    BY <1>11, IdAssumption DEF DropBranch, Step, XInv, WInv, Locks, LockStep, TypeOK, Row, Tree,
       TermState, OpState, git, luvus, Alive
  <1>12. ASSUME NEW a \in AttemptId, Fail(a) PROVE Locks'
    BY <1>12, IdAssumption DEF Fail, Step, EndRow, attemptEnds, LiveStatus, EndStatus, XInv, WInv,
       Locks, LockStep, TypeOK, Row, Tree, TermState, OpState, git, luvus, Alive
  <1>13. ASSUME NEW a \in AttemptId, LauncherDies(a) PROVE Locks'
    BY <1>13, IdAssumption DEF LauncherDies, Fault, XInv, WInv, Locks, LockStep, TypeOK, Row, Tree,
       TermState, OpState, git, luvus, Alive
  <1>14. ASSUME NEW a \in AttemptId, GracePasses(a) PROVE Locks'
    BY <1>14, IdAssumption DEF GracePasses, XInv, WInv, Locks, LockStep, TypeOK, Row, Tree,
       TermState, OpState, git, luvus, Alive
  <1>15. ASSUME NEW p \in Proc, NEW a \in AttemptId, Settle(p, a) PROVE Locks'
    BY <1>15, IdAssumption DEF Settle, Goto, Idle, Live, LiveStatus, LockFree, observeTerminal,
       XInv, WInv, Locks, LockStep, TypeOK, Row, Tree, TermState, OpState, git, luvus, Alive
  <1>16. ASSUME NEW p \in Proc, SettleClose(p) PROVE Locks'
    BY <1>16, IdAssumption DEF SettleClose, Goto, Then, Kill, Workers, XInv, WInv, Locks, LockStep,
       TypeOK, Row, Tree, TermState, OpState, git, luvus, Alive
  <1>17. ASSUME NEW p \in Proc, End(p) PROVE Locks'
    BY <1>17, IdAssumption DEF End, Goto, Idle, EndRow, attemptEnds, LiveStatus, EndStatus, XInv,
       WInv, Locks, LockStep, TypeOK, Row, Tree, TermState, OpState, git, luvus, Alive
  <1>18. ASSUME NEW p \in Proc, NEW a \in AttemptId, Stop(p, a) PROVE Locks'
    BY <1>18, IdAssumption DEF Stop, Goto, Idle, LockFree, XInv, WInv, Locks, LockStep, TypeOK,
       Row, Tree, TermState, OpState, git, luvus, Alive
  <1>19. ASSUME NEW p \in Proc, StopKill(p) PROVE Locks'
    BY <1>19, IdAssumption DEF StopKill, Goto, Kill, Workers, XInv, WInv, Locks, LockStep, TypeOK,
       Row, Tree, TermState, OpState, git, luvus, Alive
  <1>20. ASSUME NEW p \in Proc, NEW a \in AttemptId, Switch(p, a) PROVE Locks'
    BY <1>20, IdAssumption DEF Switch, Goto, Idle, Kill, LockFree, XInv, WInv, Locks, LockStep,
       TypeOK, Row, Tree, TermState, OpState, git, luvus, Alive
  <1>21. ASSUME NEW p \in Proc, NEW k \in TermId, Pane(p, k) PROVE Locks'
    BY <1>21, IdAssumption DEF Pane, Goto, Open, NewTerm, XInv, WInv, Locks, LockStep, TypeOK, Row,
       Tree, TermState, OpState, git, luvus, Alive
  <1>22. ASSUME NEW p \in Proc, PaneFails(p) PROVE Locks'
    BY <1>22, IdAssumption DEF PaneFails, Goto, Fault, XInv, WInv, Locks, LockStep, TypeOK, Row,
       Tree, TermState, OpState, git, luvus, Alive
  <1>23. ASSUME NEW p \in Proc, Repoint(p) PROVE Locks'
    BY <1>23, RepointPoints DEF XInv, WInv, Locks, LockStep
  <1>24. ASSUME NEW p \in Proc, NEW a \in AttemptId, NEW discard \in BOOLEAN, Clean(p, a, discard) PROVE Locks'
    BY <1>24, IdAssumption DEF Clean, Goto, Idle, XInv, WInv, Locks, LockStep, TypeOK, Row, Tree,
       TermState, OpState, git, luvus, Alive
  <1>25. ASSUME NEW p \in Proc, NEW a \in AttemptId, Reap(p, a) PROVE Locks'
    BY <1>25, IdAssumption DEF Reap, Goto, Idle, LockFree, XInv, WInv, Locks, LockStep, TypeOK,
       Row, Tree, TermState, OpState, git, luvus, Alive
  <1>26. ASSUME NEW p \in Proc, Look(p) PROVE Locks'
    BY <1>26, RemovalEffect DEF XInv, WInv, Locks, LockStep
  <1>27. ASSUME NEW p \in Proc, Evict(p) PROVE Locks'
    BY <1>27, IdAssumption DEF Evict, Goto, Then, Kill, Workers, XInv, WInv, Locks, LockStep,
       TypeOK, Row, Tree, TermState, OpState, git, luvus, Alive
  <1>28. ASSUME NEW p \in Proc, Remove(p) PROVE Locks'
    BY <1>28, RemovalEffect DEF XInv, WInv, Locks, LockStep
  <1>29. ASSUME NEW p \in Proc, Mark(p) PROVE Locks'
    BY <1>29, IdAssumption DEF Mark, Goto, Idle, XInv, WInv, Locks, LockStep, TypeOK, Row, Tree,
       TermState, OpState, git, luvus, Alive
  <1>30. ASSUME NEW p \in Proc, Killed(p) PROVE Locks'
    BY <1>30, IdAssumption DEF Killed, Goto, Idle, Fault, XInv, WInv, Locks, LockStep, TypeOK, Row,
       Tree, TermState, OpState, git, luvus, Alive
  <1>31. ASSUME NEW a \in AttemptId, NEW k \in TermId, LateCreate(a, k) PROVE Locks'
    BY <1>31, IdAssumption DEF LateCreate, Open, NewTerm, XInv, WInv, Locks, LockStep, TypeOK, Row,
       Tree, TermState, OpState, git, luvus, Alive
  <1>32. ASSUME NEW k \in TermId, Work(k) PROVE Locks'
    BY <1>32, IdAssumption DEF Work, XInv, WInv, Locks, LockStep, TypeOK, Row, Tree, TermState,
       OpState, git, luvus, Alive
  <1>33. ASSUME NEW k \in TermId, WorkerExits(k) PROVE Locks'
    BY <1>33, IdAssumption DEF WorkerExits, Kill, XInv, WInv, Locks, LockStep, TypeOK, Row, Tree,
       TermState, OpState, git, luvus, Alive
  <1>34. ASSUME NEW S \in SUBSET TermId, Restart(S) PROVE Locks'
    BY <1>34, IdAssumption DEF Restart, Fault, XInv, WInv, Locks, LockStep, TypeOK, Row, Tree,
       TermState, OpState, git, luvus, Alive
  <1>35. CASE UNCHANGED vars
    BY <1>35 DEF vars, XInv, WInv, Locks, LockStep, TypeOK, Row, Tree, TermState, OpState, git,
       luvus, Alive
  <1> QED
    BY <1>1, <1>2, <1>3, <1>4, <1>5, <1>6, <1>7, <1>8, <1>9, <1>10, <1>11, <1>12, <1>13, <1>14,
       <1>15, <1>16, <1>17, <1>18, <1>19, <1>20, <1>21, <1>22, <1>23, <1>24, <1>25, <1>26, <1>27,
       <1>28, <1>29, <1>30, <1>31, <1>32, <1>33, <1>34, <1>35
       DEF Next, AttemptNext, OpNext, TermNext, Launcher, Proceed

\* No worker starts where one is, or where another may.
LEMMA HeldStep == XInv /\ [Next]_vars => Held'
  <1> SUFFICES ASSUME XInv, [Next]_vars PROVE Held'
    OBVIOUS
  <1>1. ASSUME NEW a \in AttemptId, NEW prev \in AttemptId \cup {NoAttempt}, Start(a, prev) PROVE Held'
    BY <1>1, IdAssumption DEF Start, Step, NoRow, Live, LiveStatus, XInv, WInv, Placed,
       LaunchInOrder, Fresh, Untouched, Locks, LockStep, Held, Ended, EndStatus, TypeOK, Row, Tree,
       TermState, OpState, git, luvus, Alive
  <1>2. ASSUME NEW a \in AttemptId, Add(a) PROVE Held'
    BY <1>2, IdAssumption DEF Add, CanAdd, Step, NewTree, NoTree, XInv, WInv, Placed,
       LaunchInOrder, Fresh, Untouched, Locks, LockStep, Held, Ended, EndStatus, TypeOK, Row, Tree,
       TermState, OpState, git, luvus, Alive
  <1>3. ASSUME NEW a \in AttemptId, AddFails(a) PROVE Held'
    BY <1>3, IdAssumption DEF AddFails, Step, Fault, XInv, WInv, Placed, LaunchInOrder, Fresh,
       Untouched, Locks, LockStep, Held, Ended, EndStatus, TypeOK, Row, Tree, TermState, OpState,
       git, luvus, Alive
  <1>4. ASSUME NEW a \in AttemptId, NEW k \in TermId, Create(a, k) PROVE Held'
    BY <1>4, IdAssumption DEF Create, Step, Open, NewTerm, XInv, WInv, Placed, LaunchInOrder,
       Fresh, Untouched, Locks, LockStep, Held, Ended, EndStatus, TypeOK, Row, Tree, TermState,
       OpState, git, luvus, Alive
  <1>5. ASSUME NEW a \in AttemptId, CreateRefused(a) PROVE Held'
    BY <1>5, IdAssumption DEF CreateRefused, Step, Fault, XInv, WInv, Placed, LaunchInOrder, Fresh,
       Untouched, Locks, LockStep, Held, Ended, EndStatus, TypeOK, Row, Tree, TermState, OpState,
       git, luvus, Alive
  <1>6. ASSUME NEW a \in AttemptId, CreateUnknown(a) PROVE Held'
    <2>1. (\A j \in TermId : term[j].of # a) /\ a \notin late /\ launch[a] = "create" /\ UNCHANGED <<row, op>>
      BY <1>6 DEF CreateUnknown, Step, XInv, Fresh, Untouched
    <2>2. \A p \in Proc : op[p].at \in {"pane", "repoint"} => op[p].a # a
      BY <2>1 DEF XInv, WInv, Placed, LaunchInOrder, Held
    <2>3. CASE term' = term /\ late' \in {late, late \cup {a}}
      BY <2>1, <2>2, <2>3 DEF XInv, Held, Alive
    <2>4. ASSUME NEW k \in TermId, term[k].status = "none", term'[k].of = a, term'[k].status = "open",
                 \A j \in TermId \ {k} : term'[j] = term[j], late' = late
          PROVE  Held'
      <3>1. \A j \in TermId \ {k} : term'[j] = term[j] /\ term[j].of # a
        BY <2>1, <2>4
      <3>2. term[k].of = NoAttempt
        BY <2>4 DEF XInv, Fresh
      <3>9. \A b \in AttemptId : b # NoAttempt
        BY IdAssumption
      <3>3. \A i, j \in TermId : Alive(i)' /\ Alive(j)' /\ term'[i].of = term'[j].of => i = j
        BY <2>4, <3>1 DEF XInv, Held, Alive
      <3>4. \A j \in TermId : Alive(j)' => term'[j].of \notin late'
        BY <2>1, <2>4 DEF XInv, Held, Alive
      <3>5. \A b \in AttemptId : row'[b].status = "running" => row'[b].term \in TermId /\ term'[row'[b].term].of = b
        BY <2>1, <3>1, <3>2, <3>9 DEF XInv, Held
      <3>6. \A p \in Proc :
              /\ op'[p].at \in {"pane", "repoint"} => row'[op'[p].a].status = "running"
              /\ op'[p].at = "pane" => op'[p].a \notin late' /\ \A j \in TermId : Alive(j)' => term'[j].of # op'[p].a
        BY <2>1, <2>2, <2>4 DEF XInv, Held, Alive
      <3>7. \A p \in Proc : op'[p].at = "repoint" => op'[p].term \in TermId /\ term'[op'[p].term].of = op'[p].a
        BY <2>1, <3>1, <3>2, <3>9 DEF XInv, WInv, Placed, Held
      <3> QED
        BY <3>3, <3>4, <3>5, <3>6, <3>7 DEF Held
    <2> QED
      BY <1>6, <2>3, <2>4, UnknownEffect DEF XInv, WInv
  <1>7. ASSUME NEW a \in AttemptId, Record(a) PROVE Held'
    BY <1>7, RecordEffect, RecordPoints DEF XInv, WInv, Placed, LaunchInOrder, Held, Alive
  <1>8. ASSUME NEW a \in AttemptId, StopOwn(a) PROVE Held'
    BY <1>8, IdAssumption DEF StopOwn, Step, Kill, Workers, XInv, WInv, Placed, LaunchInOrder,
       Fresh, Untouched, Locks, LockStep, Held, Ended, EndStatus, TypeOK, Row, Tree, TermState,
       OpState, git, luvus, Alive
  <1>9. ASSUME NEW a \in AttemptId, CloseUnknown(a) PROVE Held'
    BY <1>9, IdAssumption DEF CloseUnknown, Step, Kill, Workers, XInv, WInv, Placed, LaunchInOrder,
       Fresh, Untouched, Locks, LockStep, Held, Ended, EndStatus, TypeOK, Row, Tree, TermState,
       OpState, git, luvus, Alive
  <1>10. ASSUME NEW a \in AttemptId, Discard(a) PROVE Held'
    BY <1>10, IdAssumption DEF Discard, Step, NoTree, Loss, XInv, WInv, Placed, LaunchInOrder,
       Fresh, Untouched, Locks, LockStep, Held, Ended, EndStatus, TypeOK, Row, Tree, TermState,
       OpState, git, luvus, Alive
  <1>11. ASSUME NEW a \in AttemptId, DropBranch(a) PROVE Held'
    BY <1>11, IdAssumption DEF DropBranch, Step, XInv, WInv, Placed, LaunchInOrder, Fresh,
       Untouched, Locks, LockStep, Held, Ended, EndStatus, TypeOK, Row, Tree, TermState, OpState,
       git, luvus, Alive
  <1>12. ASSUME NEW a \in AttemptId, Fail(a) PROVE Held'
    BY <1>12, IdAssumption DEF Fail, Step, EndRow, attemptEnds, LiveStatus, EndStatus, XInv, WInv,
       Placed, LaunchInOrder, Fresh, Untouched, Locks, LockStep, Held, Ended, EndStatus, TypeOK,
       Row, Tree, TermState, OpState, git, luvus, Alive
  <1>13. ASSUME NEW a \in AttemptId, LauncherDies(a) PROVE Held'
    BY <1>13, IdAssumption DEF LauncherDies, Fault, XInv, WInv, Placed, LaunchInOrder, Fresh,
       Untouched, Locks, LockStep, Held, Ended, EndStatus, TypeOK, Row, Tree, TermState, OpState,
       git, luvus, Alive
  <1>14. ASSUME NEW a \in AttemptId, GracePasses(a) PROVE Held'
    BY <1>14, IdAssumption DEF GracePasses, XInv, WInv, Placed, LaunchInOrder, Fresh, Untouched,
       Locks, LockStep, Held, Ended, EndStatus, TypeOK, Row, Tree, TermState, OpState, git, luvus,
       Alive
  <1>15. ASSUME NEW p \in Proc, NEW a \in AttemptId, Settle(p, a) PROVE Held'
    BY <1>15, IdAssumption DEF Settle, Goto, Idle, Live, LiveStatus, LockFree, observeTerminal,
       XInv, WInv, Placed, LaunchInOrder, Fresh, Untouched, Locks, LockStep, Held, Ended,
       EndStatus, TypeOK, Row, Tree, TermState, OpState, git, luvus, Alive
  <1>16. ASSUME NEW p \in Proc, SettleClose(p) PROVE Held'
    BY <1>16, IdAssumption DEF SettleClose, Goto, Then, Kill, Workers, XInv, WInv, Placed,
       LaunchInOrder, Fresh, Untouched, Locks, LockStep, Held, Ended, EndStatus, TypeOK, Row, Tree,
       TermState, OpState, git, luvus, Alive
  <1>17. ASSUME NEW p \in Proc, End(p) PROVE Held'
    <2>1. \A q \in Proc \ {p} : op[q].at \in {"pane", "repoint"} => op[q].a # op[p].a
      BY <1>17, EndsAs DEF XInv, WInv, Locks, LockStep
    <2> QED
      BY <1>17, <2>1, EndsAs DEF XInv, WInv, Placed, Held, Alive, EndStatus
  <1>18. ASSUME NEW p \in Proc, NEW a \in AttemptId, Stop(p, a) PROVE Held'
    BY <1>18, IdAssumption DEF Stop, Goto, Idle, LockFree, XInv, WInv, Placed, LaunchInOrder,
       Fresh, Untouched, Locks, LockStep, Held, Ended, EndStatus, TypeOK, Row, Tree, TermState,
       OpState, git, luvus, Alive
  <1>19. ASSUME NEW p \in Proc, StopKill(p) PROVE Held'
    BY SMTT(40), <1>19, IdAssumption DEF StopKill, Goto, Kill, Workers, XInv, WInv, Placed, LaunchInOrder,
       Fresh, Untouched, Locks, LockStep, Held, Ended, EndStatus, TypeOK, Row, Tree, TermState,
       OpState, git, luvus, Alive
  <1>20. ASSUME NEW p \in Proc, NEW a \in AttemptId, Switch(p, a) PROVE Held'
    BY <1>20, IdAssumption DEF Switch, Goto, Idle, Kill, LockFree, XInv, WInv, Placed,
       LaunchInOrder, Fresh, Untouched, Locks, LockStep, Held, Ended, EndStatus, TypeOK, Row, Tree,
       TermState, OpState, git, luvus, Alive
  <1>21. ASSUME NEW p \in Proc, NEW k \in TermId, Pane(p, k) PROVE Held'
    BY <1>21, IdAssumption DEF Pane, Goto, Open, NewTerm, XInv, WInv, Placed, LaunchInOrder, Fresh,
       Untouched, Locks, LockStep, Held, Ended, EndStatus, TypeOK, Row, Tree, TermState, OpState,
       git, luvus, Alive
  <1>22. ASSUME NEW p \in Proc, PaneFails(p) PROVE Held'
    BY <1>22, IdAssumption DEF PaneFails, Goto, Fault, XInv, WInv, Placed, LaunchInOrder, Fresh,
       Untouched, Locks, LockStep, Held, Ended, EndStatus, TypeOK, Row, Tree, TermState, OpState,
       git, luvus, Alive
  <1>23. ASSUME NEW p \in Proc, Repoint(p) PROVE Held'
    BY <1>23, RepointPoints DEF XInv, WInv, Placed, Held, Alive
  <1>24. ASSUME NEW p \in Proc, NEW a \in AttemptId, NEW discard \in BOOLEAN, Clean(p, a, discard) PROVE Held'
    BY <1>24, IdAssumption DEF Clean, Goto, Idle, XInv, WInv, Placed, LaunchInOrder, Fresh,
       Untouched, Locks, LockStep, Held, Ended, EndStatus, TypeOK, Row, Tree, TermState, OpState,
       git, luvus, Alive
  <1>25. ASSUME NEW p \in Proc, NEW a \in AttemptId, Reap(p, a) PROVE Held'
    BY <1>25, IdAssumption DEF Reap, Goto, Idle, LockFree, XInv, WInv, Placed, LaunchInOrder,
       Fresh, Untouched, Locks, LockStep, Held, Ended, EndStatus, TypeOK, Row, Tree, TermState,
       OpState, git, luvus, Alive
  <1>26. ASSUME NEW p \in Proc, Look(p) PROVE Held'
    BY <1>26, IdAssumption DEF Look, Goto, Then, Idle, XInv, WInv, Placed, LaunchInOrder, Fresh,
       Untouched, Locks, LockStep, Held, Ended, EndStatus, TypeOK, Row, Tree, TermState, OpState,
       git, luvus, Alive
  <1>27. ASSUME NEW p \in Proc, Evict(p) PROVE Held'
    BY <1>27, IdAssumption DEF Evict, Goto, Then, Kill, Workers, XInv, WInv, Placed, LaunchInOrder,
       Fresh, Untouched, Locks, LockStep, Held, Ended, EndStatus, TypeOK, Row, Tree, TermState,
       OpState, git, luvus, Alive
  <1>28. ASSUME NEW p \in Proc, Remove(p) PROVE Held'
    BY <1>28, IdAssumption DEF Remove, Goto, Then, Idle, NoTree, Loss, XInv, WInv, Placed,
       LaunchInOrder, Fresh, Untouched, Locks, LockStep, Held, Ended, EndStatus, TypeOK, Row, Tree,
       TermState, OpState, git, luvus, Alive
  <1>29. ASSUME NEW p \in Proc, Mark(p) PROVE Held'
    BY <1>29, IdAssumption DEF Mark, Goto, Idle, XInv, WInv, Placed, LaunchInOrder, Fresh,
       Untouched, Locks, LockStep, Held, Ended, EndStatus, TypeOK, Row, Tree, TermState, OpState,
       git, luvus, Alive
  <1>30. ASSUME NEW p \in Proc, Killed(p) PROVE Held'
    BY <1>30, IdAssumption DEF Killed, Goto, Idle, Fault, XInv, WInv, Placed, LaunchInOrder, Fresh,
       Untouched, Locks, LockStep, Held, Ended, EndStatus, TypeOK, Row, Tree, TermState, OpState,
       git, luvus, Alive
  <1>31. ASSUME NEW a \in AttemptId, NEW k \in TermId, LateCreate(a, k) PROVE Held'
    BY <1>31, IdAssumption DEF LateCreate, Open, NewTerm, XInv, WInv, Placed, LaunchInOrder, Fresh,
       Untouched, Locks, LockStep, Held, Ended, EndStatus, TypeOK, Row, Tree, TermState, OpState,
       git, luvus, Alive
  <1>32. ASSUME NEW k \in TermId, Work(k) PROVE Held'
    BY <1>32, IdAssumption DEF Work, XInv, WInv, Placed, LaunchInOrder, Fresh, Untouched, Locks,
       LockStep, Held, Ended, EndStatus, TypeOK, Row, Tree, TermState, OpState, git, luvus, Alive
  <1>33. ASSUME NEW k \in TermId, WorkerExits(k) PROVE Held'
    BY <1>33, IdAssumption DEF WorkerExits, Kill, XInv, WInv, Placed, LaunchInOrder, Fresh,
       Untouched, Locks, LockStep, Held, Ended, EndStatus, TypeOK, Row, Tree, TermState, OpState,
       git, luvus, Alive
  <1>34. ASSUME NEW S \in SUBSET TermId, Restart(S) PROVE Held'
    BY <1>34, IdAssumption DEF Restart, Fault, XInv, WInv, Placed, LaunchInOrder, Fresh, Untouched,
       Locks, LockStep, Held, Ended, EndStatus, TypeOK, Row, Tree, TermState, OpState, git, luvus,
       Alive
  <1>35. CASE UNCHANGED vars
    BY <1>35 DEF vars, XInv, WInv, Placed, LaunchInOrder, Fresh, Untouched, Locks, LockStep, Held,
       Ended, EndStatus, TypeOK, Row, Tree, TermState, OpState, git, luvus, Alive
  <1> QED
    BY <1>1, <1>2, <1>3, <1>4, <1>5, <1>6, <1>7, <1>8, <1>9, <1>10, <1>11, <1>12, <1>13, <1>14,
       <1>15, <1>16, <1>17, <1>18, <1>19, <1>20, <1>21, <1>22, <1>23, <1>24, <1>25, <1>26, <1>27,
       <1>28, <1>29, <1>30, <1>31, <1>32, <1>33, <1>34, <1>35
       DEF Next, AttemptNext, OpNext, TermNext, Launcher, Proceed

\* A launcher whose attempt ended meanwhile is one that outlived the grace.
LEMMA SlowStep == XInv /\ [Next]_vars => Slow'
  <1> SUFFICES ASSUME XInv, [Next]_vars PROVE Slow'
    OBVIOUS
  <1>1. ASSUME NEW a \in AttemptId, NEW prev \in AttemptId \cup {NoAttempt}, Start(a, prev) PROVE Slow'
    BY <1>1, IdAssumption DEF Start, Step, NoRow, Live, LiveStatus, XInv, WInv, Placed,
       LaunchInOrder, RemovesEnded, Slow, Ended, EndStatus, TypeOK, Row, Tree, TermState, OpState,
       git, luvus, Alive
  <1>2. ASSUME NEW a \in AttemptId, Add(a) PROVE Slow'
    BY <1>2, IdAssumption DEF Add, CanAdd, Step, NewTree, NoTree, XInv, WInv, Placed,
       LaunchInOrder, RemovesEnded, Slow, Ended, EndStatus, TypeOK, Row, Tree, TermState, OpState,
       git, luvus, Alive
  <1>3. ASSUME NEW a \in AttemptId, AddFails(a) PROVE Slow'
    BY <1>3, IdAssumption DEF AddFails, Step, Fault, XInv, WInv, Placed, LaunchInOrder,
       RemovesEnded, Slow, Ended, EndStatus, TypeOK, Row, Tree, TermState, OpState, git, luvus,
       Alive
  <1>4. ASSUME NEW a \in AttemptId, NEW k \in TermId, Create(a, k) PROVE Slow'
    BY <1>4, IdAssumption DEF Create, Step, Open, NewTerm, XInv, WInv, Placed, LaunchInOrder,
       RemovesEnded, Slow, Ended, EndStatus, TypeOK, Row, Tree, TermState, OpState, git, luvus,
       Alive
  <1>5. ASSUME NEW a \in AttemptId, CreateRefused(a) PROVE Slow'
    BY <1>5, IdAssumption DEF CreateRefused, Step, Fault, XInv, WInv, Placed, LaunchInOrder,
       RemovesEnded, Slow, Ended, EndStatus, TypeOK, Row, Tree, TermState, OpState, git, luvus,
       Alive
  <1>6. ASSUME NEW a \in AttemptId, CreateUnknown(a) PROVE Slow'
    BY <1>6, IdAssumption DEF CreateUnknown, Step, Open, NewTerm, Fault, XInv, WInv, Placed,
       LaunchInOrder, RemovesEnded, Slow, Ended, EndStatus, TypeOK, Row, Tree, TermState, OpState,
       git, luvus, Alive
  <1>7. ASSUME NEW a \in AttemptId, Record(a) PROVE Slow'
    BY SMTT(40), <1>7, IdAssumption DEF Record, Step, XInv, WInv, Placed, LaunchInOrder, RemovesEnded, Slow,
       Ended, EndStatus, TypeOK, Row, Tree, TermState, OpState, git, luvus, Alive
  <1>8. ASSUME NEW a \in AttemptId, StopOwn(a) PROVE Slow'
    BY <1>8, IdAssumption DEF StopOwn, Step, Kill, Workers, XInv, WInv, Placed, LaunchInOrder,
       RemovesEnded, Slow, Ended, EndStatus, TypeOK, Row, Tree, TermState, OpState, git, luvus,
       Alive
  <1>9. ASSUME NEW a \in AttemptId, CloseUnknown(a) PROVE Slow'
    BY <1>9, IdAssumption DEF CloseUnknown, Step, Kill, Workers, XInv, WInv, Placed, LaunchInOrder,
       RemovesEnded, Slow, Ended, EndStatus, TypeOK, Row, Tree, TermState, OpState, git, luvus,
       Alive
  <1>10. ASSUME NEW a \in AttemptId, Discard(a) PROVE Slow'
    BY <1>10, IdAssumption DEF Discard, Step, NoTree, Loss, XInv, WInv, Placed, LaunchInOrder,
       RemovesEnded, Slow, Ended, EndStatus, TypeOK, Row, Tree, TermState, OpState, git, luvus,
       Alive
  <1>11. ASSUME NEW a \in AttemptId, DropBranch(a) PROVE Slow'
    BY <1>11, IdAssumption DEF DropBranch, Step, XInv, WInv, Placed, LaunchInOrder, RemovesEnded,
       Slow, Ended, EndStatus, TypeOK, Row, Tree, TermState, OpState, git, luvus, Alive
  <1>12. ASSUME NEW a \in AttemptId, Fail(a) PROVE Slow'
    BY <1>12, IdAssumption DEF Fail, Step, EndRow, attemptEnds, LiveStatus, EndStatus, XInv, WInv,
       Placed, LaunchInOrder, RemovesEnded, Slow, Ended, EndStatus, TypeOK, Row, Tree, TermState,
       OpState, git, luvus, Alive
  <1>13. ASSUME NEW a \in AttemptId, LauncherDies(a) PROVE Slow'
    BY <1>13, IdAssumption DEF LauncherDies, Fault, XInv, WInv, Placed, LaunchInOrder,
       RemovesEnded, Slow, Ended, EndStatus, TypeOK, Row, Tree, TermState, OpState, git, luvus,
       Alive
  <1>14. ASSUME NEW a \in AttemptId, GracePasses(a) PROVE Slow'
    BY <1>14, IdAssumption DEF GracePasses, XInv, WInv, Placed, LaunchInOrder, RemovesEnded, Slow,
       Ended, EndStatus, TypeOK, Row, Tree, TermState, OpState, git, luvus, Alive
  <1>15. ASSUME NEW p \in Proc, NEW a \in AttemptId, Settle(p, a) PROVE Slow'
    BY <1>15, IdAssumption DEF Settle, Goto, Idle, Live, LiveStatus, LockFree, observeTerminal,
       XInv, WInv, Placed, LaunchInOrder, RemovesEnded, Slow, Ended, EndStatus, TypeOK, Row, Tree,
       TermState, OpState, git, luvus, Alive
  <1>16. ASSUME NEW p \in Proc, SettleClose(p) PROVE Slow'
    BY <1>16, IdAssumption DEF SettleClose, Goto, Then, Kill, Workers, XInv, WInv, Placed,
       LaunchInOrder, RemovesEnded, Slow, Ended, EndStatus, TypeOK, Row, Tree, TermState, OpState,
       git, luvus, Alive
  <1>17. ASSUME NEW p \in Proc, End(p) PROVE Slow'
    BY <1>17, EndsAs DEF XInv, WInv, Placed, LaunchInOrder, Slow, Ended, EndStatus
  <1>18. ASSUME NEW p \in Proc, NEW a \in AttemptId, Stop(p, a) PROVE Slow'
    BY <1>18, IdAssumption DEF Stop, Goto, Idle, LockFree, XInv, WInv, Placed, LaunchInOrder,
       RemovesEnded, Slow, Ended, EndStatus, TypeOK, Row, Tree, TermState, OpState, git, luvus,
       Alive
  <1>19. ASSUME NEW p \in Proc, StopKill(p) PROVE Slow'
    BY SMTT(40), <1>19, IdAssumption DEF StopKill, Goto, Kill, Workers, XInv, WInv, Placed, LaunchInOrder,
       RemovesEnded, Slow, Ended, EndStatus, TypeOK, Row, Tree, TermState, OpState, git, luvus,
       Alive
  <1>20. ASSUME NEW p \in Proc, NEW a \in AttemptId, Switch(p, a) PROVE Slow'
    BY <1>20, IdAssumption DEF Switch, Goto, Idle, Kill, LockFree, XInv, WInv, Placed,
       LaunchInOrder, RemovesEnded, Slow, Ended, EndStatus, TypeOK, Row, Tree, TermState, OpState,
       git, luvus, Alive
  <1>21. ASSUME NEW p \in Proc, NEW k \in TermId, Pane(p, k) PROVE Slow'
    BY <1>21, IdAssumption DEF Pane, Goto, Open, NewTerm, XInv, WInv, Placed, LaunchInOrder,
       RemovesEnded, Slow, Ended, EndStatus, TypeOK, Row, Tree, TermState, OpState, git, luvus,
       Alive
  <1>22. ASSUME NEW p \in Proc, PaneFails(p) PROVE Slow'
    BY <1>22, IdAssumption DEF PaneFails, Goto, Fault, XInv, WInv, Placed, LaunchInOrder,
       RemovesEnded, Slow, Ended, EndStatus, TypeOK, Row, Tree, TermState, OpState, git, luvus,
       Alive
  <1>23. ASSUME NEW p \in Proc, Repoint(p) PROVE Slow'
    BY <1>23, RepointPoints DEF XInv, WInv, Placed, Slow, Ended
  <1>24. ASSUME NEW p \in Proc, NEW a \in AttemptId, NEW discard \in BOOLEAN, Clean(p, a, discard) PROVE Slow'
    BY <1>24, IdAssumption DEF Clean, Goto, Idle, XInv, WInv, Placed, LaunchInOrder, RemovesEnded,
       Slow, Ended, EndStatus, TypeOK, Row, Tree, TermState, OpState, git, luvus, Alive
  <1>25. ASSUME NEW p \in Proc, NEW a \in AttemptId, Reap(p, a) PROVE Slow'
    BY <1>25, IdAssumption DEF Reap, Goto, Idle, LockFree, XInv, WInv, Placed, LaunchInOrder,
       RemovesEnded, Slow, Ended, EndStatus, TypeOK, Row, Tree, TermState, OpState, git, luvus,
       Alive
  <1>26. ASSUME NEW p \in Proc, Look(p) PROVE Slow'
    BY <1>26, RemovalEffect DEF XInv, WInv, Placed, Slow, Ended
  <1>27. ASSUME NEW p \in Proc, Evict(p) PROVE Slow'
    BY <1>27, IdAssumption DEF Evict, Goto, Then, Kill, Workers, XInv, WInv, Placed, LaunchInOrder,
       RemovesEnded, Slow, Ended, EndStatus, TypeOK, Row, Tree, TermState, OpState, git, luvus,
       Alive
  <1>28. ASSUME NEW p \in Proc, Remove(p) PROVE Slow'
    BY <1>28, RemovalEffect DEF XInv, WInv, Placed, Slow, Ended
  <1>29. ASSUME NEW p \in Proc, Mark(p) PROVE Slow'
    BY SMTT(40), <1>29, IdAssumption DEF Mark, Goto, Idle, XInv, WInv, Placed, LaunchInOrder, RemovesEnded,
       Slow, Ended, EndStatus, TypeOK, Row, Tree, TermState, OpState, git, luvus, Alive
  <1>30. ASSUME NEW p \in Proc, Killed(p) PROVE Slow'
    BY <1>30, IdAssumption DEF Killed, Goto, Idle, Fault, XInv, WInv, Placed, LaunchInOrder,
       RemovesEnded, Slow, Ended, EndStatus, TypeOK, Row, Tree, TermState, OpState, git, luvus,
       Alive
  <1>31. ASSUME NEW a \in AttemptId, NEW k \in TermId, LateCreate(a, k) PROVE Slow'
    BY <1>31, IdAssumption DEF LateCreate, Open, NewTerm, XInv, WInv, Placed, LaunchInOrder,
       RemovesEnded, Slow, Ended, EndStatus, TypeOK, Row, Tree, TermState, OpState, git, luvus,
       Alive
  <1>32. ASSUME NEW k \in TermId, Work(k) PROVE Slow'
    <2>1. Slow /\ \A q \in Proc : op[q].at # "idle" => op[q].a \in AttemptId
      BY DEF XInv, WInv, Placed
    <2>2. /\ \A b \in AttemptId : tree'[b].there = tree[b].there
          /\ UNCHANGED <<row, launch, op>>
      BY <1>32, WorkEffect DEF XInv, WInv
    <2> QED
      BY <2>1, <2>2 DEF Slow, Ended
  <1>33. ASSUME NEW k \in TermId, WorkerExits(k) PROVE Slow'
    BY <1>33, IdAssumption DEF WorkerExits, Kill, XInv, WInv, Placed, LaunchInOrder, RemovesEnded,
       Slow, Ended, EndStatus, TypeOK, Row, Tree, TermState, OpState, git, luvus, Alive
  <1>34. ASSUME NEW S \in SUBSET TermId, Restart(S) PROVE Slow'
    BY <1>34, IdAssumption DEF Restart, Fault, XInv, WInv, Placed, LaunchInOrder, RemovesEnded,
       Slow, Ended, EndStatus, TypeOK, Row, Tree, TermState, OpState, git, luvus, Alive
  <1>35. CASE UNCHANGED vars
    BY <1>35 DEF vars, XInv, WInv, Placed, LaunchInOrder, RemovesEnded, Slow, Ended, EndStatus,
       TypeOK, Row, Tree, TermState, OpState, git, luvus, Alive
  <1> QED
    BY <1>1, <1>2, <1>3, <1>4, <1>5, <1>6, <1>7, <1>8, <1>9, <1>10, <1>11, <1>12, <1>13, <1>14,
       <1>15, <1>16, <1>17, <1>18, <1>19, <1>20, <1>21, <1>22, <1>23, <1>24, <1>25, <1>26, <1>27,
       <1>28, <1>29, <1>30, <1>31, <1>32, <1>33, <1>34, <1>35
       DEF Next, AttemptNext, OpNext, TermNext, Launcher, Proceed

\* Without a fault no worker outlives its attempt unattended.
LEMMA FaultlessStep == XInv /\ [Next]_vars => Faultless'
  <1> SUFFICES ASSUME XInv, [Next]_vars PROVE Faultless'
    OBVIOUS
  <1>1. ASSUME NEW a \in AttemptId, NEW prev \in AttemptId \cup {NoAttempt}, Start(a, prev) PROVE Faultless'
    BY <1>1, IdAssumption DEF Start, Step, NoRow, Live, LiveStatus, XInv, WInv, Placed,
       LaunchInOrder, Fresh, Untouched, Locks, LockStep, Held, Faultless, Attended, Ended,
       EndStatus, TypeOK, Row, Tree, TermState, OpState, git, luvus, Alive
  <1>2. ASSUME NEW a \in AttemptId, Add(a) PROVE Faultless'
    BY <1>2, IdAssumption DEF Add, CanAdd, Step, NewTree, NoTree, XInv, WInv, Placed,
       LaunchInOrder, Fresh, Untouched, Locks, LockStep, Held, Faultless, Attended, Ended,
       EndStatus, TypeOK, Row, Tree, TermState, OpState, git, luvus, Alive
  <1>3. ASSUME NEW a \in AttemptId, AddFails(a) PROVE Faultless'
    BY <1>3, IdAssumption DEF AddFails, Step, Fault, XInv, WInv, Placed, LaunchInOrder, Fresh,
       Untouched, Locks, LockStep, Held, Faultless, Attended, Ended, EndStatus, TypeOK, Row, Tree,
       TermState, OpState, git, luvus, Alive
  <1>4. ASSUME NEW a \in AttemptId, NEW k \in TermId, Create(a, k) PROVE Faultless'
    BY <1>4, IdAssumption DEF Create, Step, Open, NewTerm, XInv, WInv, Placed, LaunchInOrder,
       Fresh, Untouched, Locks, LockStep, Held, Faultless, Attended, Ended, EndStatus, TypeOK, Row,
       Tree, TermState, OpState, git, luvus, Alive
  <1>5. ASSUME NEW a \in AttemptId, CreateRefused(a) PROVE Faultless'
    BY <1>5, IdAssumption DEF CreateRefused, Step, Fault, XInv, WInv, Placed, LaunchInOrder, Fresh,
       Untouched, Locks, LockStep, Held, Faultless, Attended, Ended, EndStatus, TypeOK, Row, Tree,
       TermState, OpState, git, luvus, Alive
  <1>6. ASSUME NEW a \in AttemptId, CreateUnknown(a) PROVE Faultless'
    BY <1>6, IdAssumption DEF CreateUnknown, Step, Open, NewTerm, Fault, XInv, WInv, Placed,
       LaunchInOrder, Fresh, Untouched, Locks, LockStep, Held, Faultless, Attended, Ended,
       EndStatus, TypeOK, Row, Tree, TermState, OpState, git, luvus, Alive
  <1>7. ASSUME NEW a \in AttemptId, Record(a) PROVE Faultless'
    BY <1>7, RecordEffect, RecordPoints DEF XInv, WInv, Placed, Faultless, Attended, Ended,
       EndStatus, Alive
  <1>8. ASSUME NEW a \in AttemptId, StopOwn(a) PROVE Faultless'
    BY <1>8, IdAssumption DEF StopOwn, Step, Kill, Workers, XInv, WInv, Placed, LaunchInOrder,
       Fresh, Untouched, Locks, LockStep, Held, Faultless, Attended, Ended, EndStatus, TypeOK, Row,
       Tree, TermState, OpState, git, luvus, Alive
  <1>9. ASSUME NEW a \in AttemptId, CloseUnknown(a) PROVE Faultless'
    BY <1>9, IdAssumption DEF CloseUnknown, Step, Kill, Workers, XInv, WInv, Placed, LaunchInOrder,
       Fresh, Untouched, Locks, LockStep, Held, Faultless, Attended, Ended, EndStatus, TypeOK, Row,
       Tree, TermState, OpState, git, luvus, Alive
  <1>10. ASSUME NEW a \in AttemptId, Discard(a) PROVE Faultless'
    BY <1>10, IdAssumption DEF Discard, Step, NoTree, Loss, XInv, WInv, Placed, LaunchInOrder,
       Fresh, Untouched, Locks, LockStep, Held, Faultless, Attended, Ended, EndStatus, TypeOK, Row,
       Tree, TermState, OpState, git, luvus, Alive
  <1>11. ASSUME NEW a \in AttemptId, DropBranch(a) PROVE Faultless'
    BY <1>11, IdAssumption DEF DropBranch, Step, XInv, WInv, Placed, LaunchInOrder, Fresh,
       Untouched, Locks, LockStep, Held, Faultless, Attended, Ended, EndStatus, TypeOK, Row, Tree,
       TermState, OpState, git, luvus, Alive
  <1>12. ASSUME NEW a \in AttemptId, Fail(a) PROVE Faultless'
    BY <1>12, IdAssumption DEF Fail, Step, EndRow, attemptEnds, LiveStatus, EndStatus, XInv, WInv,
       Placed, LaunchInOrder, Fresh, Untouched, Locks, LockStep, Held, Faultless, Attended, Ended,
       EndStatus, TypeOK, Row, Tree, TermState, OpState, git, luvus, Alive
  <1>13. ASSUME NEW a \in AttemptId, LauncherDies(a) PROVE Faultless'
    BY <1>13, IdAssumption DEF LauncherDies, Fault, XInv, WInv, Placed, LaunchInOrder, Fresh,
       Untouched, Locks, LockStep, Held, Faultless, Attended, Ended, EndStatus, TypeOK, Row, Tree,
       TermState, OpState, git, luvus, Alive
  <1>14. ASSUME NEW a \in AttemptId, GracePasses(a) PROVE Faultless'
    BY <1>14, IdAssumption DEF GracePasses, XInv, WInv, Placed, LaunchInOrder, Fresh, Untouched,
       Locks, LockStep, Held, Faultless, Attended, Ended, EndStatus, TypeOK, Row, Tree, TermState,
       OpState, git, luvus, Alive
  <1>15. ASSUME NEW p \in Proc, NEW a \in AttemptId, Settle(p, a) PROVE Faultless'
    BY <1>15, IdAssumption DEF Settle, Goto, Idle, Live, LiveStatus, LockFree, observeTerminal,
       XInv, WInv, Placed, LaunchInOrder, Fresh, Untouched, Locks, LockStep, Held, Faultless,
       Attended, Ended, EndStatus, TypeOK, Row, Tree, TermState, OpState, git, luvus, Alive
  <1>16. ASSUME NEW p \in Proc, SettleClose(p) PROVE Faultless'
    BY <1>16, IdAssumption DEF SettleClose, Goto, Then, Kill, Workers, XInv, WInv, Placed,
       LaunchInOrder, Fresh, Untouched, Locks, LockStep, Held, Faultless, Attended, Ended,
       EndStatus, TypeOK, Row, Tree, TermState, OpState, git, luvus, Alive
  <1>17. ASSUME NEW p \in Proc, End(p) PROVE Faultless'
    BY SMTT(40), <1>17, IdAssumption DEF End, Goto, Idle, EndRow, attemptEnds, LiveStatus, EndStatus, XInv,
       WInv, Placed, LaunchInOrder, Fresh, Untouched, Locks, LockStep, Held, Faultless, Attended,
       Ended, EndStatus, TypeOK, Row, Tree, TermState, OpState, git, luvus, Alive
  <1>18. ASSUME NEW p \in Proc, NEW a \in AttemptId, Stop(p, a) PROVE Faultless'
    BY <1>18, IdAssumption DEF Stop, Goto, Idle, LockFree, XInv, WInv, Placed, LaunchInOrder,
       Fresh, Untouched, Locks, LockStep, Held, Faultless, Attended, Ended, EndStatus, TypeOK, Row,
       Tree, TermState, OpState, git, luvus, Alive
  <1>19. ASSUME NEW p \in Proc, StopKill(p) PROVE Faultless'
    BY SMTT(40), <1>19, IdAssumption DEF StopKill, Goto, Kill, Workers, XInv, WInv, Placed, LaunchInOrder,
       Fresh, Untouched, Locks, LockStep, Held, Faultless, Attended, Ended, EndStatus, TypeOK, Row,
       Tree, TermState, OpState, git, luvus, Alive
  <1>20. ASSUME NEW p \in Proc, NEW a \in AttemptId, Switch(p, a) PROVE Faultless'
    BY <1>20, IdAssumption DEF Switch, Goto, Idle, Kill, LockFree, XInv, WInv, Placed,
       LaunchInOrder, Fresh, Untouched, Locks, LockStep, Held, Faultless, Attended, Ended,
       EndStatus, TypeOK, Row, Tree, TermState, OpState, git, luvus, Alive
  <1>21. ASSUME NEW p \in Proc, NEW k \in TermId, Pane(p, k) PROVE Faultless'
    BY <1>21, IdAssumption DEF Pane, Goto, Open, NewTerm, XInv, WInv, Placed, LaunchInOrder, Fresh,
       Untouched, Locks, LockStep, Held, Faultless, Attended, Ended, EndStatus, TypeOK, Row, Tree,
       TermState, OpState, git, luvus, Alive
  <1>22. ASSUME NEW p \in Proc, PaneFails(p) PROVE Faultless'
    BY <1>22, IdAssumption DEF PaneFails, Goto, Fault, XInv, WInv, Placed, LaunchInOrder, Fresh,
       Untouched, Locks, LockStep, Held, Faultless, Attended, Ended, EndStatus, TypeOK, Row, Tree,
       TermState, OpState, git, luvus, Alive
  <1>23. ASSUME NEW p \in Proc, Repoint(p) PROVE Faultless'
    BY <1>23, RepointPoints DEF XInv, WInv, Placed, Faultless, Attended, Ended, Alive
  <1>24. ASSUME NEW p \in Proc, NEW a \in AttemptId, NEW discard \in BOOLEAN, Clean(p, a, discard) PROVE Faultless'
    BY <1>24, IdAssumption DEF Clean, Goto, Idle, XInv, WInv, Placed, LaunchInOrder, Fresh,
       Untouched, Locks, LockStep, Held, Faultless, Attended, Ended, EndStatus, TypeOK, Row, Tree,
       TermState, OpState, git, luvus, Alive
  <1>25. ASSUME NEW p \in Proc, NEW a \in AttemptId, Reap(p, a) PROVE Faultless'
    BY <1>25, IdAssumption DEF Reap, Goto, Idle, LockFree, XInv, WInv, Placed, LaunchInOrder,
       Fresh, Untouched, Locks, LockStep, Held, Faultless, Attended, Ended, EndStatus, TypeOK, Row,
       Tree, TermState, OpState, git, luvus, Alive
  <1>26. ASSUME NEW p \in Proc, Look(p) PROVE Faultless'
    BY <1>26, RemovalEffect DEF XInv, WInv, Placed, Faultless, Attended, Ended, Alive
  <1>27. ASSUME NEW p \in Proc, Evict(p) PROVE Faultless'
    BY <1>27, IdAssumption DEF Evict, Goto, Then, Kill, Workers, XInv, WInv, Placed, LaunchInOrder,
       Fresh, Untouched, Locks, LockStep, Held, Faultless, Attended, Ended, EndStatus, TypeOK, Row,
       Tree, TermState, OpState, git, luvus, Alive
  <1>28. ASSUME NEW p \in Proc, Remove(p) PROVE Faultless'
    BY <1>28, RemovalEffect DEF XInv, WInv, Placed, Faultless, Attended, Ended, Alive
  <1>29. ASSUME NEW p \in Proc, Mark(p) PROVE Faultless'
    BY <1>29, IdAssumption DEF Mark, Goto, Idle, XInv, WInv, Placed, LaunchInOrder, Fresh,
       Untouched, Locks, LockStep, Held, Faultless, Attended, Ended, EndStatus, TypeOK, Row, Tree,
       TermState, OpState, git, luvus, Alive
  <1>30. ASSUME NEW p \in Proc, Killed(p) PROVE Faultless'
    BY <1>30, IdAssumption DEF Killed, Goto, Idle, Fault, XInv, WInv, Placed, LaunchInOrder, Fresh,
       Untouched, Locks, LockStep, Held, Faultless, Attended, Ended, EndStatus, TypeOK, Row, Tree,
       TermState, OpState, git, luvus, Alive
  <1>31. ASSUME NEW a \in AttemptId, NEW k \in TermId, LateCreate(a, k) PROVE Faultless'
    BY <1>31, IdAssumption DEF LateCreate, Open, NewTerm, XInv, WInv, Placed, LaunchInOrder, Fresh,
       Untouched, Locks, LockStep, Held, Faultless, Attended, Ended, EndStatus, TypeOK, Row, Tree,
       TermState, OpState, git, luvus, Alive
  <1>32. ASSUME NEW k \in TermId, Work(k) PROVE Faultless'
    BY SMTT(40), <1>32, IdAssumption DEF Work, XInv, WInv, Placed, LaunchInOrder, Fresh, Untouched, Locks,
       LockStep, Held, Faultless, Attended, Ended, EndStatus, TypeOK, Row, Tree, TermState,
       OpState, git, luvus, Alive
  <1>33. ASSUME NEW k \in TermId, WorkerExits(k) PROVE Faultless'
    BY <1>33, IdAssumption DEF WorkerExits, Kill, XInv, WInv, Placed, LaunchInOrder, Fresh,
       Untouched, Locks, LockStep, Held, Faultless, Attended, Ended, EndStatus, TypeOK, Row, Tree,
       TermState, OpState, git, luvus, Alive
  <1>34. ASSUME NEW S \in SUBSET TermId, Restart(S) PROVE Faultless'
    BY <1>34, IdAssumption DEF Restart, Fault, XInv, WInv, Placed, LaunchInOrder, Fresh, Untouched,
       Locks, LockStep, Held, Faultless, Attended, Ended, EndStatus, TypeOK, Row, Tree, TermState,
       OpState, git, luvus, Alive
  <1>35. CASE UNCHANGED vars
    BY <1>35 DEF vars, XInv, WInv, Placed, LaunchInOrder, Fresh, Untouched, Locks, LockStep, Held,
       Faultless, Attended, Ended, EndStatus, TypeOK, Row, Tree, TermState, OpState, git, luvus,
       Alive
  <1> QED
    BY <1>1, <1>2, <1>3, <1>4, <1>5, <1>6, <1>7, <1>8, <1>9, <1>10, <1>11, <1>12, <1>13, <1>14,
       <1>15, <1>16, <1>17, <1>18, <1>19, <1>20, <1>21, <1>22, <1>23, <1>24, <1>25, <1>26, <1>27,
       <1>28, <1>29, <1>30, <1>31, <1>32, <1>33, <1>34, <1>35
       DEF Next, AttemptNext, OpNext, TermNext, Launcher, Proceed

\* Neither a launcher nor a removal destroys what a worker wrote.
LEMMA EditsStep == XInv /\ [Next]_vars => EditsKept'
  <1> SUFFICES ASSUME XInv, [Next]_vars PROVE EditsKept'
    OBVIOUS
  <1>1. ASSUME NEW a \in AttemptId, NEW prev \in AttemptId \cup {NoAttempt}, Start(a, prev) PROVE EditsKept'
    BY <1>1, IdAssumption DEF Start, Step, NoRow, Live, LiveStatus, XInv, WInv, Fresh, Untouched,
       EditsKept, TypeOK, Row, Tree, TermState, OpState, git, luvus, Alive
  <1>2. ASSUME NEW a \in AttemptId, Add(a) PROVE EditsKept'
    BY <1>2, IdAssumption DEF Add, CanAdd, Step, NewTree, NoTree, XInv, WInv, Fresh, Untouched,
       EditsKept, TypeOK, Row, Tree, TermState, OpState, git, luvus, Alive
  <1>3. ASSUME NEW a \in AttemptId, AddFails(a) PROVE EditsKept'
    BY <1>3, IdAssumption DEF AddFails, Step, Fault, XInv, WInv, Fresh, Untouched, EditsKept,
       TypeOK, Row, Tree, TermState, OpState, git, luvus, Alive
  <1>4. ASSUME NEW a \in AttemptId, NEW k \in TermId, Create(a, k) PROVE EditsKept'
    BY <1>4, IdAssumption DEF Create, Step, Open, NewTerm, XInv, WInv, Fresh, Untouched, EditsKept,
       TypeOK, Row, Tree, TermState, OpState, git, luvus, Alive
  <1>5. ASSUME NEW a \in AttemptId, CreateRefused(a) PROVE EditsKept'
    BY <1>5, IdAssumption DEF CreateRefused, Step, Fault, XInv, WInv, Fresh, Untouched, EditsKept,
       TypeOK, Row, Tree, TermState, OpState, git, luvus, Alive
  <1>6. ASSUME NEW a \in AttemptId, CreateUnknown(a) PROVE EditsKept'
    BY <1>6, IdAssumption DEF CreateUnknown, Step, Open, NewTerm, Fault, XInv, WInv, Fresh,
       Untouched, EditsKept, TypeOK, Row, Tree, TermState, OpState, git, luvus, Alive
  <1>7. ASSUME NEW a \in AttemptId, Record(a) PROVE EditsKept'
    BY <1>7, IdAssumption DEF Record, Step, XInv, WInv, Fresh, Untouched, EditsKept, TypeOK, Row,
       Tree, TermState, OpState, git, luvus, Alive
  <1>8. ASSUME NEW a \in AttemptId, StopOwn(a) PROVE EditsKept'
    BY <1>8, IdAssumption DEF StopOwn, Step, Kill, Workers, XInv, WInv, Fresh, Untouched,
       EditsKept, TypeOK, Row, Tree, TermState, OpState, git, luvus, Alive
  <1>9. ASSUME NEW a \in AttemptId, CloseUnknown(a) PROVE EditsKept'
    BY <1>9, IdAssumption DEF CloseUnknown, Step, Kill, Workers, XInv, WInv, Fresh, Untouched,
       EditsKept, TypeOK, Row, Tree, TermState, OpState, git, luvus, Alive
  <1>10. ASSUME NEW a \in AttemptId, Discard(a) PROVE EditsKept'
    BY <1>10, IdAssumption DEF Discard, Step, NoTree, Loss, XInv, WInv, Fresh, Untouched,
       EditsKept, TypeOK, Row, Tree, TermState, OpState, git, luvus, Alive
  <1>11. ASSUME NEW a \in AttemptId, DropBranch(a) PROVE EditsKept'
    BY <1>11, IdAssumption DEF DropBranch, Step, XInv, WInv, Fresh, Untouched, EditsKept, TypeOK,
       Row, Tree, TermState, OpState, git, luvus, Alive
  <1>12. ASSUME NEW a \in AttemptId, Fail(a) PROVE EditsKept'
    BY <1>12, IdAssumption DEF Fail, Step, EndRow, attemptEnds, LiveStatus, EndStatus, XInv, WInv,
       Fresh, Untouched, EditsKept, TypeOK, Row, Tree, TermState, OpState, git, luvus, Alive
  <1>13. ASSUME NEW a \in AttemptId, LauncherDies(a) PROVE EditsKept'
    BY <1>13, IdAssumption DEF LauncherDies, Fault, XInv, WInv, Fresh, Untouched, EditsKept,
       TypeOK, Row, Tree, TermState, OpState, git, luvus, Alive
  <1>14. ASSUME NEW a \in AttemptId, GracePasses(a) PROVE EditsKept'
    BY <1>14, IdAssumption DEF GracePasses, XInv, WInv, Fresh, Untouched, EditsKept, TypeOK, Row,
       Tree, TermState, OpState, git, luvus, Alive
  <1>15. ASSUME NEW p \in Proc, NEW a \in AttemptId, Settle(p, a) PROVE EditsKept'
    BY <1>15, IdAssumption DEF Settle, Goto, Idle, Live, LiveStatus, LockFree, observeTerminal,
       XInv, WInv, Fresh, Untouched, EditsKept, TypeOK, Row, Tree, TermState, OpState, git, luvus,
       Alive
  <1>16. ASSUME NEW p \in Proc, SettleClose(p) PROVE EditsKept'
    BY <1>16, IdAssumption DEF SettleClose, Goto, Then, Kill, Workers, XInv, WInv, Fresh,
       Untouched, EditsKept, TypeOK, Row, Tree, TermState, OpState, git, luvus, Alive
  <1>17. ASSUME NEW p \in Proc, End(p) PROVE EditsKept'
    BY <1>17, IdAssumption DEF End, Goto, Idle, EndRow, attemptEnds, LiveStatus, EndStatus, XInv,
       WInv, Fresh, Untouched, EditsKept, TypeOK, Row, Tree, TermState, OpState, git, luvus, Alive
  <1>18. ASSUME NEW p \in Proc, NEW a \in AttemptId, Stop(p, a) PROVE EditsKept'
    BY <1>18, IdAssumption DEF Stop, Goto, Idle, LockFree, XInv, WInv, Fresh, Untouched, EditsKept,
       TypeOK, Row, Tree, TermState, OpState, git, luvus, Alive
  <1>19. ASSUME NEW p \in Proc, StopKill(p) PROVE EditsKept'
    BY <1>19, IdAssumption DEF StopKill, Goto, Kill, Workers, XInv, WInv, Fresh, Untouched,
       EditsKept, TypeOK, Row, Tree, TermState, OpState, git, luvus, Alive
  <1>20. ASSUME NEW p \in Proc, NEW a \in AttemptId, Switch(p, a) PROVE EditsKept'
    BY <1>20, IdAssumption DEF Switch, Goto, Idle, Kill, LockFree, XInv, WInv, Fresh, Untouched,
       EditsKept, TypeOK, Row, Tree, TermState, OpState, git, luvus, Alive
  <1>21. ASSUME NEW p \in Proc, NEW k \in TermId, Pane(p, k) PROVE EditsKept'
    BY <1>21, IdAssumption DEF Pane, Goto, Open, NewTerm, XInv, WInv, Fresh, Untouched, EditsKept,
       TypeOK, Row, Tree, TermState, OpState, git, luvus, Alive
  <1>22. ASSUME NEW p \in Proc, PaneFails(p) PROVE EditsKept'
    BY <1>22, IdAssumption DEF PaneFails, Goto, Fault, XInv, WInv, Fresh, Untouched, EditsKept,
       TypeOK, Row, Tree, TermState, OpState, git, luvus, Alive
  <1>23. ASSUME NEW p \in Proc, Repoint(p) PROVE EditsKept'
    BY <1>23, IdAssumption DEF Repoint, Goto, Kill, Idle, XInv, WInv, Fresh, Untouched, EditsKept,
       TypeOK, Row, Tree, TermState, OpState, git, luvus, Alive
  <1>24. ASSUME NEW p \in Proc, NEW a \in AttemptId, NEW discard \in BOOLEAN, Clean(p, a, discard) PROVE EditsKept'
    BY <1>24, IdAssumption DEF Clean, Goto, Idle, XInv, WInv, Fresh, Untouched, EditsKept, TypeOK,
       Row, Tree, TermState, OpState, git, luvus, Alive
  <1>25. ASSUME NEW p \in Proc, NEW a \in AttemptId, Reap(p, a) PROVE EditsKept'
    BY <1>25, IdAssumption DEF Reap, Goto, Idle, LockFree, XInv, WInv, Fresh, Untouched, EditsKept,
       TypeOK, Row, Tree, TermState, OpState, git, luvus, Alive
  <1>26. ASSUME NEW p \in Proc, Look(p) PROVE EditsKept'
    BY <1>26, IdAssumption DEF Look, Goto, Then, Idle, XInv, WInv, Fresh, Untouched, EditsKept,
       TypeOK, Row, Tree, TermState, OpState, git, luvus, Alive
  <1>27. ASSUME NEW p \in Proc, Evict(p) PROVE EditsKept'
    BY <1>27, IdAssumption DEF Evict, Goto, Then, Kill, Workers, XInv, WInv, Fresh, Untouched,
       EditsKept, TypeOK, Row, Tree, TermState, OpState, git, luvus, Alive
  <1>28. ASSUME NEW p \in Proc, Remove(p) PROVE EditsKept'
    BY <1>28, IdAssumption DEF Remove, Goto, Then, Idle, NoTree, Loss, XInv, WInv, Fresh,
       Untouched, EditsKept, TypeOK, Row, Tree, TermState, OpState, git, luvus, Alive
  <1>29. ASSUME NEW p \in Proc, Mark(p) PROVE EditsKept'
    BY <1>29, IdAssumption DEF Mark, Goto, Idle, XInv, WInv, Fresh, Untouched, EditsKept, TypeOK,
       Row, Tree, TermState, OpState, git, luvus, Alive
  <1>30. ASSUME NEW p \in Proc, Killed(p) PROVE EditsKept'
    BY <1>30, IdAssumption DEF Killed, Goto, Idle, Fault, XInv, WInv, Fresh, Untouched, EditsKept,
       TypeOK, Row, Tree, TermState, OpState, git, luvus, Alive
  <1>31. ASSUME NEW a \in AttemptId, NEW k \in TermId, LateCreate(a, k) PROVE EditsKept'
    BY <1>31, IdAssumption DEF LateCreate, Open, NewTerm, XInv, WInv, Fresh, Untouched, EditsKept,
       TypeOK, Row, Tree, TermState, OpState, git, luvus, Alive
  <1>32. ASSUME NEW k \in TermId, Work(k) PROVE EditsKept'
    BY <1>32, IdAssumption DEF Work, XInv, WInv, Fresh, Untouched, EditsKept, TypeOK, Row, Tree,
       TermState, OpState, git, luvus, Alive
  <1>33. ASSUME NEW k \in TermId, WorkerExits(k) PROVE EditsKept'
    BY <1>33, IdAssumption DEF WorkerExits, Kill, XInv, WInv, Fresh, Untouched, EditsKept, TypeOK,
       Row, Tree, TermState, OpState, git, luvus, Alive
  <1>34. ASSUME NEW S \in SUBSET TermId, Restart(S) PROVE EditsKept'
    BY <1>34, IdAssumption DEF Restart, Fault, XInv, WInv, Fresh, Untouched, EditsKept, TypeOK,
       Row, Tree, TermState, OpState, git, luvus, Alive
  <1>35. CASE UNCHANGED vars
    BY <1>35 DEF vars, XInv, WInv, Fresh, Untouched, EditsKept, TypeOK, Row, Tree, TermState,
       OpState, git, luvus, Alive
  <1> QED
    BY <1>1, <1>2, <1>3, <1>4, <1>5, <1>6, <1>7, <1>8, <1>9, <1>10, <1>11, <1>12, <1>13, <1>14,
       <1>15, <1>16, <1>17, <1>18, <1>19, <1>20, <1>21, <1>22, <1>23, <1>24, <1>25, <1>26, <1>27,
       <1>28, <1>29, <1>30, <1>31, <1>32, <1>33, <1>34, <1>35
       DEF Next, AttemptNext, OpNext, TermNext, Launcher, Proceed

-----------------------------------------------------------------------------

\* At first there is nothing.
LEMMA XInit == Init => XInv
  <1> SUFFICES ASSUME Init PROVE XInv
    OBVIOUS
  <1>1. WInv
    BY WInit
  <1>2. /\ \A p \in Proc : op[p].at = "idle" /\ ~op[p].lock
        /\ \A k \in TermId : term[k].of = NoAttempt /\ ~Alive(k)
        /\ \A a \in AttemptId : row[a].status = "none" /\ ~row[a].cleaned /\ ~tree[a].dirty /\ launch[a] = "none"
    BY DEF Init, Idle, NoRow, NoTree, Alive
  <1>3. late = {} /\ lost = {}
    BY DEF Init
  <1>4. Fresh /\ Locks /\ EditsKept
    BY <1>2, <1>3, IdAssumption DEF Fresh, Untouched, Locks, LockStep, EditsKept
  <1>5. Held /\ Slow /\ Faultless
    BY <1>2, <1>3 DEF Held, Slow, Faultless, Attended, Ended, EndStatus
  <1> QED
    BY <1>1, <1>4, <1>5 DEF XInv

\* The invariant survives every step.
LEMMA XStep == XInv /\ [Next]_vars => XInv'
  <1>1. XInv /\ [Next]_vars => WInv'
    BY TypeStep, PlacedStep, LaunchStepInv, RemovesStep, BranchesStep DEF WInv, XInv
  <1> QED
    BY <1>1, FreshStep, LocksStep, HeldStep, SlowStep, FaultlessStep, EditsStep DEF XInv

\* So it always holds.
LEMMA AlwaysXInv == Spec => []XInv
  BY XInit, XStep, PTL DEF Spec

\* A set whose elements are all the same has no second one.
LEMMA AtMostOne ==
  ASSUME NEW S, \A x, y \in S : x = y
  PROVE  Cardinality(S) <= 1
  <1>1. CASE S = {}
    BY <1>1, FS_EmptySet
  <1>2. CASE S # {}
    <2>1. PICK x \in S : TRUE
      BY <1>2
    <2>2. S = {x}
      BY <2>1
    <2> QED
      BY <2>2, FS_Singleton
  <1> QED
    BY <1>1, <1>2

\* The operations on attempts, for any number of them: two workers never run
\* in one worktree; what a worker has not committed is destroyed only by
\* "clean --discard"; without a fault no worker outlives its attempt but
\* under a launcher that stops it; and a cleaned attempt leaves a worktree
\* only when its launch was too slow (attempt.go, attempt_stop.go,
\* attempt_switch.go, watch_reap.go).
THEOREM LaunchSafe == Spec => []LaunchSafety
  <1>1. XInv => LaunchSafety
    <2> SUFFICES ASSUME XInv PROVE LaunchSafety
      OBVIOUS
    <2>1. OneWorkerPerTree
      <3> SUFFICES ASSUME NEW a \in AttemptId PROVE Cardinality(Workers(a)) <= 1
        BY DEF OneWorkerPerTree
      <3>1. \A j, k \in Workers(a) : j = k
        BY DEF XInv, Held, Workers
      <3> QED
        BY <3>1, AtMostOne
    <2>2. StrayNeedsFault
      <3>1. faults \in Nat
        BY DEF XInv, WInv, TypeOK
      <3>2. faults = 0 => \A a \in AttemptId : Ended(a) /\ Workers(a) # {} => launch[a] \in {"record", "stop"}
        BY DEF XInv, Faultless, Attended, Workers
      <3>3. faults = 0 \/ faults > 0
        BY <3>1
      <3> QED
        BY <3>2, <3>3 DEF StrayNeedsFault
    <2>3. LeftoverNeedsSlowLaunch
      BY DEF XInv, Slow, LeftoverNeedsSlowLaunch
    <2> QED
      BY <2>1, <2>2, <2>3 DEF XInv, WInv, LaunchSafety
  <1> QED
    BY AlwaysXInv, <1>1, PTL

-----------------------------------------------------------------------------
(* What was committed on branches that attempts continue *)

\* A branch is continued only once its first attempt was cleaned; a launcher
\* deletes only the branch it made; and nothing was committed on an attempt's
\* branch while its launcher may still delete it, unless the attempt had
\* outlived the grace.
Lineage ==
  /\ \A a \in AttemptId : row[a].status # "none" /\ row[a].branch # a => row[row[a].branch].cleaned
  /\ \A a \in AttemptId : launch[a] = "branch" => ~row[a].continues
  /\ \A a \in unpushed : launch[a] # "none" /\ (launch[a] \in Untouched => row[a].over)

YInv == XInv /\ Lineage /\ BranchesKept

\* What most steps do to rows, launchers and branches as far as this is
\* concerned: nothing starts, no branch is about to be deleted or is, and
\* nothing is committed.
Mild ==
  /\ \A a \in AttemptId :
       /\ row'[a].status = "none" <=> row[a].status = "none"
       /\ row'[a].branch = row[a].branch /\ row'[a].continues = row[a].continues
       /\ (row[a].cleaned => row'[a].cleaned) /\ (row[a].over => row'[a].over)
       /\ \/ launch'[a] = launch[a]
          \/ /\ launch'[a] \notin {"none", "branch"}
             /\ launch'[a] \in Untouched => launch[a] \in Untouched
  /\ unpushed' \subseteq unpushed /\ branches \subseteq branches'

\* Such a step keeps the branches.
LEMMA MildKeeps == YInv /\ Mild => Lineage' /\ BranchesKept'
  <1> SUFFICES ASSUME YInv, Mild PROVE Lineage' /\ BranchesKept'
    OBVIOUS
  <1>1. \A a \in AttemptId : row'[a].status # "none" /\ row'[a].branch # a => row'[row'[a].branch].cleaned
    BY DEF YInv, XInv, WInv, Placed, Mild, Lineage
  <1>2. \A a \in AttemptId : launch'[a] = "branch" => ~row'[a].continues
    BY DEF YInv, Mild, Lineage
  <1>3. unpushed' \subseteq AttemptId
    BY DEF YInv, XInv, WInv, TypeOK, Mild
  <1>4. \A a \in unpushed' : launch'[a] # "none" /\ (launch'[a] \in Untouched => row'[a].over)
    BY <1>3 DEF YInv, Mild, Lineage
  <1>5. BranchesKept'
    BY <1>3 DEF YInv, Mild, BranchesKept
  <1> QED
    BY <1>1, <1>2, <1>4, <1>5 DEF Lineage

\* The steps that are not such are three.  A start continues a branch only
\* when its last attempt was cleaned.
LEMMA StartKeeps ==
  ASSUME YInv, NEW a \in AttemptId, NEW prev \in AttemptId \cup {NoAttempt}, Start(a, prev)
  PROVE  Lineage' /\ BranchesKept'
  <1>1. /\ row[a].status = "none" /\ launch[a] = "none" /\ a \notin unpushed
        /\ UNCHANGED <<branches, unpushed>> /\ ~row[a].cleaned
    BY DEF Start, Step, git, YInv, Lineage, XInv, Slow, Ended, EndStatus
  <1>2. /\ \A b \in AttemptId \ {a} : row'[b] = row[b] /\ launch'[b] = launch[b]
        /\ launch'[a] = "add" /\ row'[a].status = "launching"
        /\ row'[a].branch = IF prev = NoAttempt THEN a ELSE row[prev].branch
    BY DEF Start, Step, YInv, XInv, WInv, TypeOK, Row, NoRow
  <1>3. prev # NoAttempt => prev \in AttemptId \ {a} /\ row[prev].cleaned /\ row[prev].status # "none"
                            /\ row[prev].branch \in AttemptId
    BY <1>1 DEF Start, Ended, EndStatus, YInv, XInv, WInv, Placed
  <1>4. row'[a].branch # a => row[row'[a].branch].cleaned
    BY <1>2, <1>3 DEF YInv, Lineage
  <1>5. \A b \in AttemptId : row'[b].status # "none" /\ row'[b].branch # b => row'[row'[b].branch].cleaned
    <2> SUFFICES ASSUME NEW b \in AttemptId, row'[b].status # "none", row'[b].branch # b
                 PROVE row'[row'[b].branch].cleaned
      OBVIOUS
    <2>1. row'[b].branch \in AttemptId /\ row[row'[b].branch].cleaned
      BY <1>2, <1>3, <1>4 DEF YInv, Lineage, XInv, WInv, Placed
    <2> QED
      BY <1>1, <1>2, <2>1
  <1>6. \A b \in AttemptId : launch'[b] = "branch" => ~row'[b].continues
    BY <1>2 DEF YInv, Lineage
  <1>7. unpushed \subseteq AttemptId \ {a}
    BY <1>1 DEF YInv, XInv, WInv, TypeOK
  <1>8. \A b \in unpushed' : launch'[b] # "none" /\ (launch'[b] \in Untouched => row'[b].over)
    BY <1>1, <1>2, <1>7 DEF YInv, Lineage
  <1>9. BranchesKept'
    BY <1>1, <1>2, <1>7 DEF YInv, BranchesKept
  <1> QED
    BY <1>5, <1>6, <1>8, <1>9 DEF Lineage

\* A launcher deletes the branch it made while nothing is committed on it.
LEMMA DiscardKeeps ==
  ASSUME YInv, NEW a \in AttemptId, Discard(a) \/ DropBranch(a)
  PROVE  Lineage' /\ BranchesKept'
  <1>1. /\ row' = row /\ unpushed' = unpushed
        /\ launch[a] \in {"discard", "branch"}
        /\ \A b \in AttemptId \ {a} : launch'[b] = launch[b]
        /\ launch'[a] \in {"branch", "fail"}
        /\ launch'[a] = "branch" => ~row[a].continues
    BY DEF Discard, DropBranch, Step, git, YInv, XInv, WInv, TypeOK
  <1>2. row[a].status # "none"
    BY <1>1 DEF YInv, XInv, WInv, Placed
  <1>3. \A b \in branches \ branches' : b = a /\ launch[a] = "branch"
    BY <1>2 DEF Discard, DropBranch, Step, YInv, Lineage, XInv, WInv, Placed
  <1>4. unpushed \subseteq AttemptId
    BY DEF YInv, XInv, WInv, TypeOK
  <1>5. Lineage'
    BY <1>1, <1>4 DEF YInv, Lineage, Untouched
  <1>6. \A b \in unpushed \ branches' : row[b].over
    BY <1>3, <1>4 DEF YInv, BranchesKept, Lineage, Untouched
  <1> QED
    BY <1>1, <1>5, <1>6 DEF BranchesKept

\* A worker commits on a branch that exists and that no launcher deletes
\* but one that was too slow.
LEMMA WorkKeeps ==
  ASSUME YInv, NEW k \in TermId, Work(k)
  PROVE  Lineage' /\ BranchesKept'
  <1>1. PICK a \in AttemptId : a = term[k].of /\ tree[a].there
    BY DEF Work, YInv, XInv, WInv, Placed
  <1>2. UNCHANGED <<row, branches, launch>>
    BY DEF Work
  <1>3. row[a].status # "none" /\ row[a].branch \in AttemptId /\ launch[a] \notin Untouched
    BY <1>1 DEF YInv, XInv, WInv, Placed, Fresh
  <1>4. unpushed' \subseteq unpushed \/ (~tree[a].loose /\ unpushed' = unpushed \cup {row[a].branch})
    BY <1>1 DEF Work
  <1>5. CASE unpushed' \subseteq unpushed
    BY <1>2, <1>5, MildKeeps DEF Mild
  <1>6. CASE ~tree[a].loose /\ unpushed' = unpushed \cup {row[a].branch}
    <2> DEFINE b == row[a].branch
    <2>1. b \in branches
      BY <1>1, <1>6 DEF YInv, XInv, WInv, BranchesHeld
    <2>2. launch[b] # "none" /\ (launch[b] \in Untouched => row[b].over)
      <3>1. CASE b = a
        BY <1>3, <3>1 DEF Untouched
      <3>2. CASE b # a
        <4>1. Ended(b) /\ row[b].status # "none"
          BY <1>3, <3>2 DEF YInv, Lineage, XInv, Slow, Ended, EndStatus
        <4>2. launch[b] # "none" /\ (launch[b] # "done" => row[b].over)
          BY <1>3, <4>1 DEF YInv, XInv, WInv, Placed, Slow
        <4> QED
          BY <4>2 DEF Untouched
      <3> QED
        BY <3>1, <3>2
    <2>3. Lineage'
      BY <1>2, <1>6, <2>2 DEF YInv, Lineage
    <2>4. BranchesKept'
      BY <1>2, <1>6, <2>1 DEF YInv, BranchesKept
    <2> QED
      BY <2>3, <2>4
  <1> QED
    BY <1>4, <1>5, <1>6

\* No step deletes a branch with commits that no remote has, unless its launch
\* was too slow.
LEMMA KeptStep == YInv /\ [Next]_vars => Lineage' /\ BranchesKept'
  <1> SUFFICES ASSUME YInv, [Next]_vars PROVE Lineage' /\ BranchesKept'
    OBVIOUS
  <1> USE DEF YInv, XInv, WInv, TypeOK, Row
  <1>1. ASSUME NEW a \in AttemptId, NEW prev \in AttemptId \cup {NoAttempt}, Start(a, prev)
        PROVE Lineage' /\ BranchesKept'
    BY <1>1, StartKeeps
  <1>2. ASSUME NEW a \in AttemptId, Add(a) PROVE Mild
    BY <1>2 DEF Add, Step, Untouched, Mild, git
  <1>3. ASSUME NEW a \in AttemptId, AddFails(a) PROVE Mild
    BY <1>3 DEF AddFails, Step, Untouched, Mild, git
  <1>4. ASSUME NEW a \in AttemptId, NEW k \in TermId, Create(a, k) PROVE Mild
    BY <1>4 DEF Create, Step, Untouched, Mild, git
  <1>5. ASSUME NEW a \in AttemptId, CreateRefused(a) PROVE Mild
    BY <1>5 DEF CreateRefused, Step, Untouched, Mild, git
  <1>6. ASSUME NEW a \in AttemptId, CreateUnknown(a) PROVE Mild
    BY <1>6 DEF CreateUnknown, Step, Untouched, Mild, git
  <1>7. ASSUME NEW a \in AttemptId, Record(a) PROVE Mild
    <2>1. /\ launch[a] = "record"
          /\ \A b \in AttemptId : launch'[b] = launch[b] \/ launch'[b] \in {"done", "stop"}
      BY <1>7, RecordEffect
    <2>2. \A b \in AttemptId :
            /\ row'[b].status = "none" <=> row[b].status = "none"
            /\ row'[b].branch = row[b].branch /\ row'[b].continues = row[b].continues
            /\ row'[b].cleaned = row[b].cleaned /\ row'[b].over = row[b].over
      BY <1>7, RecordEffect, RecordPoints
    <2> QED
      BY <1>7, <2>1, <2>2 DEF Record, Mild, Untouched, git
  <1>8. ASSUME NEW a \in AttemptId, StopOwn(a) PROVE Mild
    BY <1>8 DEF StopOwn, Step, Untouched, Mild, git
  <1>9. ASSUME NEW a \in AttemptId, CloseUnknown(a) PROVE Mild
    BY <1>9 DEF CloseUnknown, Step, Untouched, Mild, git
  <1>10. ASSUME NEW a \in AttemptId, Discard(a)
        PROVE Lineage' /\ BranchesKept'
    BY <1>10, DiscardKeeps
  <1>11. ASSUME NEW a \in AttemptId, DropBranch(a)
        PROVE Lineage' /\ BranchesKept'
    BY <1>11, DiscardKeeps
  <1>12. ASSUME NEW a \in AttemptId, Fail(a) PROVE Mild
    BY <1>12 DEF Fail, Step, Untouched, EndRow, attemptEnds, Mild, git
  <1>13. ASSUME NEW a \in AttemptId, LauncherDies(a) PROVE Mild
    BY <1>13 DEF LauncherDies, Untouched, Mild, git
  <1>14. ASSUME NEW a \in AttemptId, GracePasses(a) PROVE Mild
    BY <1>14 DEF GracePasses, Mild, git
  <1>15. ASSUME NEW p \in Proc, NEW a \in AttemptId, Settle(p, a) PROVE Mild
    BY <1>15 DEF Settle, Mild, git
  <1>16. ASSUME NEW p \in Proc, SettleClose(p) PROVE Mild
    BY <1>16 DEF SettleClose, Mild, git
  <1>17. ASSUME NEW p \in Proc, End(p) PROVE Mild
    BY <1>17, EndEffect, EndsAs DEF End, Mild, LiveStatus, EndStatus, git
  <1>18. ASSUME NEW p \in Proc, NEW a \in AttemptId, Stop(p, a) PROVE Mild
    BY <1>18 DEF Stop, Mild, git
  <1>19. ASSUME NEW p \in Proc, StopKill(p) PROVE Mild
    BY <1>19 DEF StopKill, Mild, git
  <1>20. ASSUME NEW p \in Proc, NEW a \in AttemptId, Switch(p, a) PROVE Mild
    BY <1>20 DEF Switch, Mild, git
  <1>21. ASSUME NEW p \in Proc, NEW k \in TermId, Pane(p, k) PROVE Mild
    BY <1>21 DEF Pane, Mild, git
  <1>22. ASSUME NEW p \in Proc, PaneFails(p) PROVE Mild
    BY <1>22 DEF PaneFails, Mild, git
  <1>23. ASSUME NEW p \in Proc, Repoint(p) PROVE Mild
    BY ZenonT(40), <1>23, RepointEffect, RepointPoints DEF Repoint, Mild, git
  <1>24. ASSUME NEW p \in Proc, NEW a \in AttemptId, NEW discard \in BOOLEAN, Clean(p, a, discard) PROVE Mild
    BY <1>24 DEF Clean, Mild, git
  <1>25. ASSUME NEW p \in Proc, NEW a \in AttemptId, Reap(p, a) PROVE Mild
    BY <1>25 DEF Reap, Mild, git
  <1>26. ASSUME NEW p \in Proc, Look(p) PROVE Mild
    BY <1>26, LookEffect DEF Look, Mild, git
  <1>27. ASSUME NEW p \in Proc, Evict(p) PROVE Mild
    BY <1>27 DEF Evict, Mild, git
  <1>28. ASSUME NEW p \in Proc, Remove(p) PROVE Mild
    BY <1>28, RemoveEffect DEF Remove, Mild
  <1>29. ASSUME NEW p \in Proc, Mark(p) PROVE Mild
    BY <1>29 DEF Mark, Mild, git
  <1>30. ASSUME NEW p \in Proc, Killed(p) PROVE Mild
    BY <1>30 DEF Killed, Mild, git
  <1>31. ASSUME NEW a \in AttemptId, NEW k \in TermId, LateCreate(a, k) PROVE Mild
    BY <1>31 DEF LateCreate, Mild, git
  <1>32. ASSUME NEW k \in TermId, Work(k)
        PROVE Lineage' /\ BranchesKept'
    BY <1>32, WorkKeeps
  <1>33. ASSUME NEW k \in TermId, WorkerExits(k) PROVE Mild
    BY <1>33 DEF WorkerExits, Mild, git
  <1>34. ASSUME NEW S \in SUBSET TermId, Restart(S) PROVE Mild
    BY <1>34 DEF Restart, Mild, git
  <1>35. CASE UNCHANGED vars
    BY <1>35, MildKeeps DEF vars, Mild, git
  <1> QED
    BY MildKeeps, <1>1, <1>2, <1>3, <1>4, <1>5, <1>6, <1>7, <1>8, <1>9, <1>10, <1>11, <1>12, <1>13,
       <1>14, <1>15, <1>16, <1>17, <1>18, <1>19, <1>20, <1>21, <1>22, <1>23, <1>24, <1>25, <1>26,
       <1>27, <1>28, <1>29, <1>30, <1>31, <1>32, <1>33, <1>34, <1>35
       DEF Next, AttemptNext, OpNext, TermNext, Launcher, Proceed

\* The invariant holds from the start and survives every step.
LEMMA AlwaysYInv == Spec => []YInv
  <1>1. Init => YInv
    <2> SUFFICES ASSUME Init PROVE YInv
      OBVIOUS
    <2>1. /\ \A a \in AttemptId : row[a].status = "none" /\ launch[a] = "none"
          /\ unpushed = {}
      BY DEF Init, NoRow
    <2> QED
      BY <2>1, XInit DEF YInv, Lineage, BranchesKept
  <1>2. YInv /\ [Next]_vars => YInv'
    <2>1. YInv /\ [Next]_vars => XInv'
      BY XStep DEF YInv
    <2> QED
      BY <2>1, KeptStep DEF YInv
  <1> QED
    BY <1>1, <1>2, PTL DEF Spec

\* Attempts that continue each other's branches, for any number of them: a
\* running one has its worktree and branch, whatever is launched, cleaned,
\* reaped or discarded around it, and a branch whose commits no remote has
\* is deleted only by a launcher that outlived launchGrace (attempt.go
\* "branch -D", attempt_stop.go, watch_reap.go).
THEOREM ContinueSafe == Spec => []ContinueSafety
  <1>1. YInv => BranchesKept
    BY DEF YInv
  <1> QED
    BY WorkplaceKept, AlwaysYInv, <1>1, PTL DEF ContinueSafety
=============================================================================
