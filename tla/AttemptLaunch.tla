---------------------------- MODULE AttemptLaunch ----------------------------
(***************************************************************************)
(* An attempt outside the database: the worktree and branch git keeps for  *)
(* it and the Luvus terminal its worker runs in (internal/cli/attempt.go,  *)
(* attempt_stop.go, attempt_switch.go, watch_reap.go, runtime.go).         *)
(*                                                                         *)
(* "attempt start" is the launcher: it inserts the row, then makes the     *)
(* worktree, creates the terminal and records it, without holding any      *)
(* lock.  Settle, stop, switch and the watcher's reaper are operations     *)
(* under the attempt's file lock, which dies with the process; clean takes *)
(* no lock.  Every database transaction, git command and Luvus call is a   *)
(* step of its own, and the process may be killed between any two.         *)
(*                                                                         *)
(* All attempts here are of one active task; how tasks and attempts relate *)
(* in the database is FleetStore's subject.                                *)
(***************************************************************************)
EXTENDS Naturals, FiniteSets

CONSTANTS
  AttemptId, TermId, \* row ids; terminals in the order they are created
  Proc,              \* operations that can be under way at once
  Deed,              \* what workers do: "edit", "commit", "push", "detach"
  MaxFault,          \* bound: kills, failed and unanswered calls, server restarts
  NoAttempt, NoTerm

ASSUME IdAssumption ==
  /\ AttemptId \subseteq Nat \ {0} /\ TermId \subseteq Nat \ {0}
  /\ NoAttempt = 0 /\ NoTerm = 0 /\ MaxFault \in Nat

VARIABLES
  row,       \* attempt rows, with the terminal each one records
  tree,      \* git: the worktree of each attempt
  branches,  \* git: the branches that exist, each named after its first attempt
  unpushed,  \* git: branches with a worker's commits that no remote has
  term,      \* Luvus: terminals and the processes in them
  late,      \* Luvus: attempts for which a create may still be carried out
  launch,    \* the call each attempt's launcher makes next
  op,        \* where each operation is, and its local variables
  lost,      \* history: work destroyed though nobody asked for --discard
  faults     \* bound: faults so far

git == <<tree, branches, unpushed>>
luvus == <<term, late>>
vars == <<row, git, luvus, launch, op, lost, faults>>

-----------------------------------------------------------------------------
(* State *)

LiveStatus == {"launching", "running"}
EndStatus  == {"exited", "stopped", "interrupted", "failed"}
attemptEnds == [s \in {"none"} \cup LiveStatus \cup EndStatus |->
  CASE s = "launching" -> {"failed"}
    [] s = "running"   -> {"exited", "stopped", "interrupted"}
    [] OTHER           -> {}]

\* over: the row was inserted more than launchGrace ago.
Row == [status : {"none"} \cup LiveStatus \cup EndStatus, branch : AttemptId \cup {NoAttempt},
        continues : BOOLEAN, cleaned : BOOLEAN, term : TermId \cup {NoTerm}, over : BOOLEAN]
NoRow == [status |-> "none", branch |-> NoAttempt, continues |-> FALSE, cleaned |-> FALSE,
          term |-> NoTerm, over |-> FALSE]

\* dirty: uncommitted or untracked files; loose: HEAD is detached and has
\* commits on no branch, tag or remote.
Tree == [there : BOOLEAN, dirty : BOOLEAN, loose : BOOLEAN]
NoTree  == [there |-> FALSE, dirty |-> FALSE, loose |-> FALSE]
NewTree == [NoTree EXCEPT !.there = TRUE]

\* "adrift": the process outlived the server its terminal was in.
TermState == [of : AttemptId \cup {NoAttempt}, status : {"none", "open", "adrift", "gone"}]

LaunchStep == {"none", "add", "create", "record", "stop", "unknown", "discard", "branch", "fail", "done"}

\* lock: the attempt's lock is held; to: the status EndAttempt is given;
\* discard, evict: the flags of removeWorktree; term: a new pane's terminal.
OpState == [at : {"idle", "close", "kill", "pane", "repoint", "end", "look", "evict", "remove", "mark"},
            a : AttemptId \cup {NoAttempt}, lock : BOOLEAN, to : EndStatus,
            discard : BOOLEAN, evict : BOOLEAN, term : TermId \cup {NoTerm}]
Idle == [at |-> "idle", a |-> NoAttempt, lock |-> FALSE, to |-> "exited",
         discard |-> FALSE, evict |-> FALSE, term |-> NoTerm]

TypeOK ==
  /\ row \in [AttemptId -> Row]
  /\ tree \in [AttemptId -> Tree]
  /\ branches \subseteq AttemptId /\ unpushed \subseteq AttemptId
  /\ term \in [TermId -> TermState]
  /\ late \subseteq AttemptId
  /\ launch \in [AttemptId -> LaunchStep]
  /\ op \in [Proc -> OpState]
  /\ lost \subseteq {"edits", "commits"}
  /\ faults \in Nat

Live(a)  == row[a].status \in LiveStatus
Ended(a) == row[a].status \in EndStatus
Alive(k) == term[k].status \in {"open", "adrift"}
Workers(a) == {k \in TermId : term[k].of = a /\ Alive(k)}
NewTerm(k) == /\ term[k].status = "none"
              /\ \A j \in TermId : j < k => term[j].status # "none"
\* Bound: terminal ids left beside those that creates under way may need.
Room == Cardinality({k \in TermId : term[k].status = "none"})
        > Cardinality({p \in Proc : op[p].at = "pane"})
          + Cardinality({a \in AttemptId : launch[a] \in {"add", "create"}})
\* git keeps a branch in one worktree at most; a detached HEAD holds none.
CheckedOut(b) == \E a \in AttemptId : tree[a].there /\ ~tree[a].loose /\ row[a].branch = b
LockFree(a) == \A p \in Proc : ~(op[p].a = a /\ op[p].lock)

Init ==
  /\ row = [a \in AttemptId |-> NoRow]
  /\ tree = [a \in AttemptId |-> NoTree]
  /\ branches = {} /\ unpushed = {}
  /\ term = [k \in TermId |-> [of |-> NoAttempt, status |-> "none"]]
  /\ late = {}
  /\ launch = [a \in AttemptId |-> "none"]
  /\ op = [p \in Proc |-> Idle]
  /\ lost = {}
  /\ faults = 0

Fault == faults < MaxFault /\ faults' = faults + 1
Step(a, from, to) == launch[a] = from /\ launch' = [launch EXCEPT ![a] = to]
Goto(p, r) == op' = [op EXCEPT ![p] = r]
Then(p, step) == Goto(p, [op[p] EXCEPT !.at = step])

\* The processes of K end and their terminals close.
Kill(K) == term' = [k \in TermId |-> IF k \in K THEN [term[k] EXCEPT !.status = "gone"] ELSE term[k]]
Open(k, a) == NewTerm(k) /\ term' = [term EXCEPT ![k] = [of |-> a, status |-> "open"]]
\* What goes with a's worktree.
Loss(a) == (IF tree[a].dirty THEN {"edits"} ELSE {}) \cup (IF tree[a].loose THEN {"commits"} ELSE {})

-----------------------------------------------------------------------------
(* The launcher *)

Start(a, prev) ==
  /\ row[a].status = "none"
  /\ \A b \in AttemptId : b < a => row[b].status # "none"
  /\ prev # NoAttempt => Ended(prev) /\ row[prev].cleaned /\ row[prev].branch \in branches
  /\ \A b \in AttemptId : ~Live(b)
  /\ Room
  /\ row' = [row EXCEPT ![a] = [NoRow EXCEPT
       !.status = "launching", !.continues = prev # NoAttempt,
       !.branch = IF prev = NoAttempt THEN a ELSE row[prev].branch]]
  /\ Step(a, "none", "add")
  /\ UNCHANGED <<git, luvus, op, lost, faults>>

\* "worktree add" makes a fresh branch, or checks out the continued one.
CanAdd(a) ==
  /\ ~tree[a].there
  /\ IF row[a].continues
     THEN row[a].branch \in branches /\ ~CheckedOut(row[a].branch)
     ELSE a \notin branches

Add(a) ==
  /\ Step(a, "add", "create")
  /\ CanAdd(a)
  /\ tree' = [tree EXCEPT ![a] = NewTree]
  /\ branches' = branches \cup {row[a].branch}
  /\ UNCHANGED <<row, unpushed, luvus, op, lost, faults>>

AddFails(a) ==
  /\ Step(a, "add", "fail")
  /\ IF CanAdd(a) THEN Fault ELSE UNCHANGED faults
  /\ UNCHANGED <<row, git, luvus, op, lost>>

Create(a, k) ==
  /\ Step(a, "create", "record")
  /\ tree[a].there
  /\ Open(k, a)
  /\ UNCHANGED <<row, git, late, op, lost, faults>>

\* Luvus answers with an error, or preparing the harness fails.
CreateRefused(a) ==
  /\ Step(a, "create", "discard")
  /\ IF tree[a].there THEN Fault ELSE UNCHANGED faults
  /\ UNCHANGED <<row, git, luvus, op, lost>>

\* No answer: the terminal is there, will be, or will not be.
CreateUnknown(a) ==
  /\ Step(a, "create", "unknown")
  /\ tree[a].there
  /\ Fault
  /\ \/ (\E k \in TermId : Open(k, a)) /\ UNCHANGED late
     \/ late' \in {late, late \cup {a}} /\ UNCHANGED term
  /\ UNCHANGED <<row, git, op, lost>>

\* AttemptRunning.  Until its row is running an attempt has one terminal.
Record(a) ==
  /\ IF row[a].status = "launching"
     THEN /\ Step(a, "record", "done")
          /\ \E k \in TermId : term[k].of = a /\
               row' = [row EXCEPT ![a].status = "running", ![a].term = k]
     ELSE Step(a, "record", "stop") /\ UNCHANGED row
  /\ UNCHANGED <<git, luvus, op, lost, faults>>

StopOwn(a) ==
  /\ Step(a, "stop", "fail")
  /\ Kill(Workers(a))
  /\ UNCHANGED <<row, git, late, op, lost, faults>>

\* closeLabelled; the row stays launching.
CloseUnknown(a) ==
  /\ Step(a, "unknown", "done")
  /\ Kill({k \in Workers(a) : term[k].status = "open"})
  /\ UNCHANGED <<row, git, late, op, lost, faults>>

\* "worktree remove --force".
Discard(a) ==
  /\ Step(a, "discard", IF tree[a].there /\ ~row[a].continues THEN "branch" ELSE "fail")
  /\ tree' = [tree EXCEPT ![a] = NoTree]
  /\ lost' = lost \cup Loss(a)
  /\ UNCHANGED <<row, branches, unpushed, luvus, op, faults>>

\* "branch -D", which git refuses for a branch some worktree has.
DropBranch(a) ==
  /\ Step(a, "branch", "fail")
  /\ branches' = IF CheckedOut(row[a].branch) THEN branches ELSE branches \ {row[a].branch}
  /\ UNCHANGED <<row, tree, unpushed, luvus, op, lost, faults>>

EndRow(a, to) ==
  row' = IF to \in attemptEnds[row[a].status] THEN [row EXCEPT ![a].status = to] ELSE row

Fail(a) ==
  /\ Step(a, "fail", "done")
  /\ EndRow(a, "failed")
  /\ UNCHANGED <<git, luvus, op, lost, faults>>

LauncherDies(a) ==
  /\ launch[a] \notin {"none", "done"}
  /\ Fault
  /\ launch' = [launch EXCEPT ![a] = "done"]
  /\ late' \in {late, IF launch[a] = "create" THEN late \cup {a} ELSE late}
  /\ UNCHANGED <<row, git, term, op, lost>>

Launcher(a) ==
  \/ Add(a) \/ AddFails(a) \/ (\E k \in TermId : Create(a, k))
  \/ CreateRefused(a) \/ CreateUnknown(a) \/ Record(a) \/ StopOwn(a) \/ CloseUnknown(a)
  \/ Discard(a) \/ DropBranch(a) \/ Fail(a)

-----------------------------------------------------------------------------
(* Settle: what the sync of every command and of the watcher does *)

GracePasses(a) ==
  /\ row[a].status = "launching" /\ ~row[a].over
  /\ row' = [row EXCEPT ![a].over = TRUE]
  /\ UNCHANGED <<git, luvus, launch, op, lost, faults>>

\* Mutant: a launch is never given up.
BugGraceless(a) ==
  IF row[a].status = "running"
  THEN CASE term[row[a].term].status = "adrift" -> {"interrupted"}
         [] term[row[a].term].status = "gone"   -> {"exited", "interrupted"}
         [] OTHER                               -> {}
  ELSE {}

\* Mutant: the server generation is not compared.
BugGeneration(a) ==
  IF row[a].status = "launching"
  THEN IF row[a].over THEN {"failed"} ELSE {}
  ELSE IF term[row[a].term].status = "gone" THEN {"exited", "interrupted"} ELSE {}

\* The status the attempt should get; none while it is well.
observeTerminal(a) ==
  IF row[a].status = "launching"
  THEN IF row[a].over THEN {"failed"} ELSE {}
  ELSE CASE term[row[a].term].status = "adrift" -> {"interrupted"}
         [] term[row[a].term].status = "gone"   -> {"exited", "interrupted"}
         [] OTHER                               -> {}

Settle(p, a) ==
  /\ op[p].at = "idle" /\ LockFree(a)
  /\ Live(a)
  /\ \E to \in observeTerminal(a) :
       Goto(p, [Idle EXCEPT !.at = "close", !.a = a, !.lock = TRUE, !.to = to])
  /\ UNCHANGED <<row, git, luvus, launch, lost, faults>>

\* stopRoot, closeLabelled and sweepWorktree.
SettleClose(p) ==
  /\ op[p].at = "close"
  /\ Kill(Workers(op[p].a))
  /\ Then(p, "end")
  /\ UNCHANGED <<row, git, late, launch, lost, faults>>

\* Mutant: the row is ended whatever became of it meanwhile.
BugEnd(p) ==
  /\ op[p].at = "end"
  /\ row' = [row EXCEPT ![op[p].a].status = op[p].to]
  /\ Goto(p, Idle)
  /\ UNCHANGED <<git, luvus, launch, lost, faults>>

\* EndAttempt; a conflict changes nothing.
End(p) ==
  /\ op[p].at = "end"
  /\ EndRow(op[p].a, op[p].to)
  /\ Goto(p, Idle)
  /\ UNCHANGED <<git, luvus, launch, lost, faults>>

-----------------------------------------------------------------------------
(* Stop and switch *)

Stop(p, a) ==
  /\ op[p].at = "idle" /\ LockFree(a)
  /\ row[a].status = "running"
  /\ Goto(p, [Idle EXCEPT !.at = "kill", !.a = a, !.lock = TRUE])
  /\ UNCHANGED <<row, git, luvus, launch, lost, faults>>

\* stopWorker when the root still lives, and the sweep.
StopKill(p) ==
  /\ op[p].at = "kill"
  /\ LET a == op[p].a IN
     /\ Kill(Workers(a))
     /\ Goto(p, [op[p] EXCEPT !.at = "end", !.to = IF Alive(row[a].term) THEN "stopped" ELSE "exited"])
  /\ UNCHANGED <<row, git, late, launch, lost, faults>>

\* Mutant: the old pane is not stopped first.
BugSwitch(p, a) ==
  /\ op[p].at = "idle" /\ LockFree(a)
  /\ row[a].status = "running" /\ term[row[a].term].status = "open"
  /\ Room
  /\ Goto(p, [Idle EXCEPT !.at = "pane", !.a = a, !.lock = TRUE])
  /\ UNCHANGED <<row, git, luvus, launch, lost, faults>>

\* An idle worker's pane is stopped, to start again on another model.
Switch(p, a) ==
  /\ op[p].at = "idle" /\ LockFree(a)
  /\ row[a].status = "running" /\ term[row[a].term].status = "open"
  /\ Room
  /\ Kill({row[a].term})
  /\ Goto(p, [Idle EXCEPT !.at = "pane", !.a = a, !.lock = TRUE])
  /\ UNCHANGED <<row, git, late, launch, lost, faults>>

Pane(p, k) ==
  /\ op[p].at = "pane"
  /\ Open(k, op[p].a)
  /\ Goto(p, [op[p] EXCEPT !.at = "repoint", !.term = k])
  /\ UNCHANGED <<row, git, late, launch, lost, faults>>

\* Refused, or no answer: what closeLabelled finds is closed, and the create
\* may still be carried out.
PaneFails(p) ==
  /\ op[p].at = "pane"
  /\ Fault
  /\ late' \in {late, late \cup {op[p].a}}
  /\ Goto(p, [op[p] EXCEPT !.at = "end", !.to = "interrupted"])
  /\ UNCHANGED <<row, git, term, launch, lost>>

\* AttemptSwitched.
Repoint(p) ==
  /\ op[p].at = "repoint"
  /\ IF row[op[p].a].status = "running"
     THEN /\ row' = [row EXCEPT ![op[p].a].term = op[p].term]
          /\ Goto(p, Idle)
          /\ UNCHANGED term
     ELSE /\ Kill({op[p].term})
          /\ Goto(p, [op[p] EXCEPT !.at = "end", !.to = "interrupted"])
          /\ UNCHANGED row
  /\ UNCHANGED <<git, late, launch, lost, faults>>

-----------------------------------------------------------------------------
(* Removing a worktree *)

\* Mutant: a launching attempt can be cleaned.
BugClean(p, a, discard) ==
  /\ op[p].at = "idle"
  /\ row[a].status \notin {"none", "running"} /\ ~row[a].cleaned
  /\ Goto(p, [Idle EXCEPT !.at = "look", !.a = a, !.discard = discard, !.evict = TRUE])
  /\ UNCHANGED <<row, git, luvus, launch, lost, faults>>

Clean(p, a, discard) ==
  /\ op[p].at = "idle"
  /\ Ended(a) /\ ~row[a].cleaned
  /\ Goto(p, [Idle EXCEPT !.at = "look", !.a = a, !.discard = discard, !.evict = TRUE])
  /\ UNCHANGED <<row, git, luvus, launch, lost, faults>>

\* What git says of the worktree: changes, or commits on no remote branch.
worktreeBlocker(a) == tree[a].there /\ (tree[a].dirty \/ tree[a].loose \/ row[a].branch \in unpushed)

\* reapCheck: what makes the watcher keep a worktree.
Blocked(a) ==
  \/ Workers(a) # {}
  \/ worktreeBlocker(a)

\* The window is days, so the attempt's launch is long over.
Reap(p, a) ==
  /\ op[p].at = "idle" /\ LockFree(a)
  /\ Ended(a) /\ ~row[a].cleaned
  /\ launch[a] = "done" /\ a \notin late
  /\ ~Blocked(a)
  /\ Goto(p, [Idle EXCEPT !.at = "look", !.a = a, !.lock = TRUE])
  /\ UNCHANGED <<row, git, luvus, launch, lost, faults>>

Look(p) ==
  /\ op[p].at = "look"
  /\ LET t == tree[op[p].a] IN
     IF ~t.there THEN Then(p, "mark")
     ELSE IF (t.dirty \/ t.loose) /\ ~op[p].discard THEN Goto(p, Idle)
     ELSE Then(p, IF op[p].evict THEN "evict" ELSE "remove")
  /\ UNCHANGED <<row, git, luvus, launch, lost, faults>>

\* closeTerminalsUnder and sweepWorktree.
Evict(p) ==
  /\ op[p].at = "evict"
  /\ Kill(Workers(op[p].a))
  /\ Then(p, "remove")
  /\ UNCHANGED <<row, git, late, launch, lost, faults>>

\* "worktree remove", which without --force git refuses for a dirty one.
Remove(p) ==
  /\ op[p].at = "remove"
  /\ LET a == op[p].a IN
     IF tree[a].there /\ (tree[a].dirty => op[p].discard)
     THEN /\ tree' = [tree EXCEPT ![a] = NoTree]
          /\ lost' = IF op[p].discard THEN lost ELSE lost \cup Loss(a)
          /\ Then(p, "mark")
     ELSE Goto(p, Idle) /\ UNCHANGED <<tree, lost>>
  /\ UNCHANGED <<row, branches, unpushed, luvus, launch, faults>>

\* cleanAttempt.
Mark(p) ==
  /\ op[p].at = "mark"
  /\ row' = IF Ended(op[p].a) THEN [row EXCEPT ![op[p].a].cleaned = TRUE] ELSE row
  /\ Goto(p, Idle)
  /\ UNCHANGED <<git, luvus, launch, lost, faults>>

\* The process is killed, or a call it makes fails and it gives up.
Killed(p) ==
  /\ op[p].at # "idle"
  /\ Fault
  /\ Goto(p, Idle)
  /\ late' \in {late, IF op[p].at = "pane" THEN late \cup {op[p].a} ELSE late}
  /\ UNCHANGED <<row, git, term, launch, lost>>

Proceed(p) ==
  \/ SettleClose(p) \/ End(p) \/ StopKill(p) \/ (\E k \in TermId : Pane(p, k)) \/ PaneFails(p)
  \/ Repoint(p) \/ Look(p) \/ Evict(p) \/ Remove(p) \/ Mark(p)

-----------------------------------------------------------------------------
(* Luvus and the workers *)

LateCreate(a, k) ==
  /\ a \in late /\ tree[a].there
  /\ Room
  /\ late' = late \ {a}
  /\ Open(k, a)
  /\ UNCHANGED <<row, git, launch, op, lost, faults>>

\* A worker writes, commits, pushes its branch, or detaches its HEAD and from
\* then on commits there.
Work(k) ==
  /\ Alive(k) /\ tree[term[k].of].there
  /\ LET a == term[k].of
         b == row[a].branch IN
     \/ /\ "edit" \in Deed
        /\ tree' = [tree EXCEPT ![a].dirty = TRUE]
        /\ UNCHANGED unpushed
     \/ /\ "commit" \in Deed
        /\ tree' = [tree EXCEPT ![a].dirty = FALSE]
        /\ unpushed' = IF tree[a].loose THEN unpushed ELSE unpushed \cup {b}
     \/ /\ "push" \in Deed /\ ~tree[a].loose
        /\ unpushed' = unpushed \ {b}
        /\ UNCHANGED tree
     \/ /\ "detach" \in Deed
        /\ tree' = [tree EXCEPT ![a].loose = TRUE]
        /\ UNCHANGED unpushed
  /\ UNCHANGED <<row, branches, luvus, launch, op, lost, faults>>

WorkerExits(k) ==
  /\ Alive(k)
  /\ Kill({k})
  /\ UNCHANGED <<row, git, late, launch, op, lost, faults>>

\* The server restarts; S are the workers that outlive it.
Restart(S) ==
  /\ \E k \in TermId : term[k].status = "open"
  /\ S \subseteq {k \in TermId : term[k].status = "open"}
  /\ Fault
  /\ term' = [k \in TermId |-> IF term[k].status # "open" THEN term[k]
                               ELSE [term[k] EXCEPT !.status = IF k \in S THEN "adrift" ELSE "gone"]]
  /\ UNCHANGED <<row, git, late, launch, op, lost>>

-----------------------------------------------------------------------------

AttemptNext == \E a \in AttemptId :
  \/ \E prev \in AttemptId \cup {NoAttempt} : Start(a, prev)
  \/ Launcher(a) \/ LauncherDies(a) \/ GracePasses(a)
  \/ \E k \in TermId : LateCreate(a, k)

OpNext == \E p \in Proc :
  \/ \E a \in AttemptId :
       \/ Settle(p, a) \/ Stop(p, a) \/ Switch(p, a) \/ Reap(p, a)
       \/ \E discard \in BOOLEAN : Clean(p, a, discard)
  \/ Proceed(p)
  \/ Killed(p)

TermNext ==
  \/ \E k \in TermId : Work(k) \/ WorkerExits(k)
  \/ \E S \in SUBSET TermId : Restart(S)

Next == AttemptNext \/ OpNext \/ TermNext

Spec == Init /\ [][Next]_vars

\* A process runs on until it is done or dies, the grace passes, and some
\* command or the watcher's tick looks at every live attempt again and again;
\* it passes over one whose lock another process holds.
Fairness ==
  /\ \A p \in Proc : WF_vars(Proceed(p))
  /\ \A a \in AttemptId : WF_vars(GracePasses(a)) /\ SF_vars(\E p \in Proc : Settle(p, a))

FairSpec == Spec /\ Fairness

-----------------------------------------------------------------------------
(* Properties *)

\* A running attempt has its worktree, with its branch in it and in no other
\* worktree unless a worker detached HEAD, whatever is launched, cleaned,
\* reaped or discarded around it.
RunningHasWorkplace ==
  \A a \in AttemptId : row[a].status = "running" =>
    /\ tree[a].there
    /\ ~tree[a].loose => row[a].branch \in branches
    /\ \A b \in AttemptId \ {a} : tree[b].there /\ row[b].branch = row[a].branch =>
         tree[a].loose \/ tree[b].loose

\* Two workers never run in one worktree: not across a switch, a launch whose
\* create was not answered, or a server restart.
OneWorkerPerTree == \A a \in AttemptId : Cardinality(Workers(a)) <= 1

\* Files a worker has not committed are destroyed only by "clean --discard".
EditsKept == "edits" \notin lost

\* A branch whose commits no remote has is deleted only by a launcher that
\* outlived launchGrace: its attempt was failed, cleaned and continued by one
\* that detached HEAD, all before the launcher's "branch -D".
BranchesKept == \A b \in unpushed \ branches : row[b].over

\* A worker outlives its attempt's row only while its launcher is about to
\* stop it, or after a kill, a restart or a call without an answer.
StrayNeedsFault ==
  \A a \in AttemptId : Ended(a) /\ Workers(a) # {} => launch[a] \in {"record", "stop"} \/ faults > 0

\* A cleaned attempt leaves a worktree behind only when its launch outlived
\* launchGrace, so that it was failed and cleaned under its launcher.
LeftoverNeedsSlowLaunch ==
  \A a \in AttemptId : row[a].cleaned /\ tree[a].there => row[a].over

\* The operations on one attempt: one worker in its tree, no edits lost, and
\* what is left behind only after a fault or a launch that was too slow.
LaunchSafety == TypeOK /\ OneWorkerPerTree /\ EditsKept /\ StrayNeedsFault /\ LeftoverNeedsSlowLaunch

\* Attempts that continue each other's branches keep their workplaces and what
\* was committed on the branches.
ContinueSafety == RunningHasWorkplace /\ BranchesKept

\* What the docs say of clean: without --discard no commit is lost.
CommitsKept == "commits" \notin lost

\* An attempt as FleetStore sees it: a row of task 1.
storeAttempt ==
  [a \in AttemptId |->
     [task |-> IF row[a].status = "none" THEN 0 ELSE 1, status |-> row[a].status,
      branch |-> row[a].branch, cleaned |-> row[a].cleaned]]

Store == INSTANCE FleetStore WITH
  TaskId <- {1}, ReportId <- {}, DecisionId <- {}, TimerId <- {}, Ref <- {},
  MaxTimers <- 0, MaxRevision <- 0, NoTask <- 0,
  task <- [t \in {1} |-> "active"],
  attempt <- storeAttempt,
  report <- [r \in {} |-> 0], decision <- [d \in {} |-> 0], timer <- [w \in {} |-> 0],
  plan <- [t \in {1} |-> 0], delivered <- [t \in {1} |-> {}]

\* The launcher, settle, stop, switch, clean and reap together implement the
\* attempts of FleetStore.
ImplementsStore == [][Store!Next]_(Store!vars)

\* A launch never stays launching: it runs or fails, even when its launcher dies.
LaunchSettles == \A a \in AttemptId : row[a].status = "launching" ~> row[a].status # "launching"

\* An attempt whose worker is gone, or whose server is, does not stay running.
DeadWorkerNoticed ==
  \A a \in AttemptId :
    (row[a].status = "running" /\ row[a].term # NoTerm /\ term[row[a].term].status # "open")
    ~> (row[a].status # "running" \/ term[row[a].term].status = "open")
=============================================================================
