------------------------------ MODULE FleetMove ------------------------------
(***************************************************************************)
(* "hand fleet move": a fleet's database, folder, worktree links and       *)
(* registry entry go to a new home one after the other (cli/fleet_move.go, *)
(* state/move.go, fleet/fleet.go).  No lock is held; a marker in the event *)
(* table says that a move is under way, and a later run finishes it from   *)
(* the old folder or from the new one.  A fleet that was moved with a      *)
(* plain mv is adopted by "hand init" and "fleet move --rewrite-only".     *)
(*                                                                         *)
(* Every transaction, rename, gitfile and registry write is a step of its  *)
(* own; the looks a command takes before its first write are one step.  An *)
(* open database follows its folder.  There is one folder: copies of a     *)
(* fleet are left out, and so are destinations that are taken.             *)
(***************************************************************************)
EXTENDS Naturals, Sequences

CONSTANTS
  Place,     \* folders a fleet can be in
  Birth,     \* the one it starts in
  Proc,      \* commands that can be under way at once
  Worktree,  \* worktrees of a project that is kept inside the fleet's folder
  Deed,      \* what else happens: "work", "mv", "undo", "init"
  MaxMoves,  \* bound: moves begun and plain mvs
  MaxFault,  \* bound: kills, failed renames and starts of work
  Relative   \* a project path relative to the fleet's folder

ASSUME PlaceAssumption ==
  Birth \in Place /\ Relative \notin Place /\ MaxMoves \in Nat /\ MaxFault \in Nat

VARIABLES
  db,        \* the database: what fleet move reads and writes of it
  backups,   \* the hand.db.pre-move copies in the folder
  place,     \* where the folder is
  registry,  \* the home the shared folder records for the fleet
  link,      \* the folder each worktree's gitfile names
  op,        \* where each command is, and its local variables
  moves,     \* bound: moves so far
  faults     \* bound: faults so far

vars == <<db, backups, place, registry, link, op, moves, faults>>
files == <<backups, place, registry, link>>

-----------------------------------------------------------------------------
(* State *)

\* A fleet.moving or fleet.moved event.
Event == [kind : {"moving", "moved"}, from : Place, to : Place]
Moving(f, t) == [kind |-> "moving", from |-> f, to |-> t]
Moved(f, t)  == [kind |-> "moved", from |-> f, to |-> t]

\* home: fleet.home; repo: the folder the project's path is in; log: the move
\* events; busy: a live attempt or supervisor, a pending input, an armed timer.
Db == [home : Place, repo : Place \cup {Relative}, log : Seq(Event), busy : BOOLEAN]

OpState == [at : {"idle", "backup", "mark", "rewrite", "rename",
                  "relink", "look", "point", "confirm", "rebase", "repair"},
            kind : {"move", "finish", "rewrite", "init"}, from : Place, to : Place]
Idle == [at |-> "idle", kind |-> "move", from |-> Birth, to |-> Birth]

TypeOK ==
  /\ db \in Db
  /\ backups \subseteq Db
  /\ place \in Place /\ registry \in Place
  /\ link \in [Worktree -> Place]
  /\ op \in [Proc -> OpState]
  /\ moves \in Nat /\ faults \in Nat

Last(events) == events[Len(events)]

\* pendingMove: the last marker has no fleet.moved after it.
Pending(d) == d.log # <<>> /\ Last(d.log).kind = "moving"

Init ==
  /\ db = [home |-> Birth, repo |-> Birth, log |-> <<>>, busy |-> FALSE]
  /\ backups = {}
  /\ place = Birth /\ registry = Birth
  /\ link = [w \in Worktree |-> Birth]
  /\ op = [p \in Proc |-> Idle]
  /\ moves = 0 /\ faults = 0

At(p, next) == op[p].at = next
Goto(p, r) == op' = [op EXCEPT ![p] = r]
Then(p, next) == Goto(p, [op[p] EXCEPT !.at = next])
Fault == faults < MaxFault /\ faults' = faults + 1

-----------------------------------------------------------------------------
(* The looks *)

\* moveBlockers: a live attempt or supervisor, a watcher, a board, a message not
\* delivered or a timer.
Blockers == db.busy

\* cmdFleetMove: what it refuses on, before the first write.
Begin(p, dest) ==
  /\ At(p, "idle") /\ moves < MaxMoves
  /\ ~Pending(db)
  /\ db.home = place /\ registry = place /\ dest # place
  /\ ~Blockers
  /\ Goto(p, [at |-> "backup", kind |-> "move", from |-> place, to |-> dest])
  /\ moves' = moves + 1
  /\ UNCHANGED <<db, files, faults>>

\* --rewrite-only --from the recorded home.
BeginRewrite(p) ==
  /\ At(p, "idle")
  /\ ~Pending(db)
  /\ db.home # place /\ registry = place
  /\ ~Blockers
  /\ Goto(p, [at |-> "backup", kind |-> "rewrite", from |-> db.home, to |-> place])
  /\ UNCHANGED <<db, files, moves, faults>>

\* Mutant: a move whose folder has gone already is done again from the start.
BugFinishPending(p) ==
  /\ At(p, "idle")
  /\ Pending(db)
  /\ place = Last(db.log).from /\ ~db.busy
  /\ Goto(p, [at |-> "rename", kind |-> "move", from |-> Last(db.log).from, to |-> Last(db.log).to])
  /\ UNCHANGED <<db, files, moves, faults>>

\* finishPendingMove, run in the new folder or in the old one.
FinishPending(p) ==
  /\ At(p, "idle")
  /\ Pending(db)
  /\ LET m == Last(db.log) IN
     \/ /\ place = m.to
        /\ Goto(p, [at |-> "relink", kind |-> "finish", from |-> m.from, to |-> m.to])
     \/ /\ place = m.from /\ ~Blockers
        /\ Goto(p, [at |-> "rename", kind |-> "move", from |-> m.from, to |-> m.to])
  /\ UNCHANGED <<db, files, moves, faults>>

\* hand init in a folder that holds the fleet.
InitHome(p) ==
  /\ "init" \in Deed
  /\ At(p, "idle")
  /\ Goto(p, [at |-> "rebase", kind |-> "init", from |-> registry, to |-> place])
  /\ UNCHANGED <<db, files, moves, faults>>

-----------------------------------------------------------------------------
(* The writes *)

\* The copy goes beside the database, where the command found the folder.
Backup(p) ==
  /\ At(p, "backup")
  /\ IF place = (IF op[p].kind = "move" THEN op[p].from ELSE op[p].to)
     THEN /\ backups' = backups \cup {db}
          /\ Then(p, IF op[p].kind = "move" THEN "mark" ELSE "rewrite")
     ELSE Goto(p, Idle) /\ UNCHANGED backups
  /\ UNCHANGED <<db, place, registry, link, moves, faults>>

\* moveHome: the cells that name the old home name the new one, and the event
\* is recorded, in one transaction that first looks at the recorded home.
moveHome(from, to, event) ==
  db' = [db EXCEPT !.home = to, !.repo = IF @ = from THEN to ELSE @, !.log = Append(@, event)]

Mark(p) ==
  /\ At(p, "mark")
  /\ IF db.home = op[p].from
     THEN moveHome(op[p].from, op[p].to, Moving(op[p].from, op[p].to)) /\ Then(p, "rename")
     ELSE Goto(p, Idle) /\ UNCHANGED db
  /\ UNCHANGED <<files, moves, faults>>

RewriteHome(p) ==
  /\ At(p, "rewrite")
  /\ IF db.home = op[p].from
     THEN moveHome(op[p].from, op[p].to, Moved(op[p].from, op[p].to))
     ELSE UNCHANGED db
  /\ Goto(p, Idle)
  /\ UNCHANGED <<files, moves, faults>>

Rename(p) ==
  /\ At(p, "rename")
  /\ IF place = op[p].from
     THEN place' = op[p].to /\ Then(p, "relink")
     ELSE Goto(p, Idle) /\ UNCHANGED place
  /\ UNCHANGED <<db, backups, registry, link, moves, faults>>

RenameFails(p) ==
  /\ At(p, "rename")
  /\ Goto(p, Idle) /\ Fault
  /\ UNCHANGED <<db, files, moves>>

\* rewriteMoveWorktrees, one gitfile at a time.
Relink(p) ==
  /\ At(p, "relink")
  /\ LET old == {w \in Worktree : link[w] = op[p].from} IN
     \/ \E w \in old : link' = [link EXCEPT ![w] = op[p].to] /\ UNCHANGED op
     \/ old = {} /\ Then(p, "look") /\ UNCHANGED link
  /\ UNCHANGED <<db, backups, place, registry, moves, faults>>

\* Mutant: a fleet that is registered is left as it is.
BugLook(p) ==
  /\ At(p, "look")
  /\ IF op[p].kind = "init" THEN Goto(p, Idle) ELSE Then(p, "confirm")
  /\ UNCHANGED <<db, files, moves, faults>>

\* fleet.Register: refuse while the registered home still holds the fleet,
Look(p) ==
  /\ At(p, "look")
  /\ CASE registry = op[p].to -> IF op[p].kind = "init" THEN Goto(p, Idle) ELSE Then(p, "confirm")
       [] registry # op[p].to /\ registry = place -> Goto(p, Idle)
       [] OTHER -> Then(p, "point")
  /\ UNCHANGED <<db, files, moves, faults>>

\* then point the registry here.
Point(p) ==
  /\ At(p, "point")
  /\ registry' = op[p].to
  /\ IF op[p].kind = "init" THEN Goto(p, Idle) ELSE Then(p, "confirm")
  /\ UNCHANGED <<db, backups, place, link, moves, faults>>

\* Mutant: every run that gets here records the move.
BugConfirmMove(p) ==
  /\ At(p, "confirm")
  /\ IF op[p].kind = "finish" \/ place = op[p].to
     THEN db' = [db EXCEPT !.log = Append(@, Moved(op[p].from, op[p].to)), !.home = op[p].to]
     ELSE UNCHANGED db
  /\ Goto(p, Idle)
  /\ UNCHANGED <<files, moves, faults>>

\* The marker's move, and only it, is recorded.  After a rename the database is
\* opened again, in the new folder.
ConfirmMove(p) ==
  /\ At(p, "confirm")
  /\ IF /\ op[p].kind = "finish" \/ place = op[p].to
        /\ Pending(db)
        /\ Last(db.log) = Moving(op[p].from, op[p].to)
     THEN db' = [db EXCEPT !.log = Append(@, Moved(op[p].from, op[p].to)), !.home = op[p].to]
     ELSE UNCHANGED db
  /\ Goto(p, Idle)
  /\ UNCHANGED <<files, moves, faults>>

\* hand init in a new place: RebaseProjects makes the path of a project in the
\* registered home relative.
Rebase(p) ==
  /\ At(p, "rebase")
  /\ db' = IF op[p].from # op[p].to /\ db.repo = op[p].from
           THEN [db EXCEPT !.repo = Relative] ELSE db
  /\ Then(p, "repair")
  /\ UNCHANGED <<files, moves, faults>>

\* repairWorktrees points the worktrees of a project that it finds to it.
Repair(p) ==
  /\ At(p, "repair")
  /\ link' = IF db.repo \in {Relative, place} THEN [w \in Worktree |-> place] ELSE link
  /\ Then(p, "look")
  /\ UNCHANGED <<db, backups, place, registry, moves, faults>>

-----------------------------------------------------------------------------
(* The rest of the world *)

Killed(p) ==
  /\ ~At(p, "idle")
  /\ Goto(p, Idle) /\ Fault
  /\ UNCHANGED <<db, files, moves>>

\* Other commands start and stop work: they ask the registry (fleet.Check), not
\* the marker.
Work(up) ==
  /\ "work" \in Deed
  /\ up # db.busy /\ registry = place
  /\ db' = [db EXCEPT !.busy = up]
  /\ IF up THEN Fault ELSE UNCHANGED faults
  /\ UNCHANGED <<files, op, moves>>

\* The operator moves the folder by hand, with every command stopped.
Mv(dest) ==
  /\ "mv" \in Deed /\ moves < MaxMoves
  /\ \A p \in Proc : At(p, "idle")
  /\ ~Pending(db) /\ dest # place
  /\ place' = dest
  /\ moves' = moves + 1
  /\ UNCHANGED <<db, backups, registry, link, op, faults>>

\* Or copies the pre-move database back, as a failed rename's message says.
Undo ==
  /\ "undo" \in Deed
  /\ Pending(db) /\ place = Last(db.log).from
  /\ \A p \in Proc : At(p, "idle")
  /\ \E b \in backups : b.home = place /\ ~Pending(b) /\ db' = b
  /\ UNCHANGED <<files, op, moves, faults>>

-----------------------------------------------------------------------------

Operate(p) == BeginRewrite(p) \/ FinishPending(p) \/ InitHome(p)

Proceed(p) ==
  \/ Backup(p) \/ Mark(p) \/ RewriteHome(p) \/ Rename(p)
  \/ Relink(p) \/ Look(p) \/ Point(p) \/ ConfirmMove(p)
  \/ Rebase(p) \/ Repair(p)

Next ==
  \/ \E p \in Proc :
       \/ \E dest \in Place : Begin(p, dest)
       \/ Operate(p) \/ Proceed(p) \/ RenameFails(p) \/ Killed(p)
  \/ \E up \in BOOLEAN : Work(up)
  \/ \E dest \in Place : Mv(dest)
  \/ Undo

Spec == Init /\ [][Next]_vars

\* A command runs on until it is done or dies, and the operator runs the
\* commands the messages name, those that stop what is live among them.
Fairness ==
  /\ \A p \in Proc : WF_vars(Proceed(p))
  /\ SF_vars(\E p \in Proc : FinishPending(p))
  /\ SF_vars(\E p \in Proc : BeginRewrite(p))
  /\ SF_vars(\E p \in Proc : InitHome(p))
  /\ WF_vars(Work(FALSE))

LiveSpec == Spec /\ Fairness

-----------------------------------------------------------------------------
(* Properties *)

\* Where everything agrees: no move is pending and home, registry, project path
\* and worktrees are where the folder is.
Settled ==
  /\ ~Pending(db)
  /\ db.home = place /\ registry = place
  /\ db.repo \in {place, Relative}
  /\ \A w \in Worktree : link[w] = place

\* Whatever a move was killed or failed at, the marker tells where the fleet is:
\* in one of its two folders, with the database naming the new one.  Without a
\* marker, and with no command under way, nothing is left to do but for a folder
\* that was moved by hand, which the recorded home tells.  It holds for moves
\* that do not overtake each other, with any number of runs that finish one.
MoveFindable ==
  /\ Pending(db) =>
       db.home = Last(db.log).to /\ place \in {Last(db.log).from, Last(db.log).to}
  /\ ~Pending(db) /\ db.home = place /\ (\A p \in Proc : At(p, "idle")) => Settled

\* The events are the fleet's history, which resume reads to tell a session
\* that began in another home: each begins where the one before ended, a
\* completion belongs to the marker right before it, and the recorded home is
\* where the last one ended.  Runs that finish the same move record it once.
HistoryChains ==
  /\ \A i \in 1 .. Len(db.log) - 1 :
       \/ db.log[i + 1].from = db.log[i].to
       \/ db.log[i] = Moving(db.log[i + 1].from, db.log[i + 1].to) /\ db.log[i + 1].kind = "moved"
  /\ db.log # <<>> => db.home = Last(db.log).to

\* While a move is pending there is a copy of the database from before it: the
\* undo the messages and the docs describe is possible.
UndoThere ==
  Pending(db) => \E b \in backups : b.home = Last(db.log).from /\ ~Pending(b)

\* The database of a fleet on the move: its types, its history and its undo.
MoveSafety == TypeOK /\ HistoryChains /\ UndoThere

\* What the docs say of a move: it refuses while an attempt or a supervisor is
\* live.
MoveRefusesLiveWork ==
  [][\A p \in Proc : At(p, "mark") /\ db'.home # db.home => ~db.busy]_vars

=============================================================================
