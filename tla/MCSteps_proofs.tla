---------------------------- MODULE MCSteps_proofs ----------------------------
(***************************************************************************)
(* Proofs about FleetMove and TurnSignals. Of moves of a fleet, with any   *)
(* number of places, commands, moves and faults: the move events are a     *)
(* history without gaps, a pending move can be undone, and one move is     *)
(* found again whatever it was killed at. Of signals, for any ages and     *)
(* thresholds, queue of events, number of deeds and of losses: a turn is   *)
(* reported long once, a held turn of opencode is not ended before it      *)
(* rests, and an attempt that ended is left alone.                         *)
(***************************************************************************)
EXTENDS MCSteps, SequenceTheorems, TLAPS

-----------------------------------------------------------------------------
(* FleetMove: the inductive invariant *)

Chained(d) ==
  /\ \A i \in 1 .. Len(d.log) - 1 :
       \/ d.log[i + 1].from = d.log[i].to
       \/ d.log[i] = Moving(d.log[i + 1].from, d.log[i + 1].to) /\ d.log[i + 1].kind = "moved"
  /\ d.log # <<>> => d.home = Last(d.log).to

\* Undo brings a copy back, so the copies are histories too.
AllChained == Chained(db) /\ \A b \in backups : Chained(b)

\* A copy from before a move that starts at f.
Copied(f) == \E b \in backups : b.home = f /\ ~Pending(b)

\* A command about to rewrite has its copy.  One about to copy either will get
\* it or can use the copy of the command that overtook it.
CopyFirst ==
  \A p \in Proc :
    /\ op[p].at = "backup" => Copied(op[p].from) \/ (db.home = op[p].from /\ ~Pending(db))
    /\ op[p].at \in {"mark", "rewrite"} => Copied(op[p].from)

IInv == TypeOK /\ AllChained /\ CopyFirst /\ UndoThere

-----------------------------------------------------------------------------
(* Data *)

\* The last event of a longer log.
LEMMA LastAppended ==
  ASSUME NEW s \in Seq(Event), NEW e \in Event
  PROVE  Last(Append(s, e)) = e /\ Append(s, e) # <<>>
  BY DEF Last

\* The last event of a log that has one.
LEMMA LastType ==
  ASSUME NEW d \in Db, d.log # <<>>
  PROVE  Last(d.log) \in Event
  <1>1. d.log \in Seq(Event)
    BY DEF Db
  <1>2. Len(d.log) \in 1 .. Len(d.log)
    BY <1>1
  <1> QED
    BY <1>1, <1>2 DEF Last

\* A marker or a completion that starts at the recorded home prolongs the
\* history.
LEMMA Prolonged ==
  ASSUME NEW d \in Db, Chained(d), NEW n \in Db, NEW e \in Event,
         n.log = Append(d.log, e), n.home = e.to,
         \/ e.from = d.home
         \/ /\ d.log # <<>> /\ e.kind = "moved"
            /\ Last(d.log) = Moving(e.from, e.to)
  PROVE  Chained(n)
  <1>1. d.log \in Seq(Event) /\ Len(d.log) \in Nat
    BY DEF Db
  <1>2. n.log # <<>> => n.home = Last(n.log).to
    BY <1>1, LastAppended
  <1>3. ASSUME NEW i \in 1 .. Len(n.log) - 1
        PROVE  \/ n.log[i + 1].from = n.log[i].to
               \/ /\ n.log[i] = Moving(n.log[i + 1].from, n.log[i + 1].to)
                  /\ n.log[i + 1].kind = "moved"
    <2>1. Len(n.log) = Len(d.log) + 1 /\ i \in 1 .. Len(d.log) /\ n.log[i] = d.log[i]
      BY <1>1, <1>3
    <2>2. CASE i < Len(d.log)
      <3>1. n.log[i + 1] = d.log[i + 1] /\ i \in 1 .. Len(d.log) - 1
        BY <1>1, <2>1, <2>2
      <3> QED
        BY <2>1, <3>1 DEF Chained
    <2>3. CASE i = Len(d.log)
      <3>1. n.log[i + 1] = e /\ n.log[i] = Last(d.log) /\ d.log # <<>>
        BY <1>1, <2>1, <2>3 DEF Last
      <3>2. d.home = Last(d.log).to
        BY <3>1 DEF Chained
      <3> QED
        BY <3>1, <3>2
    <2> QED
      BY <1>1, <2>1, <2>2, <2>3
  <1> QED
    BY <1>2, <1>3 DEF Chained

\* A database whose home and log are another's has the same history.
LEMMA SameHistory ==
  ASSUME NEW d, NEW n, n.log = d.log, n.home = d.home
  PROVE  (Chained(d) <=> Chained(n)) /\ (Pending(d) <=> Pending(n))
  BY DEF Chained, Pending

-----------------------------------------------------------------------------
(* Type correctness *)

\* What a command may become.
LEMMA GotoType ==
  ASSUME TypeOK, NEW p \in Proc, NEW r \in OpState, Goto(p, r)
  PROVE  /\ op' \in [Proc -> OpState]
         /\ op'[p] = r
         /\ \A q \in Proc : q # p => op'[q] = op[q]
  BY DEF TypeOK, Goto

LEMMA IdleType == Idle \in OpState
  BY PlaceAssumption DEF Idle, OpState

LEMMA ThenType ==
  ASSUME TypeOK, NEW p \in Proc,
         NEW went \in {"idle", "backup", "mark", "rewrite", "rename",
                       "relink", "look", "point", "confirm", "rebase", "repair"}
  PROVE  /\ [op[p] EXCEPT !.at = went] \in OpState
         /\ [op[p] EXCEPT !.at = went].at = went
         /\ [op[p] EXCEPT !.at = went].from = op[p].from
  BY DEF TypeOK, OpState

\* Giving up leaves the other commands where they are; so does going on, which
\* keeps the command's own folders too.
LEMMA GotoIdle ==
  ASSUME TypeOK, NEW p \in Proc, Goto(p, Idle)
  PROVE  op'[p].at = "idle" /\ \A q \in Proc : q # p => op'[q] = op[q]
  BY IdleType, GotoType DEF Idle

LEMMA ThenGoes ==
  ASSUME TypeOK, NEW p \in Proc,
         NEW went \in {"idle", "backup", "mark", "rewrite", "rename",
                       "relink", "look", "point", "confirm", "rebase", "repair"},
         Then(p, went)
  PROVE  /\ op'[p].at = went /\ op'[p].from = op[p].from
         /\ \A q \in Proc : q # p => op'[q] = op[q]
  <1>1. PICK r \in OpState : r = [op[p] EXCEPT !.at = went] /\ r.at = went /\ r.from = op[p].from
    BY ZenonT(40), ThenType
  <1>2. Goto(p, r)
    BY <1>1 DEF Then
  <1> QED
    BY <1>1, <1>2, GotoType

LEMMA MoveHomeType ==
  ASSUME TypeOK, NEW f \in Place, NEW t \in Place, NEW e \in Event, moveHome(f, t, e)
  PROVE  /\ db' \in Db
         /\ db'.home = t
         /\ db'.log = Append(db.log, e)
  <1> DEFINE l == Append(db.log, e)
             r == IF db.repo = f THEN t ELSE db.repo
  <1>1. db \in Db
    BY DEF TypeOK
  <1>2. l \in Seq(Event) /\ r \in Place \cup {Relative}
    BY <1>1 DEF Db
  <1>3. db' = [db EXCEPT !.home = t, !.repo = r, !.log = l]
    BY DEF moveHome
  <1> HIDE DEF l, r
  <1>4. db' \in Db /\ db'.home = t /\ db'.log = l
    BY <1>1, <1>2, <1>3 DEF Db
  <1> QED
    BY <1>4 DEF l

\* What ConfirmMove writes.
confirms(e, t) == db' = [db EXCEPT !.log = Append(@, e), !.home = t]

LEMMA ConfirmType ==
  ASSUME TypeOK, NEW t \in Place, NEW e \in Event, confirms(e, t)
  PROVE  db' \in Db /\ db'.home = t /\ db'.log = Append(db.log, e)
  <1> DEFINE l == Append(db.log, e)
  <1>1. db \in Db
    BY DEF TypeOK
  <1>2. l \in Seq(Event)
    BY <1>1 DEF Db
  <1>3. db' = [db EXCEPT !.log = l, !.home = t]
    BY DEF confirms
  <1> HIDE DEF l
  <1>4. db' \in Db /\ db'.home = t /\ db'.log = l
    BY <1>1, <1>2, <1>3 DEF Db
  <1> QED
    BY <1>4 DEF l

LEMMA InitType == Init => TypeOK
  <1> SUFFICES ASSUME Init PROVE TypeOK
    OBVIOUS
  <1>1. op \in [Proc -> OpState]
    BY IdleType DEF Init
  <1>2. db \in Db
    BY PlaceAssumption DEF Init, Db
  <1> QED
    BY <1>1, <1>2, PlaceAssumption DEF Init, TypeOK

\* What a command looks at, and what it becomes.
LEMMA LookStepType ==
  ASSUME TypeOK, NEW p \in Proc, NEW dest \in Place,
         Begin(p, dest) \/ BeginRewrite(p) \/ FinishPending(p) \/ InitHome(p)
  PROVE  TypeOK' /\ \E r \in OpState : Goto(p, r)
  <1>1. db \in Db /\ place \in Place /\ registry \in Place
    BY DEF TypeOK
  <1>2. Pending(db) => Last(db.log).from \in Place /\ Last(db.log).to \in Place
    BY <1>1, LastType DEF Pending, Event
  <1>3. \E r \in OpState : Goto(p, r)
    <2>1. CASE Begin(p, dest)
      BY <1>1, <2>1 DEF Begin, OpState
    <2>2. CASE BeginRewrite(p)
      BY <1>1, <2>2 DEF BeginRewrite, OpState, Db
    <2>3. CASE FinishPending(p)
      BY <1>2, <2>3 DEF FinishPending, OpState
    <2>4. CASE InitHome(p)
      BY <1>1, <2>4 DEF InitHome, OpState
    <2> QED
      BY <2>1, <2>2, <2>3, <2>4
  <1>4. op' \in [Proc -> OpState]
    BY <1>3, GotoType
  <1>5. moves' \in Nat /\ UNCHANGED <<db, files, faults>>
    BY DEF TypeOK, Begin, BeginRewrite, FinishPending, InitHome
  <1> QED
    BY <1>3, <1>4, <1>5 DEF TypeOK, files

\* A command that goes on has a state of the right type, whatever it does.
LEMMA OnType ==
  ASSUME TypeOK, NEW p \in Proc, Proceed(p) \/ RenameFails(p) \/ Killed(p)
  PROVE  op' \in [Proc -> OpState] /\ moves' \in Nat /\ faults' \in Nat
  <1>1. Goto(p, Idle) => op' \in [Proc -> OpState]
    BY IdleType, GotoType
  <1>2. ASSUME NEW went \in {"idle", "backup", "mark", "rewrite", "rename",
                             "relink", "look", "point", "confirm", "rebase", "repair"},
               Then(p, went)
        PROVE  op' \in [Proc -> OpState]
    <2>1. [op[p] EXCEPT !.at = went] \in OpState
      BY ZenonT(40), ThenType
    <2> QED
      BY <1>2, <2>1, GotoType DEF Then
  <1>3. UNCHANGED op => op' \in [Proc -> OpState]
    BY DEF TypeOK
  <1>4. op' \in [Proc -> OpState]
    BY <1>1, <1>2, <1>3
       DEF Proceed, Backup, Mark, RewriteHome, Rename, Relink, Look, Point, ConfirmMove,
           Rebase, Repair, RenameFails, Killed
  <1> QED
    BY <1>4 DEF TypeOK, Proceed, Backup, Mark, RewriteHome, Rename, Relink, Look, Point,
                ConfirmMove, Rebase, Repair, RenameFails, Killed, Fault

\* Every file and table a command writes keeps its type.
LEMMA WriteType ==
  ASSUME TypeOK, NEW p \in Proc, Proceed(p) \/ RenameFails(p) \/ Killed(p)
  PROVE  TypeOK'
  <1>1. op' \in [Proc -> OpState] /\ moves' \in Nat /\ faults' \in Nat
    BY OnType
  <1>2. op[p].from \in Place /\ op[p].to \in Place
    BY DEF TypeOK, OpState
  <1>3. /\ Moving(op[p].from, op[p].to) \in Event
        /\ Moved(op[p].from, op[p].to) \in Event
    BY <1>2 DEF Moving, Moved, Event
  <1>4. CASE Mark(p) \/ RewriteHome(p)
    <2>1. db' \in Db
      BY <1>2, <1>3, <1>4, MoveHomeType DEF Mark, RewriteHome, TypeOK
    <2> QED
      BY <1>1, <1>4, <2>1 DEF Mark, RewriteHome, TypeOK, files
  <1>5. CASE ConfirmMove(p)
    <2>1. db' \in Db
      <3>1. UNCHANGED db \/ confirms(Moved(op[p].from, op[p].to), op[p].to)
        BY <1>5 DEF ConfirmMove, confirms
      <3> QED
        BY <1>2, <1>3, <3>1, ConfirmType DEF TypeOK
    <2> QED
      BY <1>1, <1>5, <2>1 DEF ConfirmMove, TypeOK, files
  <1>6. CASE Rebase(p)
    <2>1. db' \in Db
      BY <1>6 DEF Rebase, TypeOK, Db
    <2> QED
      BY <1>1, <1>6, <2>1 DEF Rebase, TypeOK, files
  <1>7. CASE Backup(p)
    BY <1>1, <1>7 DEF Backup, TypeOK
  <1>8. CASE Rename(p) \/ Point(p)
    BY <1>1, <1>2, <1>8 DEF Rename, Point, TypeOK
  <1>9. CASE Relink(p) \/ Repair(p)
    BY <1>1, <1>2, <1>9 DEF Relink, Repair, TypeOK
  <1>10. CASE Look(p) \/ RenameFails(p) \/ Killed(p)
    BY <1>1, <1>10 DEF Look, RenameFails, Killed, TypeOK, files
  <1> QED
    BY <1>4, <1>5, <1>6, <1>7, <1>8, <1>9, <1>10 DEF Proceed

LEMMA WorldType ==
  ASSUME TypeOK,
         (\E up \in BOOLEAN : Work(up)) \/ (\E dest \in Place : Mv(dest)) \/ Undo
  PROVE  TypeOK'
  <1>1. CASE \E up \in BOOLEAN : Work(up)
    <2>1. db' \in Db
      BY <1>1 DEF Work, TypeOK, Db
    <2>2. faults' \in Nat
      BY <1>1 DEF Work, TypeOK, Fault
    <2> QED
      BY <1>1, <2>1, <2>2 DEF Work, TypeOK, files
  <1>2. CASE \E dest \in Place : Mv(dest)
    BY <1>2 DEF Mv, TypeOK
  <1>3. CASE Undo
    BY <1>3 DEF Undo, TypeOK, files
  <1> QED
    BY <1>1, <1>2, <1>3

\* The types of every variable, which the other proofs rest on.
LEMMA TypeStep == TypeOK /\ [Next]_vars => TypeOK'
  <1>1. ASSUME TypeOK, UNCHANGED vars PROVE TypeOK'
    BY <1>1 DEF TypeOK, vars
  <1> QED
    BY <1>1, LookStepType, WriteType, WorldType, PlaceAssumption DEF Next, Operate

\* Databases, places and commands have their types, for any number of them.
THEOREM MoveTypeCorrect == Spec => []TypeOK
  BY InitType, TypeStep, PTL DEF Spec

-----------------------------------------------------------------------------
(* The invariant *)

LEMMA InitIInv == Init => IInv
  <1> SUFFICES ASSUME Init PROVE IInv
    OBVIOUS
  <1>1. db.log = <<>> /\ backups = {}
    BY DEF Init
  <1>2. Chained(db) /\ ~Pending(db)
    BY <1>1 DEF Chained, Pending
  <1>3. CopyFirst
    BY DEF Init, CopyFirst, Idle
  <1> QED
    BY <1>1, <1>2, <1>3, InitType DEF IInv, AllChained, UndoThere

\* Steps that leave the recorded home, the log and the copies alone, and make
\* no command ready to rewrite.
LEMMA Aside ==
  ASSUME IInv, TypeOK', UNCHANGED backups, db'.log = db.log, db'.home = db.home,
         \A p \in Proc : op'[p] = op[p] \/ op'[p].at \notin {"backup", "mark", "rewrite"}
  PROVE  IInv'
  <1>1. Chained(db)' /\ (Pending(db)' <=> Pending(db))
    BY SameHistory DEF IInv, AllChained, Chained, Pending
  <1>2. AllChained'
    BY <1>1 DEF IInv, AllChained, Chained
  <1>3. \A f : Copied(f) => Copied(f)'
    BY DEF Copied, Pending
  <1>4. CopyFirst'
    BY <1>1, <1>3 DEF IInv, CopyFirst
  <1>5. UndoThere'
    BY <1>1 DEF IInv, UndoThere, Pending
  <1> QED
    BY <1>2, <1>4, <1>5 DEF IInv

\* A move or a rewrite begins where the recorded home is, with nothing pending.
LEMMA BeginStep ==
  ASSUME IInv, TypeOK', NEW p \in Proc, NEW dest \in Place, Begin(p, dest) \/ BeginRewrite(p)
  PROVE  IInv'
  <1>1. UNCHANGED <<db, backups>> /\ ~Pending(db)
    BY DEF Begin, BeginRewrite, files
  <1>2. op'[p].from = db.home /\ op'[p].at = "backup"
    <2>1. CASE Begin(p, dest)
      BY <2>1 DEF Begin, Goto, IInv, TypeOK
    <2>2. CASE BeginRewrite(p)
      BY <2>2 DEF BeginRewrite, Goto, IInv, TypeOK
    <2> QED
      BY <2>1, <2>2
  <1>3. \A q \in Proc : q # p => op'[q] = op[q]
    BY DEF Begin, BeginRewrite, Goto, IInv, TypeOK
  <1>4. CopyFirst'
    BY <1>1, <1>2, <1>3 DEF IInv, CopyFirst, Copied, Pending
  <1>5. AllChained' /\ UndoThere'
    BY <1>1 DEF IInv, AllChained, UndoThere, Chained, Pending
  <1> QED
    BY <1>4, <1>5 DEF IInv

\* The copy is made of a database that no move has rewritten, unless another
\* command has made one before.
LEMMA BackupStep ==
  ASSUME IInv, TypeOK', NEW p \in Proc, Backup(p)
  PROVE  IInv'
  <1>1. UNCHANGED db /\ op[p].at = "backup"
    BY DEF Backup, At
  <1>2. CASE UNCHANGED backups /\ Goto(p, Idle)
    BY <1>1, <1>2, GotoIdle, Aside DEF IInv
  <1>3. ASSUME NEW went \in {"mark", "rewrite"},
               backups' = backups \cup {db}, Then(p, went)
        PROVE  IInv'
    <2>1. /\ op'[p].from = op[p].from
          /\ \A q \in Proc : q # p => op'[q] = op[q]
      BY <1>3, ThenGoes DEF IInv
    <2>2. \A f : Copied(f) => Copied(f)'
      BY <1>3 DEF Copied, Pending
    <2>3. Copied(op[p].from)'
      <3>1. CASE Copied(op[p].from)
        BY <2>1, <2>2, <3>1 DEF Copied
      <3>2. CASE db.home = op[p].from /\ ~Pending(db)
        BY <1>3, <2>1, <3>2 DEF Copied, Pending
      <3> QED
        BY <1>1, <3>1, <3>2 DEF IInv, CopyFirst
    <2>4. CopyFirst'
      BY <1>1, <2>1, <2>2, <2>3 DEF IInv, CopyFirst, Copied, Pending
    <2>5. AllChained'
      BY <1>1, <1>3 DEF IInv, AllChained, Chained
    <2>6. UndoThere'
      BY <1>1, <2>2 DEF IInv, UndoThere, Copied, Pending
    <2> QED
      BY <2>4, <2>5, <2>6 DEF IInv
  <1> QED
    BY <1>2, <1>3 DEF Backup

\* The rewrite starts at the recorded home, of which there is a copy by now.
LEMMA RewriteStep ==
  ASSUME IInv, TypeOK', NEW p \in Proc, Mark(p) \/ RewriteHome(p), db' # db
  PROVE  IInv'
  <1> DEFINE f == op[p].from
             t == op[p].to
  <1>1. PICK e \in Event : moveHome(f, t, e) /\ e.from = f /\ e.to = t
    <2>1. f \in Place /\ t \in Place
      BY DEF IInv, TypeOK, OpState
    <2>2. /\ Moving(f, t) \in Event /\ Moving(f, t).from = f /\ Moving(f, t).to = t
          /\ Moved(f, t) \in Event /\ Moved(f, t).from = f /\ Moved(f, t).to = t
      BY <2>1 DEF Moving, Moved, Event
    <2> QED
      BY <2>2 DEF Mark, RewriteHome
  <1>2. db.home = f /\ UNCHANGED backups /\ Copied(f)
    BY DEF Mark, RewriteHome, At, files, IInv, CopyFirst
  <1>3. \A q \in Proc : op'[q] = op[q] \/ op'[q].at \notin {"backup", "mark", "rewrite"}
    <2>1. CASE Then(p, "rename")
      BY <2>1, ThenGoes DEF IInv
    <2>2. CASE Goto(p, Idle)
      BY <2>2, GotoIdle DEF IInv
    <2> QED
      BY <2>1, <2>2 DEF Mark, RewriteHome
  <1>4. /\ db \in Db /\ db' \in Db /\ db'.home = e.to /\ db'.log = Append(db.log, e)
    <2>1. f \in Place /\ t \in Place
      BY DEF IInv, TypeOK, OpState
    <2> QED
      BY <1>1, <2>1, MoveHomeType DEF IInv, TypeOK
  <1>5. Chained(db')
    <2>1. Chained(db)
      BY DEF IInv, AllChained
    <2> QED
      BY <1>1, <1>2, <1>4, <2>1, Prolonged
  <1>6. AllChained'
    BY <1>2, <1>5 DEF IInv, AllChained, Chained
  <1>7. \A g : Copied(g) => Copied(g)'
    BY <1>2 DEF Copied, Pending
  <1>8. Last(db'.log).from = f
    BY <1>1, <1>4, LastAppended DEF Db
  <1>9. UndoThere'
    <2>1. \E b \in backups : b.home = f /\ ~Pending(b)
      BY <1>2 DEF Copied
    <2> QED
      BY <1>2, <1>8, <2>1 DEF UndoThere, Pending
  <1>10. CopyFirst'
    <2>1. ASSUME NEW q \in Proc, op'[q] = op[q]
          PROVE  op[q].at \in {"backup", "mark", "rewrite"} => Copied(op[q].from)
      BY <1>2 DEF IInv, CopyFirst
    <2> QED
      BY <1>3, <1>7, <2>1 DEF CopyFirst, Copied, Pending
  <1> QED
    BY <1>6, <1>9, <1>10 DEF IInv

\* Completing the pending move prolongs the history with that move.
LEMMA ConfirmStep ==
  ASSUME IInv, TypeOK', NEW p \in Proc, ConfirmMove(p), db' # db
  PROVE  IInv'
  <1> DEFINE e == Moved(op[p].from, op[p].to)
  <1>1. Pending(db) /\ Last(db.log) = Moving(op[p].from, op[p].to)
    BY DEF ConfirmMove
  <1>2. e \in Event /\ e.kind = "moved" /\ e.from = op[p].from /\ e.to = op[p].to
    BY DEF Moved, Event, IInv, TypeOK, OpState
  <1>3. db' \in Db /\ db'.home = e.to /\ db'.log = Append(db.log, e)
    <2>1. confirms(e, op[p].to)
      BY DEF ConfirmMove, confirms
    <2>2. op[p].to \in Place /\ TypeOK
      BY DEF IInv, TypeOK, OpState
    <2> QED
      BY <1>2, <2>1, <2>2, ConfirmType
  <1>4. Chained(db')
    <2>1. Chained(db) /\ db \in Db
      BY DEF IInv, AllChained, TypeOK
    <2> QED
      BY <1>1, <1>2, <1>3, <2>1, Prolonged DEF Pending
  <1>5. UNCHANGED backups
    BY DEF ConfirmMove, files
  <1>6. AllChained'
    BY <1>4, <1>5 DEF IInv, AllChained, Chained
  <1>7. ~Pending(db')
    BY <1>2, <1>3, LastAppended DEF Pending, IInv, TypeOK, Db
  <1>8. UndoThere'
    BY <1>7 DEF UndoThere, Pending
  <1>9. \A q \in Proc : op'[q] = op[q] \/ op'[q].at \notin {"backup", "mark", "rewrite"}
    BY GotoIdle DEF ConfirmMove, IInv
  <1>10. CopyFirst'
    <2>1. \A g : Copied(g) => Copied(g)'
      BY <1>5 DEF Copied, Pending
    <2> QED
      BY <1>1, <1>9, <2>1 DEF IInv, CopyFirst
  <1> QED
    BY <1>6, <1>8, <1>10 DEF IInv

\* Undo brings back a copy, which is a history with nothing pending.
LEMMA UndoStep ==
  ASSUME IInv, TypeOK', Undo
  PROVE  IInv'
  <1>1. UNCHANGED <<backups, op>> /\ db' \in backups /\ ~Pending(db')
    BY DEF Undo, files
  <1>2. AllChained'
    BY <1>1 DEF IInv, AllChained, Chained
  <1>3. CopyFirst'
    BY <1>1 DEF Undo, At, CopyFirst
  <1>4. UndoThere'
    BY <1>1 DEF UndoThere, Pending
  <1> QED
    BY <1>2, <1>3, <1>4 DEF IInv

LEMMA ProceedStep ==
  ASSUME IInv, TypeOK', NEW p \in Proc, Proceed(p) \/ RenameFails(p) \/ Killed(p)
  PROVE  IInv'
  <1>1. CASE Backup(p)
    BY <1>1, BackupStep
  <1>2. CASE Mark(p) \/ RewriteHome(p)
    <2>1. CASE db' # db
      BY <1>2, <2>1, RewriteStep
    <2>2. CASE db' = db
      <3>1. Goto(p, Idle) \/ Then(p, "rename")
        BY <1>2 DEF Mark, RewriteHome
      <3>2. \A q \in Proc : op'[q] = op[q] \/ op'[q].at \notin {"backup", "mark", "rewrite"}
        BY <3>1, GotoIdle, ThenGoes DEF IInv
      <3> QED
        BY <1>2, <2>2, <3>2, Aside DEF Mark, RewriteHome, files
    <2> QED
      BY <2>1, <2>2
  <1>3. CASE ConfirmMove(p)
    <2>1. CASE db' # db
      BY <1>3, <2>1, ConfirmStep
    <2>2. CASE db' = db
      BY <1>3, <2>2, GotoIdle, Aside DEF ConfirmMove, files, IInv
    <2> QED
      BY <2>1, <2>2
  <1>4. CASE \/ Rename(p) \/ Relink(p) \/ Look(p) \/ Point(p) \/ Rebase(p) \/ Repair(p)
             \/ RenameFails(p) \/ Killed(p)
    <2>1. \/ Goto(p, Idle) \/ UNCHANGED op
          \/ \E went \in {"relink", "look", "point", "confirm", "repair"} : Then(p, went)
      BY <1>4 DEF Rename, Relink, Look, Point, Rebase, Repair, RenameFails, Killed
    <2>2. \A q \in Proc : op'[q] = op[q] \/ op'[q].at \notin {"backup", "mark", "rewrite"}
      BY <2>1, GotoIdle, ThenGoes DEF IInv
    <2>3. UNCHANGED backups /\ db'.log = db.log /\ db'.home = db.home
      <3>1. CASE Rebase(p)
        BY <3>1 DEF Rebase, files, IInv, TypeOK, Db
      <3> QED
        BY <1>4, <3>1 DEF Rename, Relink, Look, Point, Repair, RenameFails, Killed, files
    <2> QED
      BY <2>2, <2>3, Aside
  <1> QED
    BY <1>1, <1>2, <1>3, <1>4 DEF Proceed

LEMMA OperateStep ==
  ASSUME IInv, TypeOK', NEW p \in Proc, NEW dest \in Place,
         Begin(p, dest) \/ Operate(p)
  PROVE  IInv'
  <1>1. CASE Begin(p, dest) \/ BeginRewrite(p)
    BY <1>1, BeginStep
  <1>2. CASE FinishPending(p) \/ InitHome(p)
    <2>1. \A q \in Proc : op'[q] = op[q] \/ op'[q].at \notin {"backup", "mark", "rewrite"}
      BY <1>2 DEF FinishPending, InitHome, Goto, IInv, TypeOK
    <2> QED
      BY <1>2, <2>1, Aside DEF FinishPending, InitHome, files
  <1> QED
    BY <1>1, <1>2 DEF Operate

LEMMA StepIInv == IInv /\ [Next]_vars => IInv'
  <1> SUFFICES ASSUME IInv, [Next]_vars PROVE IInv'
    OBVIOUS
  <1>1. TypeOK'
    BY TypeStep DEF IInv
  <1>2. ASSUME NEW up \in BOOLEAN, Work(up) PROVE IInv'
    <2>1. db'.log = db.log /\ db'.home = db.home /\ UNCHANGED <<backups, op>>
      BY <1>2 DEF Work, files, IInv, TypeOK, Db
    <2> QED
      BY <1>1, <2>1, Aside
  <1>3. ASSUME NEW dest \in Place, Mv(dest) PROVE IInv'
    BY <1>1, <1>3, Aside DEF Mv
  <1>4. CASE UNCHANGED vars
    BY <1>1, <1>4, Aside DEF vars
  <1>5. ASSUME NEW p \in Proc, Operate(p) PROVE IInv'
    BY <1>1, <1>5, OperateStep, PlaceAssumption
  <1> QED
    BY <1>1, <1>2, <1>3, <1>4, <1>5, OperateStep, ProceedStep, UndoStep DEF Next

LEMMA AlwaysIInv == Spec => []IInv
  BY InitIInv, StepIInv, PTL DEF Spec

-----------------------------------------------------------------------------
(* The properties the runs check *)

\* However many moves, rewrites, runs that finish one, undos and faults there
\* are, and whoever overtakes whom, the move events are a history without gaps
\* that ends at the recorded home.
THEOREM HistoryAlwaysChains == Spec => []HistoryChains
  <1>1. IInv => HistoryChains
    BY DEF IInv, AllChained, Chained, HistoryChains
  <1> QED
    BY <1>1, AlwaysIInv, PTL

\* A pending move always has the copy its undo needs, whichever command made
\* it.
THEOREM UndoAlwaysThere == Spec => []UndoThere
  <1>1. IInv => UndoThere
    BY DEF IInv
  <1> QED
    BY <1>1, AlwaysIInv, PTL

\* A fleet on the move keeps its history and what undo needs, for any number of
\* places, commands and worktrees.
THEOREM MoveSafe == Spec => []MoveSafety
  <1>1. TypeOK /\ HistoryChains /\ UndoThere => MoveSafety
    BY DEF MoveSafety
  <1> QED
    BY <1>1, MoveTypeCorrect, HistoryAlwaysChains, UndoAlwaysThere, PTL

-----------------------------------------------------------------------------
(* The queue of events *)

UnreadIn(s, status) == \E i \in 1 .. Len(s.events) : s.events[i] = status

LEMMA AgeFacts == None \in Ages /\ 0 \in Ages /\ Long \in Ages /\ 0 # None /\ Long # None
  BY AgesAssumption DEF Ages, None

\* What a subscriber has after a change of status.
LEMMA PublishedEffect ==
  ASSUME NEW s \in Streams, Len(s.events) <= MaxQueue, NEW status \in Statuses,
         s.state = "none" => s.events = <<>>
  PROVE  LET t == Published(s, status) IN
         /\ t \in Streams /\ Len(t.events) <= MaxQueue
         /\ t.state \in {s.state, "none"}
         /\ t.state = "none" => t.events = <<>>
         /\ t.state # "none" => /\ t.events # <<>> /\ t.events[Len(t.events)] = status
                                /\ UnreadIn(t, status)
                                /\ \A x \in Statuses : UnreadIn(s, x) => UnreadIn(t, x)
         /\ \A x \in Statuses : UnreadIn(t, x) => x = status \/ UnreadIn(s, x)
<1> DEFINE t == Published(s, status)
<1>0. s.events \in Seq(Statuses) /\ MaxQueue \in Nat
  BY BoundsAssumption DEF Streams
<1>1. CASE s.state = "none"
  BY <1>1 DEF Published, UnreadIn
<1>2. CASE s.state # "none" /\ ~(Len(s.events) < MaxQueue)
  BY <1>0, <1>2 DEF Published, UnreadIn, Cut, Streams
<1>3. CASE s.state # "none" /\ Len(s.events) < MaxQueue
  <2>1. t = [s EXCEPT !.events = Append(s.events, status)]
    BY <1>3 DEF Published
  <2>a. Append(s.events, status) \in Seq(Statuses)
    BY <1>0
  <2>2. t \in Streams /\ t.state = s.state /\ t.events = Append(s.events, status)
    BY <2>a, <2>1 DEF Streams
  <2>3. Len(t.events) = Len(s.events) + 1 /\ t.events[Len(t.events)] = status
    BY <1>0, <2>2
  <2>4. \A i \in 1 .. Len(s.events) : t.events[i] = s.events[i]
    BY <1>0, <2>2
  <2>5. Len(s.events) \in Nat
    BY <1>0
  <2>6. t.events # <<>>
    BY <2>3, <2>5
  <2>7. Len(t.events) <= MaxQueue /\ Len(t.events) \in 1 .. Len(t.events)
    BY <1>0, <1>3, <2>3, <2>5
  <2>8. UnreadIn(t, status)
    BY <2>3, <2>7 DEF UnreadIn
  <2>9. \A x \in Statuses : UnreadIn(s, x) => UnreadIn(t, x)
    BY <2>3, <2>4, <2>5 DEF UnreadIn
  <2>10. \A x \in Statuses : UnreadIn(t, x) => x = status \/ UnreadIn(s, x)
    <3> SUFFICES ASSUME NEW x \in Statuses, NEW i \in 1 .. Len(t.events), t.events[i] = x, x # status
                 PROVE  UnreadIn(s, x)
      BY DEF UnreadIn
    <3>1. i \in 1 .. Len(s.events)
      BY <2>3, <2>5
    <3> QED BY <2>4, <3>1 DEF UnreadIn
  <2> QED BY <1>3, <2>2, <2>3, <2>6, <2>7, <2>8, <2>9, <2>10
<1> QED BY <1>1, <1>2, <1>3

\* What is left once the first event is read.
LEMMA ReadEffect ==
  ASSUME NEW s \in Streams, Len(s.events) <= MaxQueue, s.events # <<>>
  PROVE  LET t == [s EXCEPT !.events = Tail(s.events)] IN
         /\ Head(s.events) \in Statuses /\ UnreadIn(s, Head(s.events))
         /\ t \in Streams /\ Len(t.events) <= MaxQueue /\ t.state = s.state
         /\ t.events # <<>> => t.events[Len(t.events)] = s.events[Len(s.events)]
         /\ t.events = <<>> => Head(s.events) = s.events[Len(s.events)]
         /\ \A x \in Statuses : UnreadIn(t, x) => UnreadIn(s, x)
         /\ \A x \in Statuses : UnreadIn(s, x) => x = Head(s.events) \/ UnreadIn(t, x)
<1> DEFINE t == [s EXCEPT !.events = Tail(s.events)]
<1>0. s.events \in Seq(Statuses) /\ MaxQueue \in Nat
  BY BoundsAssumption DEF Streams
<1>1. t \in Streams /\ t.state = s.state /\ t.events = Tail(s.events)
  BY <1>0 DEF Streams
<1>2. Len(s.events) \in Nat /\ Len(s.events) > 0 /\ Len(t.events) = Len(s.events) - 1
  BY <1>0, <1>1
<1>3. Head(s.events) = s.events[1] /\ \A i \in 1 .. Len(t.events) : t.events[i] = s.events[i + 1]
  BY <1>0, <1>1
<1>4. Head(s.events) \in Statuses
  BY <1>0, <1>2, <1>3
<1>5. t.events = <<>> <=> Len(t.events) = 0
  <2>1. t.events \in Seq(Statuses)
    BY <1>1 DEF Streams
  <2> QED BY <2>1, EmptySeq
<1> HIDE DEF t
<1>6. \A x \in Statuses : UnreadIn(t, x) => UnreadIn(s, x)
  <2> SUFFICES ASSUME NEW x \in Statuses, NEW i \in 1 .. Len(t.events), t.events[i] = x
               PROVE  UnreadIn(s, x)
    BY DEF UnreadIn
  <2>1. i + 1 \in 1 .. Len(s.events) /\ s.events[i + 1] = x
    BY <1>2, <1>3
  <2> QED BY <2>1 DEF UnreadIn
<1>7. \A x \in Statuses : UnreadIn(s, x) => x = Head(s.events) \/ UnreadIn(t, x)
  <2> SUFFICES ASSUME NEW x \in Statuses, NEW i \in 1 .. Len(s.events), s.events[i] = x, i # 1
               PROVE  UnreadIn(t, x)
    BY <1>3 DEF UnreadIn
  <2>1. i - 1 \in 1 .. Len(t.events) /\ t.events[i - 1] = x
    <3>1. i - 1 \in 1 .. Len(t.events)
      BY <1>2
    <3> QED BY <1>3, <3>1
  <2> QED BY <2>1 DEF UnreadIn
<1>8. UnreadIn(s, Head(s.events))
  BY <1>2, <1>3 DEF UnreadIn
<1>9. t.events # <<>> => t.events[Len(t.events)] = s.events[Len(s.events)]
  BY <1>2, <1>3, <1>5
<1>10. t.events = <<>> => Head(s.events) = s.events[Len(s.events)]
  BY <1>2, <1>3, <1>5
<1>11. Len(t.events) <= MaxQueue
  BY <1>0, <1>2
<1> QED BY <1>1, <1>4, <1>6, <1>7, <1>8, <1>9, <1>10, <1>11 DEF t

-----------------------------------------------------------------------------
(* The event log and the watcher's memory *)

LEMMA OlderType == ASSUME NEW age \in Ages PROVE Older(age) \in Ages /\ (age # None => Older(age) # None)
  BY AgesAssumption DEF Older, Ages, None

\* The answers of the queries after an event.
LEMMA EmittedEffect ==
  ASSUME NEW l \in Logs, NEW kind \in Kinds
  PROVE  /\ Emitted(l, kind) \in Logs
         /\ Emitted(l, kind).newest = kind
         /\ kind \notin TurnEnds /\ l.long => Emitted(l, kind).long
         /\ kind = "long" => Emitted(l, kind).long
<1> DEFINE e == Emitted(l, kind)
           start == CASE kind \in TurnEnds -> None
                      [] kind \in Inputs /\ (l.start = None \/ l.launched) -> 0
                      [] OTHER -> l.start
<1>1. 0 \in 0 .. Long /\ 0 \in Ages /\ None \in Ages
  BY AgesAssumption DEF Ages, None
<1>2. start \in Ages
  BY <1>1 DEF Logs
<1>3. (IF kind \in TurnEnds THEN FALSE ELSE l.long \/ kind = "long") \in BOOLEAN
  BY DEF Logs
<1>4. (l.launched /\ kind \notin TurnEnds \cup Inputs) \in BOOLEAN /\ (l.rested /\ kind \notin Inputs) \in BOOLEAN
  BY DEF Logs
<1> HIDE DEF start
<1>5. e = [l EXCEPT !.newest = kind, !.age = 0, !.done = FALSE,
                    !.long = IF kind \in TurnEnds THEN FALSE ELSE @ \/ kind = "long",
                    !.start = start,
                    !.launched = @ /\ kind \notin TurnEnds \cup Inputs,
                    !.rested = @ /\ kind \notin Inputs]
  BY DEF Emitted, start
<1>6. /\ DOMAIN e = DOMAIN l
      /\ e.newest = kind /\ e.age = 0 /\ e.start = start /\ e.done = FALSE /\ e.limit = l.limit
  BY <1>5 DEF Logs
<1>7. e.long = (IF kind \in TurnEnds THEN FALSE ELSE l.long \/ kind = "long")
  BY <1>5 DEF Logs
<1>8. e.launched = (l.launched /\ kind \notin TurnEnds \cup Inputs) /\ e.rested = (l.rested /\ kind \notin Inputs)
  BY <1>5 DEF Logs
<1>9. e \in Logs
  BY <1>1, <1>2, <1>3, <1>4, <1>5 DEF Logs
<1> QED BY <1>6, <1>7, <1>9 DEF TurnEnds

LEMMA TurnedEffect ==
  ASSUME NEW m \in Memories, NEW status \in Statuses
  PROVE  /\ Turned(m, status) \in Memories
         /\ Turned(m, status).seen = m.seen
         /\ status = "working" => Turned(m, status).turn # None
         /\ \/ Turned(m, status).turn = None
            \/ m.turn # None /\ Turned(m, status).turn = m.turn /\ Turned(m, status).long = m.long
            \/ m.turn = None /\ status = "working"
<1> DEFINE t == Turned(m, status)
           turn == IF status # "working" THEN None ELSE IF m.turn = None THEN 0 ELSE m.turn
           long == status = "working" /\ m.turn # None /\ m.long
<1>0. m.turn \in Ages /\ None \in Ages /\ 0 \in Ages /\ 0 # None
  BY AgeFacts DEF Memories
<1>1. turn \in Ages
  BY <1>0
<1>2. long \in BOOLEAN
  BY DEF Memories
<1>3. /\ status = "working" => turn # None
      /\ \/ turn = None
         \/ m.turn # None /\ turn = m.turn /\ status = "working"
         \/ m.turn = None /\ status = "working"
  BY <1>0
<1>4. status = "working" /\ m.turn # None => long = m.long
  BY DEF Memories
<1>5. t = [m EXCEPT !.pending = FALSE, !.turn = turn, !.long = long]
  BY DEF Turned
<1> HIDE DEF turn, long
<1>6. t \in Memories /\ t.seen = m.seen /\ t.turn = turn
  BY <1>1, <1>2, <1>5 DEF Memories
<1>7. t.long = long
  BY <1>2, <1>5 DEF Memories
<1> QED BY <1>3, <1>4, <1>6, <1>7

LEMMA HeldEffect ==
  ASSUME NEW m \in Memories, log \in Logs
  PROVE  /\ Held(m) \in Memories /\ Held(m).seen = "held"
         /\ Held(m).turn # None
         /\ m.turn # None => Held(m).turn = m.turn /\ Held(m).long = m.long
         /\ m.turn = None => Held(m).long = log.long
<1> DEFINE turn == IF m.turn # None THEN m.turn ELSE IF log.start # None THEN log.start ELSE 0
           long == IF m.turn # None THEN m.long ELSE log.long
<1>0. m.turn \in Ages /\ log.start \in Ages /\ 0 \in Ages /\ 0 # None
  BY AgeFacts DEF Memories, Logs
<1>1. turn \in Ages /\ turn # None
  BY <1>0
<1>2. long \in BOOLEAN
  BY DEF Memories, Logs
<1>3. Held(m) = [seen |-> "held", pending |-> FALSE, turn |-> turn, long |-> long]
  BY DEF Held
<1>4. /\ m.turn # None => turn = m.turn /\ long = m.long
      /\ m.turn = None => long = log.long
  OBVIOUS
<1> HIDE DEF turn, long
<1>5. Held(m) \in Memories
  <2> DEFINE T == [seen : {"", "held", "idle?"} \cup Statuses, pending : BOOLEAN, turn : Ages, long : BOOLEAN]
  <2>1. "held" \in {"", "held", "idle?"} \cup Statuses /\ FALSE \in BOOLEAN
    OBVIOUS
  <2>2. Memories = T
    BY DEF Memories
  <2>3. [seen |-> "held", pending |-> FALSE, turn |-> turn, long |-> long] \in T
    BY <1>1, <1>2, <2>1, Zenon
  <2> QED BY <1>3, <2>2, <2>3
<1> QED BY <1>1, <1>3, <1>4, <1>5

\* What one reading of the status makes of the memory, and what it records.
Recorded == {"", "nothing", "working", "quiet", "blocked", "limited"}

TurnAfter(m, status) ==
  /\ status = "working" => mem'.turn # None
  /\ \/ mem'.turn = None
     \/ m.turn # None /\ mem'.turn = m.turn /\ mem'.long = m.long
     \/ m.turn = None /\ (status = "working" \/ mem'.long = log.long)

SeenAfter(m, status, rests) ==
  /\ status = "working" => mem'.seen = "working"
  /\ mem'.seen = "held" => m.seen = "held" \/ ~rests
  /\ mem'.seen = "idle?" => m.seen = "idle?"

StepAfter(status, rests, at) ==
  /\ step' \in LoopSteps /\ step'.at = at
  /\ step'.record \in Recorded
  /\ step'.record \in {"quiet", "limited"} => status # "working" /\ (Prefills => rests)

Reading(m, status, rests, at) ==
  mem' \in Memories /\ TurnAfter(m, status) /\ SeenAfter(m, status, rests) /\ StepAfter(status, rests, at)

LEMMA ObserveEndEffect ==
  ASSUME NEW m \in Memories, NEW status \in {"idle", "done"}, NEW rests \in BOOLEAN,
         NEW at \in {"loop", "long", "unblock", "approve"}, log \in Logs, ObserveEnd(m, status, rests, at)
  PROVE  Reading(m, status, rests, at)
<1> DEFINE now == [Turned(m, status) EXCEPT !.seen = status]
<1>0. status \in Statuses
  BY DEF Statuses
<1>9. at \in {"loop", "long", "unblock", "approve", "deny"}
  OBVIOUS
<1>1. now \in Memories /\ now.seen = status /\ now.turn = Turned(m, status).turn /\ now.long = Turned(m, status).long
  BY <1>0, TurnedEffect DEF Memories
<1>2. \/ mem' = now /\ \E r \in Recorded \ {"quiet", "limited"} : step' = [at |-> at, record |-> r]
      \/ mem' = Held(m) /\ ~rests /\ step' = [at |-> at, record |-> ""]
      \/ mem' = now /\ (Prefills => rests) /\ \E r \in Recorded : step' = [at |-> at, record |-> r]
  <2> DEFINE limit == screen = "limit" /\ ~log.limit
             asks == status = "idle" /\ sort = "ask" /\ screen = "dialog"
             kind == IF TooYoung(m) THEN "nothing" ELSE "quiet"
  <2>1. CASE status = "idle" /\ m.seen \notin {"working", "blocked"}
    <3>1. mem' = now
      BY <2>1 DEF ObserveEnd
    <3>2. step' = [at |-> at, record |-> ""]
      BY <2>1 DEF ObserveEnd, Goes
    <3> QED BY <3>1, <3>2 DEF Recorded
  <2>2. CASE ~(status = "idle" /\ m.seen \notin {"working", "blocked"}) /\ Prefills /\ ~rests
    <3>1. mem' = Held(m)
      BY <2>2 DEF ObserveEnd
    <3>2. step' = [at |-> at, record |-> ""]
      BY <2>2 DEF ObserveEnd, Goes
    <3> QED BY <2>2, <3>1, <3>2
  <2>3. CASE ~(status = "idle" /\ m.seen \notin {"working", "blocked"}) /\ ~(Prefills /\ ~rests)
    <3>1. mem' = now
      BY <2>3 DEF ObserveEnd
    <3>2. \E r \in Recorded : step' = [at |-> at, record |-> r]
      <4>1. CASE limit
        BY <2>3, <4>1 DEF ObserveEnd, Records, Recorded
      <4>2. CASE ~limit /\ asks
        BY <2>3, <4>2 DEF ObserveEnd, Records, Recorded
      <4>3. CASE ~limit /\ ~asks
        <5>1. Records(kind, at)
          BY <2>3, <4>3 DEF ObserveEnd
        <5> QED BY <5>1 DEF Records, Recorded
      <4> QED BY <4>1, <4>2, <4>3
    <3> QED BY <2>3, <3>1, <3>2
  <2> QED BY <2>1, <2>2, <2>3
<1>3. StepAfter(status, rests, at)
  <2>1. status # "working"
    OBVIOUS
  <2>2. ASSUME NEW r \in Recorded, step' = [at |-> at, record |-> r]
        PROVE  step' \in LoopSteps /\ step'.at = at /\ step'.record = r
    BY <2>2 DEF LoopSteps, Recorded
  <2>3. "" \in Recorded
    BY DEF Recorded
  <2> QED BY <1>2, <2>1, <2>2, <2>3 DEF StepAfter
<1>4. CASE mem' = now
  <2>1. TurnAfter(m, status)
    BY <1>0, <1>1, <1>4, TurnedEffect DEF TurnAfter
  <2>2. SeenAfter(m, status, rests)
    BY <1>1, <1>4 DEF SeenAfter
  <2> QED BY <1>1, <1>3, <1>4, <2>1, <2>2 DEF Reading
<1>5. CASE mem' = Held(m) /\ ~rests
  BY <1>3, <1>5, HeldEffect DEF Reading, TurnAfter, SeenAfter
<1> QED BY <1>2, <1>4, <1>5

LEMMA ObserveEffect ==
  ASSUME NEW m \in Memories, NEW status \in Statuses, NEW rests \in BOOLEAN,
         NEW at \in {"loop", "long", "unblock", "approve"}, log \in Logs, Observe(m, status, rests, at)
  PROVE  Reading(m, status, rests, at)
<1>1. ASSUME status # "working", \E p \in BOOLEAN : mem' = [m EXCEPT !.pending = p],
             step' = [at |-> at, record |-> ""]
      PROVE  Reading(m, status, rests, at)
  <2>1. mem' \in Memories /\ mem'.seen = m.seen /\ mem'.turn = m.turn /\ mem'.long = m.long
    BY <1>1 DEF Memories
  <2> QED BY <1>1, <2>1 DEF Reading, TurnAfter, SeenAfter, StepAfter, Recorded, LoopSteps
<1>2. CASE m.seen = "held" /\ status \in {"idle", "done"}
  BY <1>1, <1>2 DEF Observe, Goes
<1>3. CASE status = "blocked" /\ ~m.pending
  BY <1>1, <1>3 DEF Observe, Goes
<1>4. CASE status = "blocked" /\ m.pending /\ screen # "dialog"
  <2>1. mem' = m /\ step' = [at |-> at, record |-> ""]
    BY <1>4 DEF Observe, Goes
  <2> QED BY <1>4, <2>1 DEF Reading, TurnAfter, SeenAfter, StepAfter, Recorded, LoopSteps
<1>5. CASE /\ ~(m.seen = "held" /\ status \in {"idle", "done"})
           /\ ~(status = "blocked" /\ ~m.pending)
           /\ ~(status = "blocked" /\ m.pending /\ screen # "dialog")
  <2>1. CASE Before(m, status) = status
    <3>1. mem' = Turned(m, status)
      BY <1>5, <2>1 DEF Observe
    <3>3. step' = [at |-> at, record |-> ""]
      BY <1>5, <2>1 DEF Observe, Goes
    <3>2. status = "working" => m.seen = "working"
      BY <2>1 DEF Before
    <3> QED BY <3>1, <3>2, <3>3, TurnedEffect DEF Reading, TurnAfter, SeenAfter, StepAfter,
       Recorded, LoopSteps
  <2>2. CASE Before(m, status) # status /\ status \in {"idle", "done"}
    <3>1. ObserveEnd(m, status, rests, at)
      BY <1>5, <2>2 DEF Observe
    <3> QED BY <2>2, <3>1, ObserveEndEffect
  <2>3. CASE Before(m, status) # status /\ status \notin {"idle", "done"}
    <3> DEFINE now == [Turned(m, status) EXCEPT !.seen = status]
    <3>1. mem' = now /\ \E r \in Recorded \ {"quiet", "limited"} : step' = [at |-> at, record |-> r]
      BY <1>5, <2>3 DEF Observe, Goes, Records, Recorded
    <3>2. /\ now \in Memories /\ now.seen = status
          /\ now.turn = Turned(m, status).turn /\ now.long = Turned(m, status).long
      BY TurnedEffect DEF Memories
    <3>3. TurnAfter(m, status)
      BY <3>1, <3>2, TurnedEffect DEF TurnAfter
    <3>4. SeenAfter(m, status, rests)
      BY <2>3, <3>1, <3>2 DEF SeenAfter, Statuses
    <3>5. StepAfter(status, rests, at)
      <4>1. PICK r \in Recorded \ {"quiet", "limited"} : step' = [at |-> at, record |-> r]
        BY <3>1
      <4>2. step' \in LoopSteps /\ step'.at = at /\ step'.record = r
        BY <4>1 DEF Recorded, LoopSteps
      <4> QED BY <4>1, <4>2 DEF StepAfter
    <3> QED BY <3>1, <3>2, <3>3, <3>4, <3>5 DEF Reading
  <2> QED BY <2>1, <2>2, <2>3
<1> QED BY <1>2, <1>3, <1>4, <1>5

-----------------------------------------------------------------------------
(* Types, and the queue of a subscriber: its last event is the status *)

Queue ==
  /\ stream.state = "none" => stream.events = <<>>
  /\ stream.events # <<>> => stream.events[Len(stream.events)] = agent

Lists == [says : {"none", "old", "busy", "rests", "failed"}, missed : BOOLEAN]
Presses == [who : {"none", "keys", "watch"}, fresh : BOOLEAN]
Ghosts == [ended : BOOLEAN, asked : BOOLEAN, longs : Nat, shown : Ages, keys : Ages, rested : BOOLEAN, late : BOOLEAN]
Screens == {"output", "prompt", "limit", "dialog"}

SInv == SignalsTypeOK /\ Queue

\* Luvus reads the status from here on, and tells the subscriber of a change.
Changes(status) ==
  agent' = status /\ stream' = IF status = agent THEN stream ELSE Published(stream, status)

LEMMA ChangeEffect ==
  ASSUME SInv, NEW status \in Statuses, Changes(status)
  PROVE  /\ agent' \in Statuses /\ stream' \in Streams /\ Len(stream'.events) <= MaxQueue
         /\ Queue'
         /\ stream'.state = "following" => /\ stream.state = "following"
                                           /\ status # agent => UnreadIn(stream', status)
                                           /\ \A x \in Statuses : UnreadIn(stream, x) => UnreadIn(stream', x)
         /\ \A x \in Statuses : UnreadIn(stream', x) => UnreadIn(stream, x) \/ (x = status /\ status # agent)
         /\ status = agent => stream' = stream
<1>0. stream \in Streams /\ Len(stream.events) <= MaxQueue /\ Queue
  BY DEF SInv, SignalsTypeOK
<1>1. CASE status = agent
  BY <1>0, <1>1 DEF Changes, Queue
<1>2. CASE status # agent
  <2>1. stream' = Published(stream, status) /\ agent' = status
    BY <1>2 DEF Changes
  <2>2. stream.state = "none" => stream.events = <<>>
    BY <1>0 DEF Queue
  <2>3. /\ stream' \in Streams /\ Len(stream'.events) <= MaxQueue
        /\ stream'.state \in {stream.state, "none"}
        /\ stream'.state = "none" => stream'.events = <<>>
        /\ stream'.state # "none" => /\ stream'.events # <<>> /\ stream'.events[Len(stream'.events)] = status
                                     /\ UnreadIn(stream', status)
                                     /\ \A x \in Statuses : UnreadIn(stream, x) => UnreadIn(stream', x)
        /\ \A x \in Statuses : UnreadIn(stream', x) => x = status \/ UnreadIn(stream, x)
    BY <1>0, <2>1, <2>2, PublishedEffect
  <2> QED BY <1>2, <2>1, <2>3 DEF Queue
<1> QED BY <1>1, <1>2

LEMMA PaneEffect ==
  ASSUME SInv, NEW status \in Statuses, NEW text \in Screens, Pane(status, text)
  PROVE  /\ Changes(status)
         /\ screen' \in Screens /\ press' \in Presses
         /\ UNCHANGED <<sort, live, mem, step, list, losses>>
  BY DEF Pane, Changes, watcher, SInv, SignalsTypeOK, Presses, Screens

\* A deed and a loss are counted.
LEMMA CountTypes ==
  ASSUME SInv
  PROVE  /\ Move => deeds' \in 0 .. MaxDeeds
         /\ losses < MaxLosses /\ losses' = losses + 1 => losses' \in 0 .. MaxLosses
  BY BoundsAssumption DEF SInv, SignalsTypeOK, Move

LEMMA SessionType == ASSUME SInv, NEW working \in BOOLEAN, Session(working)
                     PROVE  busy' \in BOOLEAN /\ log' \in Logs
<1>1. (log.rested \/ (busy /\ ~working)) \in BOOLEAN
  BY DEF SInv, SignalsTypeOK, Logs
<1>2. log \in Logs
  BY DEF SInv, SignalsTypeOK
<1> QED BY <1>1, <1>2 DEF Session, Logs

LEMMA BegunType == ASSUME SInv PROVE Begun \in Ghosts /\ Begun.longs = 0 /\ Begun.rested = FALSE
  BY AgeFacts DEF SInv, SignalsTypeOK, Begun, Ghosts

\* The pane.
LEMMA PaneTypes ==
  ASSUME SInv, TurnBegins \/ EndTurn \/ Ask \/ NextDialog \/ ScreenOnly \/ Send PROVE SInv'
<1>0. SignalsTypeOK /\ log \in Logs /\ ghost \in Ghosts
  BY DEF SInv, SignalsTypeOK, Ghosts
<1>1. deeds' \in 0 .. MaxDeeds
  BY CountTypes DEF TurnBegins, EndTurn, Ask, NextDialog, ScreenOnly, Send
<1>2. ASSUME NEW status \in Statuses, NEW text \in Screens, Pane(status, text),
             busy' \in BOOLEAN, log' \in Logs, ghost' \in Ghosts, sending' \in BOOLEAN
      PROVE  SInv'
  <2>1. Changes(status) /\ screen' \in Screens /\ press' \in Presses /\ UNCHANGED <<sort, live, mem, step, list, losses>>
    BY <1>2, PaneEffect
  <2>2. agent' \in Statuses /\ stream' \in Streams /\ Len(stream'.events) <= MaxQueue /\ Queue'
    BY <2>1, ChangeEffect
  <2>3. SignalsTypeOK'
    BY <1>0, <1>1, <1>2, <2>1, <2>2 DEF SignalsTypeOK, Screens, Presses, Ghosts
  <2> QED BY <2>2, <2>3 DEF SInv
<1>3. CASE TurnBegins
  BY <1>2, <1>3, <1>0, SessionType, BegunType DEF TurnBegins, Statuses, Screens, SignalsTypeOK
<1>4. CASE EndTurn
  <2>1. PICK status \in {"idle", "done"}, text \in {"prompt", "limit"}, still \in BOOLEAN :
          /\ Pane(status, text) /\ busy' = still
          /\ log' = [log EXCEPT !.limit = @ /\ text # "limit", !.rested = @ \/ ~still]
          /\ ghost' = [ghost EXCEPT !.ended = TRUE, !.rested = ~still]
    BY <1>4 DEF EndTurn
  <2>2. (log.limit /\ text # "limit") \in BOOLEAN /\ (log.rested \/ ~still) \in BOOLEAN
    BY <1>0 DEF Logs
  <2>3. log' \in Logs
    BY <1>0, <2>1, <2>2 DEF Logs
  <2>4. ghost' \in Ghosts
    BY <1>0, <2>1 DEF Ghosts
  <2>5. UNCHANGED sending
    BY <1>4 DEF EndTurn
  <2> QED BY <1>0, <1>2, <2>1, <2>3, <2>4, <2>5 DEF Statuses, Screens, SignalsTypeOK
<1>5. CASE Ask
  <2>1. PICK status \in {"blocked", "idle"}, text \in {"dialog", "output"} :
          /\ Pane(status, text)
          /\ ghost' = [ghost EXCEPT !.shown = IF text = "dialog" THEN 0 ELSE None,
                                    !.late = log.newest = "blocked"]
    BY <1>5 DEF Ask
  <2>2. (IF text = "dialog" THEN 0 ELSE None) \in Ages /\ (log.newest = "blocked") \in BOOLEAN
    BY AgeFacts
  <2>3. ghost' \in Ghosts
    BY <1>0, <2>1, <2>2 DEF Ghosts
  <2>4. UNCHANGED <<busy, log, sending>>
    BY <1>5 DEF Ask
  <2> QED BY <1>0, <1>2, <2>1, <2>3, <2>4 DEF Statuses, Screens, SignalsTypeOK
<1>6. CASE NextDialog
  <2>1. ghost' \in Ghosts
    BY <1>0, <1>6, AgeFacts DEF NextDialog, Ghosts
  <2> QED BY <1>0, <1>2, <1>6, <2>1 DEF NextDialog, Statuses, Screens, SignalsTypeOK
<1>7. CASE ScreenOnly
  BY <1>0, <1>2, <1>7 DEF ScreenOnly, Statuses, Screens, SignalsTypeOK
<1>8. CASE Send
  BY <1>2, <1>8, SessionType, BegunType DEF Send, Statuses, Screens
<1> QED BY <1>3, <1>4, <1>5, <1>6, <1>7, <1>8

\* Commands, notes in the log, the end, time.
LEMMA NoteTypes ==
  ASSUME SInv, Rest \/ LaunchNote \/ (\E done \in BOOLEAN : Report(done)) \/ End \/ NoteSent \/ NoteKeys
  PROVE  SInv'
<1>0. SignalsTypeOK /\ Queue /\ log \in Logs /\ ghost \in Ghosts /\ press \in Presses
  BY DEF SInv, SignalsTypeOK, Ghosts, Presses
<1>1. deeds' \in 0 .. MaxDeeds
  BY <1>0, CountTypes DEF Rest, LaunchNote, Report, End, NoteSent, NoteKeys, world, SignalsTypeOK
<1>2. UNCHANGED <<sort, agent, screen, stream, mem, step, list, losses>>
  BY DEF Rest, LaunchNote, Report, End, NoteSent, NoteKeys, world, watcher
<1>3. ASSUME live' \in BOOLEAN, busy' \in BOOLEAN, sending' \in BOOLEAN, log' \in Logs, press' \in Presses, ghost' \in Ghosts
      PROVE  SInv'
  <2>1. SignalsTypeOK'
    BY <1>0, <1>1, <1>2, <1>3 DEF SignalsTypeOK, Presses, Ghosts
  <2>2. Queue'
    BY <1>0, <1>2 DEF Queue
  <2> QED BY <2>1, <2>2 DEF SInv
<1>4. live \in BOOLEAN /\ busy \in BOOLEAN /\ sending \in BOOLEAN
  BY <1>0 DEF SignalsTypeOK
<1>5. \A kind \in Kinds : Emitted(log, kind) \in Logs
  BY <1>0, EmittedEffect
<1>6. CASE Rest
  <2>1. (~busy) \in BOOLEAN /\ (ghost.rested \/ busy) \in BOOLEAN
    BY <1>4
  <2>2. ghost' \in Ghosts
    BY <1>0, <1>6, <2>1 DEF Rest, Ghosts
  <2> QED BY <1>0, <1>3, <1>4, <1>6, <2>1, <2>2, SessionType DEF Rest
<1>7. CASE LaunchNote
  <2>1. ghost' \in Ghosts
    BY <1>0, <1>7 DEF LaunchNote, Ghosts
  <2>2. log' \in Logs
    BY <1>5, <1>7 DEF LaunchNote, Kinds, TurnEnds
  <2> QED BY <1>0, <1>3, <1>4, <1>7, <2>1, <2>2 DEF LaunchNote
<1>8. CASE \E done \in BOOLEAN : Report(done)
  <2>1. PICK done \in BOOLEAN : Report(done)
    BY <1>8
  <2>2. Emitted(log, "reported") \in Logs
    BY <1>5 DEF Kinds
  <2>3. log' \in Logs
    BY <2>1, <2>2 DEF Report, Logs
  <2> QED BY <1>0, <1>3, <1>4, <2>1, <2>3 DEF Report
<1>9. CASE End
  <2>1. log' \in Logs
    BY <1>5, <1>9 DEF End, Kinds
  <2> QED BY <1>0, <1>3, <1>4, <1>9, <2>1 DEF End
<1>10. CASE NoteSent
  <2>1. (~ghost.ended) \in BOOLEAN
    BY <1>0 DEF Ghosts
  <2>2. ghost' \in Ghosts
    BY <1>0, <1>10, <2>1 DEF NoteSent, Ghosts
  <2>3. log' \in Logs
    BY <1>5, <1>10 DEF NoteSent, Kinds, Inputs
  <2> QED BY <1>0, <1>3, <1>4, <1>10, <2>2, <2>3 DEF NoteSent
<1>11. CASE NoteKeys
  <2>1. ghost' \in Ghosts /\ press' \in Presses
    BY <1>0, <1>11 DEF NoteKeys, Ghosts, Presses
  <2>2. log' \in Logs
    BY <1>5, <1>11 DEF NoteKeys, Kinds, Inputs
  <2> QED BY <1>0, <1>3, <1>4, <1>11, <2>1, <2>2 DEF NoteKeys, world
<1> QED BY <1>6, <1>7, <1>8, <1>9, <1>10, <1>11

LEMMA TickTypes == ASSUME SInv, Tick PROVE SInv'
<1>0. SignalsTypeOK /\ Queue /\ log \in Logs /\ ghost \in Ghosts /\ mem \in Memories
  BY DEF SInv, SignalsTypeOK, Ghosts
<1>1. (IF sort = "ask" THEN Older(log.age) ELSE log.age) \in 0 .. Long
  <2>1. log.age \in 0 .. Long
    BY <1>0 DEF Logs
  <2> QED BY <2>1, AgesAssumption DEF Older, None
<1>2. \A age \in Ages : Older(age) \in Ages
  BY OlderType
<1>3. log' \in Logs
  BY <1>0, <1>1, <1>2 DEF Tick, Logs
<1>4. mem' \in Memories
  BY <1>0, <1>2 DEF Tick, Memories
<1>5. ghost' \in Ghosts
  <2>1. [ghost EXCEPT !.shown = Older(@), !.keys = Older(@)] \in Ghosts
    BY <1>0, <1>2 DEF Ghosts
  <2> QED BY <1>0, <2>1 DEF Tick
<1>6. UNCHANGED <<world, stream, step, list, press, losses>>
  BY DEF Tick
<1>7. SignalsTypeOK'
  BY <1>0, <1>3, <1>4, <1>5, <1>6 DEF SignalsTypeOK, world, Ghosts
<1> QED BY <1>0, <1>6, <1>7 DEF SInv, Queue, world

\* A key pressed by hand, or by the watcher.
LEMMA PressTypes == ASSUME SInv, Keys \/ Deny PROVE SInv'
<1>0. /\ SignalsTypeOK /\ Queue /\ log \in Logs /\ ghost \in Ghosts /\ press \in Presses
      /\ sort \in Sorts /\ live \in BOOLEAN /\ busy \in BOOLEAN /\ sending \in BOOLEAN
  BY DEF SInv, SignalsTypeOK, Ghosts, Presses
<1>1. UNCHANGED <<sort, live, busy, sending, log, mem, list, losses>>
  BY DEF Keys, Deny, watcher
<1>2. ASSUME agent' \in Statuses, stream' \in Streams, Len(stream'.events) <= MaxQueue, Queue',
             screen' \in Screens, press' \in Presses, ghost' \in Ghosts, step' \in LoopSteps, deeds' \in 0 .. MaxDeeds
      PROVE  SInv'
  BY <1>0, <1>1, <1>2 DEF SInv, SignalsTypeOK, Ghosts, Screens, Presses
<1>3. CASE Keys
  <2>1. PICK status \in {"working", "blocked"} :
          /\ Changes(status)
          /\ screen' = IF status = "working" THEN "output" ELSE "dialog"
          /\ ghost' = [ghost EXCEPT !.shown = IF status = "working" THEN None ELSE 0,
                                    !.keys = 0, !.longs = 0, !.late = TRUE]
    BY <1>3 DEF Keys, Changes
  <2>2. agent' \in Statuses /\ stream' \in Streams /\ Len(stream'.events) <= MaxQueue /\ Queue'
    BY <2>1, ChangeEffect DEF Statuses
  <2>3. (IF status = "working" THEN None ELSE 0) \in Ages
    BY AgeFacts
  <2>4. ghost' \in Ghosts
    BY <1>0, <2>1, <2>3, AgeFacts DEF Ghosts
  <2>5. press' \in Presses /\ UNCHANGED step /\ step \in LoopSteps
    BY <1>0, <1>3 DEF Keys, Presses, watcher, SignalsTypeOK
  <2>6. deeds' \in 0 .. MaxDeeds
    BY <1>3, CountTypes DEF Keys
  <2> QED BY <1>2, <2>1, <2>2, <2>4, <2>5, <2>6 DEF Screens
<1>4. CASE Deny /\ press.fresh /\ live
  <2>1. PICK status \in {"idle", "working", "blocked"} :
          /\ Changes(status)
          /\ screen' = CASE status = "idle" -> "prompt" [] status = "working" -> "output" [] OTHER -> "dialog"
          /\ ghost' = [ghost EXCEPT !.shown = IF status = "blocked" THEN 0 ELSE None, !.late = TRUE]
          /\ press' = [press EXCEPT !.fresh = FALSE]
          /\ step' = [at |-> "loop", record |-> "denied"]
    BY <1>4 DEF Deny, Changes, Records
  <2>2. agent' \in Statuses /\ stream' \in Streams /\ Len(stream'.events) <= MaxQueue /\ Queue'
    BY <2>1, ChangeEffect DEF Statuses
  <2>3. (IF status = "blocked" THEN 0 ELSE None) \in Ages
    BY AgeFacts
  <2>4. ghost' \in Ghosts
    BY <1>0, <2>1, <2>3 DEF Ghosts
  <2>5. press' \in Presses /\ step' \in LoopSteps /\ screen' \in Screens
    BY <1>0, <2>1 DEF Presses, LoopSteps, Screens
  <2>6. deeds' \in 0 .. MaxDeeds
    BY <1>0, <1>4 DEF Deny, SignalsTypeOK
  <2> QED BY <1>2, <2>2, <2>4, <2>5, <2>6
<1>5. CASE Deny /\ ~(press.fresh /\ live)
  <2>1. UNCHANGED <<agent, screen, stream, ghost, deeds>>
    BY <1>5 DEF Deny
  <2>2. press' = [who |-> "none", fresh |-> FALSE] /\ step' = [at |-> "loop", record |-> ""]
    BY <1>5 DEF Deny, Goes
  <2>3. /\ agent' \in Statuses /\ screen' \in Screens /\ ghost' \in Ghosts /\ deeds' \in 0 .. MaxDeeds
        /\ stream' \in Streams /\ Len(stream'.events) <= MaxQueue
    BY <1>0, <2>1 DEF SignalsTypeOK, Screens
  <2>4. Queue'
    BY <1>0, <2>1 DEF Queue
  <2>5. press' \in Presses /\ step' \in LoopSteps
    BY <2>2 DEF Presses, LoopSteps
  <2> QED BY <1>2, <2>3, <2>4, <2>5
<1> QED BY <1>3, <1>4, <1>5

\* The memory and the step of the watcher after one reading.
LEMMA ReadingTypes ==
  ASSUME NEW m, NEW status, NEW rests, NEW at, Reading(m, status, rests, at)
  PROVE  mem' \in Memories /\ step' \in LoopSteps
  BY DEF Reading, StepAfter

\* What the watcher makes of its memory while the world and the log stay.
LEMMA GoesType == ASSUME NEW at \in {"loop", "long", "unblock", "approve", "deny"}, Goes(at)
                  PROVE  step' \in LoopSteps /\ step'.at = at /\ step'.record = ""
  BY DEF Goes, LoopSteps

LEMMA RecordsType == ASSUME NEW at \in {"loop", "long", "unblock", "approve", "deny"}, NEW kind \in {"blocked", "denied"}, Records(kind, at)
                     PROVE  step' \in LoopSteps /\ step'.at = at /\ step'.record = kind
  BY DEF Records, LoopSteps

LEMMA OutdatedType == ASSUME SInv PROVE Outdated \in Lists /\ Outdated.says \notin {"rests", "failed"}
<1>1. list \in Lists
  BY DEF SInv, SignalsTypeOK, Lists
<1> DEFINE says == IF list.says = "none" THEN list.says ELSE "old"
<1>2. says \in {"none", "old"}
  OBVIOUS
<1>3. Outdated = [list EXCEPT !.says = says]
  BY DEF Outdated
<1> HIDE DEF says
<1>4. Outdated.says = says
  BY <1>1, <1>3 DEF Lists
<1> QED BY <1>1, <1>2, <1>3, <1>4 DEF Lists

\* What catchUp reads with: the memory it rebuilt.
Caught == [mem EXCEPT !.seen = SeenBefore(mem.seen = "held"), !.pending = FALSE,
                      !.turn = IF agent = "working" /\ mem.turn = None
                               THEN IF log.start # None THEN log.start ELSE 0 ELSE @,
                      !.long = IF agent = "working" /\ mem.turn = None THEN log.long ELSE @]

LEMMA CaughtEffect ==
  ASSUME SInv
  PROVE  /\ Caught \in Memories
         /\ SeenBefore(mem.seen = "held") \in {"", "held", "idle?"} \cup Statuses
         /\ SeenBefore(mem.seen = "held") # "held"
         /\ SeenBefore(mem.seen = "held") = "idle?" => agent = "idle"
         /\ Caught.seen = SeenBefore(mem.seen = "held")
         /\ agent = "working" => Caught.turn # None
         /\ (Caught.turn = mem.turn /\ Caught.long = mem.long) \/ Caught.long = log.long
<1> DEFINE seen == SeenBefore(mem.seen = "held")
           turn == IF agent = "working" /\ mem.turn = None THEN IF log.start # None THEN log.start ELSE 0 ELSE mem.turn
           long == IF agent = "working" /\ mem.turn = None THEN log.long ELSE mem.long
<1>0. mem \in Memories /\ log \in Logs /\ agent \in Statuses
  BY DEF SInv, SignalsTypeOK
<1>1. /\ seen \in {"", "held", "idle?"} \cup Statuses
      /\ seen # "held" /\ (seen = "idle?" => agent = "idle")
  BY <1>0 DEF SeenBefore, Statuses
<1>2. turn \in Ages /\ (agent = "working" => turn # None)
  <2>1. mem.turn \in Ages /\ log.start \in Ages
    BY <1>0 DEF Memories, Logs
  <2> QED BY <2>1, AgeFacts
<1>3. long \in BOOLEAN
  BY <1>0 DEF Memories, Logs
<1>4. (turn = mem.turn /\ long = mem.long) \/ long = log.long
  OBVIOUS
<1>5. Caught = [mem EXCEPT !.seen = seen, !.pending = FALSE, !.turn = turn, !.long = long]
  BY DEF Caught
<1>7. seen = SeenBefore(mem.seen = "held")
  OBVIOUS
<1> HIDE DEF seen, turn, long
<1>6. Caught \in Memories /\ Caught.seen = seen /\ Caught.turn = turn
  BY <1>0, <1>1, <1>2, <1>3, <1>5 DEF Memories
<1>8. Caught.long = long
  BY <1>0, <1>3, <1>5 DEF Memories
<1> QED BY <1>1, <1>2, <1>4, <1>6, <1>7, <1>8

\* What a step of catchUp does.
LEMMA CatchUpEffect ==
  ASSUME SInv, CatchUp
  PROVE  /\ UNCHANGED <<world, log, press, losses, ghost>>
         /\ stream.state = "open" /\ stream' = [stream EXCEPT !.state = "following"] /\ list' = Outdated
         /\ mem' \in Memories /\ step' \in LoopSteps /\ step'.record # "long" /\ step'.at = "loop"
         /\ \/ Reading(Caught, agent, FALSE, "loop")
            \/ step'.record = "" /\ (live => agent # "working") /\ mem'.turn = mem.turn /\ mem'.long = mem.long
<1> DEFINE prev == SeenBefore(mem.seen = "held")
           still == [mem EXCEPT !.seen = prev, !.pending = FALSE]
           gone == [mem EXCEPT !.seen = "", !.pending = FALSE]
<1>0. mem \in Memories /\ log \in Logs /\ agent \in Statuses
  BY DEF SInv, SignalsTypeOK
<1>1. /\ UNCHANGED <<world, log, press, losses, ghost>>
      /\ stream.state = "open" /\ stream' = [stream EXCEPT !.state = "following"] /\ list' = Outdated
  BY DEF CatchUp
<1>2. CASE ~live
  <2>1. mem' = gone
    BY <1>2 DEF CatchUp
  <2>2. Goes("loop")
    BY <1>2 DEF CatchUp
  <2>3. gone \in Memories /\ gone.turn = mem.turn /\ gone.long = mem.long
    BY <1>0 DEF Memories
  <2> QED BY <1>1, <1>2, <2>1, <2>2, <2>3, GoesType
<1>3. CASE live /\ prev = "idle?"
  <2>1. mem' = still
    BY <1>3 DEF CatchUp
  <2>2. Goes("loop")
    BY <1>3 DEF CatchUp
  <2>3. still \in Memories /\ still.turn = mem.turn /\ still.long = mem.long
    BY <1>0, CaughtEffect DEF Memories
  <2>4. agent # "working"
    BY <1>3, CaughtEffect
  <2> QED BY <1>1, <2>1, <2>2, <2>3, <2>4, GoesType
<1>4. CASE live /\ prev # "idle?"
  <2>1. Observe(Caught, agent, FALSE, "loop")
    BY <1>4 DEF CatchUp, Caught
  <2>2. Reading(Caught, agent, FALSE, "loop")
    BY <1>0, <2>1, ObserveEffect, CaughtEffect
  <2> QED BY <1>1, <2>2 DEF Reading, StepAfter, Recorded
<1> QED BY <1>2, <1>3, <1>4

\* The loop takes an event, or its tick reads the status again.
LEMMA HandleEffect ==
  ASSUME SInv, Handle
  PROVE  /\ UNCHANGED <<world, log, press, losses, ghost>>
         /\ AtLoop /\ stream.events # <<>> /\ stream' = [stream EXCEPT !.events = Tail(stream.events)]
         /\ mem' \in Memories /\ step' \in LoopSteps /\ step'.record # "long" /\ step'.at = "loop"
         /\ IF live THEN Reading(mem, Head(stream.events), FALSE, "loop") ELSE mem' = mem /\ step'.record = ""
<1>0. mem \in Memories /\ log \in Logs /\ stream \in Streams /\ Len(stream.events) <= MaxQueue
  BY DEF SInv, SignalsTypeOK
<1>1. /\ UNCHANGED <<world, log, press, losses, ghost>>
      /\ AtLoop /\ stream.events # <<>> /\ stream' = [stream EXCEPT !.events = Tail(stream.events)]
  BY DEF Handle
<1>2. CASE live
  <2>1. Observe(mem, Head(stream.events), FALSE, "loop")
    BY <1>2 DEF Handle
  <2>2. Head(stream.events) \in Statuses
    BY <1>0, <1>1, ReadEffect
  <2>3. Reading(mem, Head(stream.events), FALSE, "loop")
    BY <1>0, <2>1, <2>2, ObserveEffect
  <2> QED BY <1>1, <1>2, <2>3 DEF Reading, StepAfter, Recorded
<1>3. CASE ~live
  <2>1. UNCHANGED mem
    BY <1>3 DEF Handle
  <2>2. Goes("loop")
    BY <1>3 DEF Handle
  <2> QED BY <1>0, <1>1, <1>3, <2>1, <2>2, GoesType
<1> QED BY <1>2, <1>3

LEMMA BeginTickEffect ==
  ASSUME SInv, BeginTick
  PROVE  /\ UNCHANGED <<world, log, stream, press, losses, ghost>>
         /\ AtLoop
         /\ mem' \in Memories /\ step' \in LoopSteps /\ step'.record # "long" /\ step'.at = "long"
         /\ \/ live /\ Reading(mem, agent, FALSE, "long")
            \/ /\ step'.record = "" /\ mem'.turn = mem.turn /\ mem'.long = mem.long
               /\ live => mem'.seen = mem.seen
<1>0. mem \in Memories /\ log \in Logs /\ agent \in Statuses
  BY DEF SInv, SignalsTypeOK
<1>1. UNCHANGED <<world, log, stream, press, losses, ghost>> /\ AtLoop
  BY DEF BeginTick
<1>2. CASE live /\ mem.pending
  <2>1. Observe(mem, agent, FALSE, "long")
    BY <1>2 DEF BeginTick
  <2>2. Reading(mem, agent, FALSE, "long")
    BY <1>0, <2>1, ObserveEffect
  <2> QED BY <1>1, <1>2, <2>2 DEF Reading, StepAfter, Recorded
<1>3. CASE ~(live /\ mem.pending)
  <2> DEFINE next == [mem EXCEPT !.pending = FALSE, !.seen = IF live THEN @ ELSE ""]
  <2>1. mem' = next
    BY <1>3 DEF BeginTick
  <2>2. Goes("long")
    BY <1>3 DEF BeginTick
  <2>3. next \in Memories /\ next.turn = mem.turn /\ next.long = mem.long /\ (live => next.seen = mem.seen)
    BY <1>0 DEF Memories
  <2> QED BY <1>1, <2>1, <2>2, <2>3, GoesType
<1> QED BY <1>2, <1>3

LEMMA LongTurnsEffect ==
  ASSUME SInv, LongTurns
  PROVE  /\ UNCHANGED <<world, log, stream, list, press, losses, ghost>>
         /\ StepAt("long")
         /\ mem' \in Memories /\ step' \in LoopSteps /\ step'.at # "deny"
         /\ mem'.seen = mem.seen /\ (live => mem' = mem) /\ (~live => mem'.turn = None)
         /\ \/ step'.record = ""
            \/ live /\ mem.turn # None /\ ~mem.long /\ step'.record = "long"
<1>0. mem \in Memories
  BY DEF SInv, SignalsTypeOK
<1>1. UNCHANGED <<world, log, stream, list, press, losses, ghost>> /\ StepAt("long")
  BY DEF LongTurns
<1>2. mem' \in Memories /\ mem'.seen = mem.seen /\ (live => mem' = mem) /\ (~live => mem'.turn = None)
  <2>1. CASE live
    BY <1>0, <2>1 DEF LongTurns
  <2>2. CASE ~live
    BY <1>0, <2>2, AgeFacts DEF LongTurns, Memories
  <2> QED BY <2>1, <2>2
<1>3. AfterLong \in {"unblock", "approve", "loop"}
  BY DEF AfterLong
<1>4. CASE live /\ mem.turn = Long /\ ~mem.long
  <2>1. step' = [at |-> AfterLong, record |-> "long"]
    BY <1>4 DEF LongTurns, Records
  <2>2. step' \in LoopSteps /\ step'.at # "deny" /\ step'.record = "long"
    BY <1>3, <2>1 DEF LoopSteps
  <2> QED BY <1>1, <1>2, <1>4, <2>2, AgeFacts
<1>5. CASE ~(live /\ mem.turn = Long /\ ~mem.long)
  <2>1. Goes(AfterLong)
    BY <1>5 DEF LongTurns
  <2>2. step' \in LoopSteps /\ step'.at # "deny" /\ step'.record = ""
    BY <1>3, <2>1, GoesType
  <2> QED BY <1>1, <1>2, <2>2
<1> QED BY <1>4, <1>5

LEMMA UnblockEffect ==
  ASSUME SInv, Unblock
  PROVE  /\ UNCHANGED <<world, log, stream, list, press, losses, ghost>>
         /\ StepAt("unblock")
         /\ mem' \in Memories /\ step' \in LoopSteps /\ step'.record # "long" /\ step'.at = "loop"
         /\ \/ live /\ agent = "working" /\ Reading(mem, agent, FALSE, "loop")
            \/ mem' = mem /\ step'.record = ""
<1>0. mem \in Memories /\ log \in Logs /\ agent \in Statuses
  BY DEF SInv, SignalsTypeOK
<1>1. UNCHANGED <<world, log, stream, list, press, losses, ghost>> /\ StepAt("unblock")
  BY DEF Unblock
<1> DEFINE again == live /\ Prefills /\ mem.seen # "blocked" /\ log.newest = "blocked" /\ agent = "working"
<1>2. CASE again
  <2>1. Observe(mem, agent, FALSE, "loop")
    BY <1>2 DEF Unblock
  <2>2. Reading(mem, agent, FALSE, "loop")
    BY <1>0, <2>1, ObserveEffect
  <2> QED BY <1>1, <1>2, <2>2 DEF Reading, StepAfter, Recorded
<1>3. CASE ~again
  <2>1. mem' = mem
    BY <1>3 DEF Unblock
  <2>2. Goes("loop")
    BY <1>3 DEF Unblock
  <2> QED BY <1>0, <1>1, <2>1, <2>2, GoesType
<1> QED BY <1>2, <1>3

LEMMA HeldTurnsEffect ==
  ASSUME SInv, HeldTurns
  PROVE  /\ UNCHANGED <<world, log, stream, press, losses, ghost>>
         /\ AtLoop /\ list' \in Lists /\ list'.says = "none"
         /\ mem' \in Memories /\ step' \in LoopSteps /\ step'.record # "long" /\ step'.at = "loop"
         /\ \/ /\ live /\ Waits /\ list.says # "old" /\ (list.says = "failed" => list.missed)
               /\ \/ Reading([mem EXCEPT !.seen = "working"], agent, list.says \in {"rests", "failed"}, "loop")
                  \/ list.says \in {"rests", "failed"} /\ Reading(mem, agent, TRUE, "loop")
            \/ /\ step'.record = "" /\ mem'.turn = mem.turn /\ mem'.long = mem.long
               /\ mem'.seen \in {mem.seen, "idle"}
<1> DEFINE failed == list.says = "failed"
           rests == list.says \in {"rests", "failed"}
           over == ~Waits \/ ~live \/ list.says = "old" \/ (failed /\ ~list.missed)
           ends == mem.seen # "idle?" \/ ~rests \/ (log.start # None /\ ~failed /\ log.rested)
           now == [mem EXCEPT !.seen = "working"]
           idle == [mem EXCEPT !.seen = "idle"]
<1>0. mem \in Memories /\ log \in Logs /\ agent \in Statuses /\ list \in Lists
  BY DEF SInv, SignalsTypeOK, Lists
<1>1. /\ UNCHANGED <<world, log, stream, press, losses, ghost>>
      /\ AtLoop /\ list' = [says |-> "none", missed |-> Waits /\ failed /\ ~list.missed]
  BY DEF HeldTurns
<1>2. list' \in Lists /\ list'.says = "none"
  <2>1. (Waits /\ failed /\ ~list.missed) \in BOOLEAN
    BY <1>0 DEF Lists
  <2> HIDE DEF failed
  <2> QED BY <1>1, <2>1 DEF Lists
<1>3. now \in Memories /\ idle \in Memories /\ idle.turn = mem.turn /\ idle.long = mem.long /\ idle.seen = "idle"
  BY <1>0 DEF Memories, Statuses
<1>4. CASE over
  <2>1. mem' = mem
    BY <1>4 DEF HeldTurns
  <2>2. Goes("loop")
    BY <1>4 DEF HeldTurns
  <2> QED BY <1>0, <1>1, <1>2, <2>1, <2>2, GoesType
<1>5. CASE ~over /\ ends
  <2>1. Observe(now, agent, rests, "loop")
    BY <1>5 DEF HeldTurns
  <2>4. rests \in BOOLEAN /\ now \in Memories
    BY <1>3
  <2>2. Reading(now, agent, rests, "loop")
    <3> HIDE DEF now, rests
    <3> QED BY <1>0, <2>1, <2>4, ObserveEffect
  <2>3. mem' \in Memories /\ step' \in LoopSteps /\ step'.record # "long" /\ step'.at = "loop"
    BY <2>2 DEF Reading, StepAfter, Recorded
  <2> QED BY <1>1, <1>2, <1>5, <2>2, <2>3
<1>6. CASE ~over /\ ~ends /\ mem.pending
  <2>1. Observe(mem, agent, TRUE, "loop")
    BY <1>6 DEF HeldTurns
  <2>2. Reading(mem, agent, TRUE, "loop")
    BY <1>0, <2>1, ObserveEffect
  <2>3. mem' \in Memories /\ step' \in LoopSteps /\ step'.record # "long" /\ step'.at = "loop"
    BY <2>2 DEF Reading, StepAfter, Recorded
  <2> QED BY <1>1, <1>2, <1>6, <2>2, <2>3
<1>7. CASE ~over /\ ~ends /\ ~mem.pending
  <2>1. mem' = idle
    BY <1>7 DEF HeldTurns
  <2>2. Goes("loop")
    BY <1>7 DEF HeldTurns
  <2> QED BY <1>1, <1>2, <1>3, <2>1, <2>2, GoesType
<1> QED BY <1>4, <1>5, <1>6, <1>7

\* The loop records what it read, in the transaction that looks whether the
\* attempt is live.
RecordedKind == IF step.record = "quiet" THEN QuietKind ELSE step.record

LEMMA RecordEffect ==
  ASSUME SInv, Record
  PROVE  /\ UNCHANGED <<world, stream, list, losses>>
         /\ step.record # "" /\ step' \in LoopSteps /\ step'.at = step.at /\ step'.record = ""
         /\ press' \in Presses /\ log' \in Logs /\ mem' \in Memories /\ ghost' \in Ghosts
         /\ mem'.turn = mem.turn /\ mem'.seen \in {mem.seen, "blocked"}
         /\ ghost'.rested = ghost.rested
         /\ \/ UNCHANGED <<log, mem>> /\ ghost'.longs = ghost.longs
            \/ /\ live /\ log'.newest = RecordedKind
               /\ mem'.long = (mem.long \/ step.record = "long")
               /\ (step.record # "long" /\ RecordedKind \notin TurnEnds /\ log.long => log'.long)
               /\ (step.record = "long" => log'.long)
               /\ ghost'.longs = IF step.record = "long" /\ stream.events = <<>> THEN ghost.longs + 1
                                 ELSE IF RecordedKind \in TurnEnds THEN 0 ELSE ghost.longs
<1> DEFINE kind == RecordedKind
           emitted == Emitted(log, kind)
           ends == kind \in {"quiet", "idle", "limited"}
           longs == IF step.record = "long" /\ stream.events = <<>> THEN ghost.longs + 1
                    ELSE IF kind \in TurnEnds THEN 0 ELSE ghost.longs
<1>0. /\ mem \in Memories /\ log \in Logs /\ ghost \in Ghosts /\ press \in Presses /\ step \in LoopSteps
      /\ ghost.longs \in Nat
  BY DEF SInv, SignalsTypeOK, Ghosts, Presses
<1>1. UNCHANGED <<world, stream, list, losses>> /\ step.record # ""
  BY DEF Record
<1>2. step' \in LoopSteps /\ step'.at = step.at /\ step'.record = ""
  <2>1. step' = [at |-> step.at, record |-> ""]
    BY DEF Record, Goes
  <2>2. step.at \in {"loop", "long", "unblock", "approve", "deny"}
    BY <1>0 DEF LoopSteps
  <2> QED BY <2>1, <2>2 DEF LoopSteps
<1>3. press' \in Presses
  <2> DEFINE who == IF press.who = "watch" THEN "none" ELSE press.who
  <2>1. who \in {"none", "keys", "watch"}
    BY <1>0 DEF Presses
  <2>2. press' = [press EXCEPT !.who = who]
    BY DEF Record
  <2> HIDE DEF who
  <2> QED BY <1>0, <2>1, <2>2 DEF Presses
<1>4. CASE step.record = "nothing"
  <2>1. UNCHANGED <<log, mem>> /\ ghost' = [ghost EXCEPT !.ended = FALSE]
    BY <1>4 DEF Record
  <2>2. ghost' \in Ghosts /\ ghost'.longs = ghost.longs /\ ghost'.rested = ghost.rested
    BY <1>0, <2>1 DEF Ghosts
  <2> QED BY <1>0, <1>1, <1>2, <1>3, <2>1, <2>2
<1>5. CASE step.record # "nothing" /\ ~live
  <2>1. UNCHANGED <<log, mem, ghost>>
    BY <1>5 DEF Record
  <2> QED BY <1>0, <1>1, <1>2, <1>3, <2>1
<1>6. CASE step.record # "nothing" /\ live
  <2>1. /\ log' = [emitted EXCEPT !.limit = @ \/ kind = "limited"]
        /\ mem' = CASE kind = "blocked" -> [mem EXCEPT !.seen = "blocked"]
                    [] kind = "long" -> [mem EXCEPT !.long = TRUE]
                    [] OTHER -> mem
        /\ ghost' = [ghost EXCEPT !.ended = @ /\ kind \notin {"quiet", "idle", "limited"},
                                  !.asked = @ /\ kind \notin TurnEnds,
                                  !.late = @ \/ (kind = "long" /\ agent = "blocked"),
                                  !.longs = CASE kind = "long" /\ stream.events = <<>> -> @ + 1
                                              [] kind \in TurnEnds -> 0
                                              [] OTHER -> @]
    BY <1>6 DEF Record, RecordedKind
  <2>2. kind \in Kinds /\ (kind = "long" <=> step.record = "long")
    BY <1>0, <1>1, <1>6 DEF RecordedKind, QuietKind, LoopSteps, Kinds, TurnEnds, Inputs
  <2>3. /\ emitted \in Logs /\ emitted.newest = kind
        /\ (kind \notin TurnEnds /\ log.long => emitted.long)
        /\ (kind = "long" => emitted.long)
    BY <1>0, <2>2, EmittedEffect
  <2>4. /\ log' \in Logs /\ log'.newest = kind
        /\ (kind \notin TurnEnds /\ log.long => log'.long)
        /\ (kind = "long" => log'.long)
    <3> DEFINE limit == emitted.limit \/ kind = "limited"
    <3>1. limit \in BOOLEAN
      BY <2>3 DEF Logs
    <3>2. log' = [emitted EXCEPT !.limit = limit]
      BY <2>1
    <3> HIDE DEF limit, emitted
    <3>3. log' \in Logs /\ log'.newest = emitted.newest /\ log'.long = emitted.long
      BY <2>3, <3>1, <3>2 DEF Logs
    <3> QED BY <2>3, <3>3
  <2>5. /\ mem' \in Memories /\ mem'.turn = mem.turn /\ mem'.seen \in {mem.seen, "blocked"}
        /\ mem'.long = (mem.long \/ step.record = "long")
    <3>1. CASE kind = "blocked"
      BY <1>0, <2>1, <2>2, <3>1 DEF Memories, Statuses
    <3>2. CASE kind = "long"
      BY <1>0, <2>1, <2>2, <3>2 DEF Memories
    <3>3. CASE kind # "blocked" /\ kind # "long"
      BY <1>0, <2>1, <2>2, <3>3 DEF Memories
    <3> QED BY <3>1, <3>2, <3>3
  <2>6. ghost' \in Ghosts /\ ghost'.rested = ghost.rested /\ ghost'.longs = longs
    <3> DEFINE ended == ghost.ended /\ kind \notin {"quiet", "idle", "limited"}
               asked == ghost.asked /\ kind \notin TurnEnds
               late == ghost.late \/ (kind = "long" /\ agent = "blocked")
    <3>1. ended \in BOOLEAN /\ asked \in BOOLEAN /\ late \in BOOLEAN
      BY <1>0 DEF Ghosts
    <3>2. longs \in Nat
      BY <1>0
    <3>3. longs = CASE kind = "long" /\ stream.events = <<>> -> ghost.longs + 1
                    [] kind \in TurnEnds -> 0
                    [] OTHER -> ghost.longs
      BY <2>2 DEF TurnEnds
    <3> HIDE DEF longs
    <3>4. ghost' = [ghost EXCEPT !.ended = ended, !.asked = asked, !.late = late, !.longs = longs]
      BY <2>1, <3>3
    <3> HIDE DEF ended, asked, late
    <3> QED BY <1>0, <3>1, <3>2, <3>4 DEF Ghosts
  <2> QED BY <1>1, <1>2, <1>3, <1>6, <2>2, <2>4, <2>5, <2>6
<1> QED BY <1>4, <1>5, <1>6

\* A stream that ends has nothing queued.
LEMMA CutEffect ==
  ASSUME SInv, stream' = Cut, UNCHANGED agent
  PROVE  stream' \in Streams /\ Len(stream'.events) <= MaxQueue /\ Queue' /\ stream'.state = "none" /\ stream'.events = <<>>
  BY BoundsAssumption, EmptySeq DEF Cut, Streams, Queue

\* What a read that fails leaves.
LEMMA ReadFailsEffect ==
  ASSUME SInv, ReadFails
  PROVE  /\ UNCHANGED <<world, log, list, press, ghost>> /\ losses' \in 0 .. MaxLosses /\ losses' > 0
         /\ stream.state = "following" /\ live
         /\ mem' \in Memories /\ mem'.turn = None /\ step' \in LoopSteps /\ step'.at # "deny" /\ step'.record \in {"", "blocked"}
         /\ \/ stream' = Cut /\ stream.events # <<>>
            \/ stream' = stream /\ agent = "blocked" /\ mem'.seen = "blocked"
<1>0. mem \in Memories
  BY DEF SInv, SignalsTypeOK
<1>1. UNCHANGED <<world, log, list, press, ghost>> /\ losses' \in 0 .. MaxLosses /\ live
  BY CountTypes DEF ReadFails
<1>4. losses' > 0
  BY DEF ReadFails, SInv, SignalsTypeOK
<1>2. CASE AtLoop /\ stream.events # <<>> /\ mem' = [Turned(mem, "done") EXCEPT !.seen = "done"] /\ stream' = Cut /\ Goes("loop")
  <2>1. mem' \in Memories /\ mem'.turn = None
    <3>1. Turned(mem, "done") \in Memories /\ Turned(mem, "done").turn = None
      BY ZenonT(40), <1>0, TurnedEffect DEF Statuses, Turned, Memories
    <3> QED BY <1>2, <3>1 DEF Memories, Statuses
  <2> QED BY <1>1, <1>2, <1>4, <2>1, GoesType DEF AtLoop
<1>3. CASE AtLoop /\ agent = "blocked" /\ mem' = [Turned(mem, "blocked") EXCEPT !.seen = "blocked"] /\ Records("blocked", "long") /\ UNCHANGED stream
  <2>1. mem' \in Memories /\ mem'.turn = None /\ mem'.seen = "blocked"
    <3>1. Turned(mem, "blocked") \in Memories /\ Turned(mem, "blocked").turn = None
      BY ZenonT(40), <1>0, TurnedEffect DEF Statuses, Turned, Memories
    <3> QED BY <1>3, <3>1 DEF Memories, Statuses
  <2>2. step' \in LoopSteps /\ step'.at = "long" /\ step'.record = "blocked"
    BY <1>3 DEF Records, LoopSteps
  <2> QED BY <1>1, <1>3, <1>4, <2>1, <2>2 DEF AtLoop
<1> QED BY <1>2, <1>3 DEF ReadFails

\* Steps of the watcher leave the pane alone.
LEMMA LoopTypes ==
  ASSUME SInv, Subscribe \/ CatchUp \/ Record \/ BeginTick \/ LongTurns \/ Unblock \/ Approve \/ Handle \/ List \/ HeldTurns \/ Loss
  PROVE  SInv'
<1>0. /\ SignalsTypeOK /\ Queue /\ log \in Logs /\ ghost \in Ghosts /\ press \in Presses /\ mem \in Memories
      /\ step \in LoopSteps /\ list \in Lists /\ stream \in Streams /\ Len(stream.events) <= MaxQueue
  BY DEF SInv, SignalsTypeOK, Ghosts, Presses, Lists
<1>1. UNCHANGED world
  BY DEF Subscribe, CatchUp, Record, BeginTick, LongTurns, Unblock, Approve, Handle, List,
     HeldTurns, Loss, Drop,
         ReadFails, Kill, ListFails
<1>2. ASSUME stream' \in Streams, Len(stream'.events) <= MaxQueue, Queue', log' \in Logs, mem' \in Memories,
             step' \in LoopSteps, list' \in Lists, press' \in Presses, ghost' \in Ghosts, losses' \in 0 .. MaxLosses
      PROVE  SInv'
  BY <1>0, <1>1, <1>2 DEF SInv, SignalsTypeOK, world, Lists, Presses, Ghosts
<1>3. losses \in 0 .. MaxLosses /\ Outdated \in Lists
  BY <1>0, OutdatedType DEF SignalsTypeOK
<1>4. stream' = stream => stream' \in Streams /\ Len(stream'.events) <= MaxQueue /\ Queue'
  BY <1>0, <1>1 DEF Queue, world
<1>5. \A s \in {"open", "following"} : stream' = [stream EXCEPT !.state = s]
        => stream' \in Streams /\ Len(stream'.events) <= MaxQueue /\ Queue'
  <2> SUFFICES ASSUME NEW s \in {"open", "following"}, stream' = [stream EXCEPT !.state = s]
               PROVE  stream' \in Streams /\ Len(stream'.events) <= MaxQueue /\ Queue'
    OBVIOUS
  <2>1. stream' \in Streams /\ stream'.events = stream.events /\ stream'.state = s
    BY <1>0 DEF Streams
  <2> QED BY <1>0, <1>1, <2>1 DEF Queue, world
<1>6. CASE Subscribe
  <2>1. step' \in LoopSteps
    BY <1>0, <1>6 DEF Subscribe, watcher
  <2>2. stream' = [stream EXCEPT !.state = "open"] /\ UNCHANGED <<log, mem, list, press, losses, ghost>>
    BY <1>6 DEF Subscribe, watcher
  <2> QED BY <1>0, <1>2, <1>3, <1>5, <2>1, <2>2
<1>7. CASE CatchUp
  BY <1>0, <1>2, <1>3, <1>5, <1>7, CatchUpEffect
<1>8. CASE Record
  BY <1>0, <1>2, <1>3, <1>4, <1>8, RecordEffect
<1>9. CASE BeginTick
  <2>1. list' \in Lists
    BY <1>0, <1>3, <1>9 DEF BeginTick, Relisted
  <2> QED BY <1>0, <1>2, <1>3, <1>4, <1>9, <2>1, BeginTickEffect
<1>10. CASE LongTurns
  BY <1>0, <1>2, <1>3, <1>4, <1>10, LongTurnsEffect
<1>11. CASE Unblock
  BY <1>0, <1>2, <1>3, <1>4, <1>11, UnblockEffect
<1>12. CASE Approve
  <2>1. UNCHANGED <<log, stream, mem, list, losses, ghost>>
    BY <1>12 DEF Approve
  <2>2. press' \in Presses
    <3>1. press' = press \/ press' = [who |-> "watch", fresh |-> TRUE]
      BY <1>12 DEF Approve
    <3>2. [who |-> "watch", fresh |-> TRUE] \in Presses
      BY DEF Presses
    <3> QED BY <1>0, <3>1, <3>2
  <2>3. step' \in LoopSteps
    <3>1. \E at \in {"loop", "deny"}, r \in {"", "blocked"} : step' = [at |-> at, record |-> r]
      BY <1>12 DEF Approve, Goes, Records
    <3>2. PICK at \in {"loop", "deny"}, r \in {"", "blocked"} : step' = [at |-> at, record |-> r]
      BY <3>1
    <3>3. at \in {"loop", "long", "unblock", "approve", "deny"}
      OBVIOUS
    <3>4. r \in {"", "nothing", "working", "quiet", "long", "denied", "blocked", "limited"}
      OBVIOUS
    <3> QED BY <3>2, <3>3, <3>4 DEF LoopSteps
  <2> QED BY <1>0, <1>2, <1>3, <1>4, <2>1, <2>2, <2>3
<1>13. CASE Handle
  <2>1. list' \in Lists
    BY <1>0, <1>3, <1>13 DEF Handle, Relisted
  <2>2. stream.events # <<>> /\ stream' = [stream EXCEPT !.events = Tail(stream.events)] /\ stream.state = "following"
    BY <1>13, HandleEffect DEF AtLoop
  <2>3. /\ stream' \in Streams /\ Len(stream'.events) <= MaxQueue /\ stream'.state = stream.state
        /\ stream'.events # <<>> => stream'.events[Len(stream'.events)] = stream.events[Len(stream.events)]
    BY <1>0, <2>2, ReadEffect
  <2>4. Queue'
    BY <1>0, <1>1, <2>2, <2>3 DEF Queue, world
  <2> QED BY <1>0, <1>2, <1>3, <1>13, <2>1, <2>3, <2>4, HandleEffect
<1>14. CASE List
  <2>1. UNCHANGED <<log, stream, mem, step, press, losses, ghost>>
    BY <1>14 DEF List
  <2>2. list' \in Lists
    BY <1>0, <1>14 DEF List, Lists
  <2> QED BY <1>0, <1>2, <1>3, <1>4, <2>1, <2>2
<1>15. CASE HeldTurns
  BY <1>0, <1>2, <1>3, <1>4, <1>15, HeldTurnsEffect
<1>16. CASE Drop
  <2>1. stream' = Cut /\ UNCHANGED <<log, mem, list, press, ghost>> /\ Goes("loop") /\ losses < MaxLosses /\ losses' = losses + 1
    BY <1>16 DEF Drop
  <2> QED BY <1>0, <1>1, <1>2, <2>1, CutEffect, GoesType, CountTypes DEF world
<1>17. CASE ReadFails
  BY <1>0, <1>1, <1>2, <1>4, <1>17, CutEffect, ReadFailsEffect DEF world
<1>18. CASE Kill
  <2>1. /\ stream' = Cut /\ mem' = NoMemory /\ list' = NoList /\ Goes("loop") /\ losses < MaxLosses /\ losses' = losses + 1
        /\ press' = IF press.who = "watch" THEN [who |-> "none", fresh |-> FALSE] ELSE press
        /\ UNCHANGED <<log, ghost>>
    BY <1>18 DEF Kill
  <2>2. mem' \in Memories /\ list' \in Lists /\ press' \in Presses
    BY <1>0, <2>1, AgeFacts DEF NoMemory, NoList, Memories, Lists, Presses
  <2> QED BY <1>0, <1>1, <1>2, <2>1, <2>2, CutEffect, GoesType, CountTypes DEF world
<1>19. CASE ListFails
  <2>1. UNCHANGED <<log, stream, mem, step, press, ghost>> /\ losses' \in 0 .. MaxLosses
    BY <1>19, CountTypes DEF ListFails
  <2>2. list' \in Lists
    BY <1>0, <1>19 DEF ListFails, Lists
  <2> QED BY <1>0, <1>2, <1>4, <2>1, <2>2
<1> QED BY <1>6, <1>7, <1>8, <1>9, <1>10, <1>11, <1>12, <1>13, <1>14, <1>15, <1>16, <1>17, <1>18,
   <1>19 DEF Loss

LEMMA SInit == SignalsInit => SInv
<1> SUFFICES ASSUME SignalsInit PROVE SInv
  OBVIOUS
<1>1. log \in Logs
  <2>1. log = [newest |-> "running", age |-> 0, start |-> 0, launched |-> TRUE, long |-> FALSE,
               done |-> FALSE, limit |-> FALSE, rested |-> FALSE]
    BY DEF SignalsInit
  <2>2. "running" \in Kinds
    BY DEF Kinds
  <2>3. 0 \in 0 .. Long
    BY AgesAssumption
  <2> QED BY <2>1, <2>2, <2>3, AgeFacts DEF Logs
<1>2. stream \in Streams /\ Len(stream.events) <= MaxQueue /\ Queue
  <2>1. <<>> \in Seq(Statuses) /\ Len(<<>>) = 0 /\ MaxQueue \in Nat
    BY BoundsAssumption, EmptySeq
  <2>2. stream = [state |-> "none", events |-> <<>>, cut |-> FALSE]
    BY DEF SignalsInit
  <2>3. stream \in Streams
    BY <2>1, <2>2 DEF Streams
  <2>4. stream.events = <<>> /\ stream.state = "none"
    BY <2>2
  <2> QED BY <2>1, <2>3, <2>4 DEF Queue
<1>3. mem \in Memories /\ step \in LoopSteps /\ list \in Lists /\ press \in Presses
  BY AgeFacts DEF SignalsInit, NoMemory, NoList, Memories, LoopSteps, Lists, Presses
<1>4. busy \in BOOLEAN
  BY Zenon DEF SignalsInit
<1>5. ghost \in Ghosts
  <2> DEFINE rested == ~busy
  <2>1. rested \in BOOLEAN
    BY <1>4
  <2>2. ghost = [ended |-> FALSE, asked |-> FALSE, longs |-> 0, shown |-> None, keys |-> None, rested |-> rested, late |-> FALSE]
    BY DEF SignalsInit
  <2> HIDE DEF rested
  <2> QED BY <2>1, <2>2, AgeFacts DEF Ghosts
<1>6. deeds \in 0 .. MaxDeeds /\ losses \in 0 .. MaxLosses
  <2>1. MaxDeeds \in Nat /\ MaxLosses \in Nat
    BY BoundsAssumption
  <2>2. deeds = 0 /\ losses = 0
    BY DEF SignalsInit
  <2> QED BY <2>1, <2>2
<1>7. sort \in Sorts /\ live \in BOOLEAN /\ sending \in BOOLEAN /\ agent \in Statuses /\ screen \in Screens
  BY DEF SignalsInit, Statuses, Screens
<1> QED BY <1>1, <1>2, <1>3, <1>4, <1>5, <1>6, <1>7 DEF SInv, SignalsTypeOK, Lists, Presses,
   Ghosts, Screens

LEMMA SStep == SInv /\ [SignalsNext]_tVars => SInv'
<1> SUFFICES ASSUME SInv, [SignalsNext]_tVars PROVE SInv'
  OBVIOUS
<1>1. CASE UNCHANGED tVars
  BY <1>1 DEF SInv, SignalsTypeOK, Queue, tVars
<1>2. CASE SignalsNext
  BY <1>2, PaneTypes, NoteTypes, TickTypes, PressTypes, LoopTypes DEF SignalsNext, Worker,
     Operator, Loop
<1> QED BY <1>1, <1>2

\* The types of the state, and what Luvus last told a subscriber is what it reads.
THEOREM TypeCorrect == SignalsSpec => []SignalsTypeOK
<1>1. SignalsSpec => []SInv
  BY SInit, SStep, PTL DEF SignalsSpec
<1>2. SInv => SignalsTypeOK
  BY DEF SInv
<1> QED BY <1>1, <1>2, PTL

-----------------------------------------------------------------------------
(* A turn is reported long once *)

\* What the loop will record as long is a turn whose clock runs; a deny is
\* about to be pressed only for a block, which ends the turn for the clock.
\* Once a turn was reported the log says so, and so does the memory that has a
\* clock; the change to working that began it is read, and while it lasts the
\* loop does not start the clock anew.
Reads == stream.state = "following" \/ step.at \in {"long", "unblock"}

Longs ==
  /\ ghost.longs <= 1
  /\ step.record = "long" => mem.turn # None /\ step.at # "deny"
  /\ step.at = "deny" => ghost.longs = 0
  /\ log.newest \in {"running", "blocked"} => ghost.longs = 0
  /\ ghost.longs = 1 =>
       /\ log.long /\ step.record # "long"
       /\ mem.turn # None => mem.long
       /\ ~UnreadIn(stream, "working")
       /\ agent = "working" => stream.events = <<>> /\ (Reads /\ live => mem.turn # None)

LEMMA NothingUnread == ASSUME NEW s, s.events = <<>> PROVE \A x : ~UnreadIn(s, x)
<1>1. Len(s.events) = 0
  BY EmptySeq
<1> QED BY <1>1 DEF UnreadIn

LEMMA LongsReset ==
  ASSUME step'.record # "long", ghost'.longs = 0 PROVE Longs'
<1>1. 0 <= 1 /\ 0 # 1
  OBVIOUS
<1> QED BY <1>1, Zenon DEF Longs, Reads

LEMMA LongsFresh ==
  ASSUME SInv, Longs, UNCHANGED <<step, mem>>, ghost'.longs = 0 PROVE Longs'
  BY DEF Longs, Reads

\* Steps that leave the watcher's memory and the log alone, or only add to it.
LEMMA LongsPane ==
  ASSUME SInv, Longs, TurnBegins \/ EndTurn \/ Ask \/ NextDialog \/ ScreenOnly \/ Send \/ Keys PROVE Longs'
<1>1. UNCHANGED <<step, mem>>
  BY DEF TurnBegins, EndTurn, Ask, NextDialog, ScreenOnly, Send, Keys, Pane, watcher
<1>2. CASE TurnBegins \/ Send \/ Keys
  <2>1. ghost \in Ghosts
    BY DEF SInv, SignalsTypeOK, Ghosts
  <2>2. ghost'.longs = 0
    BY <1>2, <2>1, BegunType DEF TurnBegins, Send, Keys, Ghosts
  <2> QED BY <1>1, <2>2, LongsFresh
<1>3. CASE EndTurn \/ Ask \/ NextDialog \/ ScreenOnly
  <2>1. PICK status \in Statuses \ {"working"} : \E text \in Screens : Pane(status, text)
    <3>1. screen \in Screens
      BY DEF SInv, SignalsTypeOK, Screens
    <3>2. CASE EndTurn
      BY <3>2 DEF EndTurn, Statuses, Screens
    <3>3. CASE Ask
      BY <3>3 DEF Ask, Statuses, Screens
    <3>4. CASE NextDialog
      BY <3>4 DEF NextDialog, Statuses, Screens
    <3>5. CASE ScreenOnly
      BY <3>1, <3>5 DEF ScreenOnly, Statuses
    <3> QED BY <1>3, <3>2, <3>3, <3>4, <3>5
  <2>2. Changes(status)
    BY <2>1, PaneEffect
  <2>3. agent' # "working" /\ (UnreadIn(stream', "working") => UnreadIn(stream, "working"))
    BY <2>1, <2>2, ChangeEffect DEF Changes, Statuses
  <2>4. log'.newest = log.newest /\ log'.long = log.long /\ ghost'.longs = ghost.longs
    <3>0. log \in Logs /\ ghost \in Ghosts
      BY DEF SInv, SignalsTypeOK, Ghosts
    <3>1. CASE EndTurn
      <4>1. PICK text, still :
              /\ log' = [log EXCEPT !.limit = @ /\ text # "limit", !.rested = @ \/ ~still]
              /\ ghost' = [ghost EXCEPT !.ended = TRUE, !.rested = ~still]
        BY <3>1 DEF EndTurn
      <4> QED BY <3>0, <4>1 DEF Logs, Ghosts
    <3>2. CASE Ask \/ NextDialog \/ ScreenOnly
      BY <3>0, <3>2 DEF Ask, NextDialog, ScreenOnly, Ghosts
    <3> QED BY <1>3, <3>1, <3>2
  <2> QED BY <1>1, <2>3, <2>4 DEF Longs, Reads
<1> QED BY <1>2, <1>3

LEMMA LongsNote ==
  ASSUME SInv, Longs, Rest \/ LaunchNote \/ (\E done \in BOOLEAN : Report(done)) \/ End \/ NoteSent \/ NoteKeys
  PROVE  Longs'
<1>0. log \in Logs /\ ghost \in Ghosts
  BY DEF SInv, SignalsTypeOK, Ghosts
<1>1. UNCHANGED <<step, mem, stream, agent>> /\ (live' => live)
  BY DEF Rest, LaunchNote, Report, End, NoteSent, NoteKeys, world, watcher
<1>2. CASE Rest
  <2>1. log'.newest = log.newest /\ log'.long = log.long /\ ghost'.longs = ghost.longs
    BY <1>0, <1>2 DEF Rest, Session, Logs, Ghosts
  <2> QED BY <1>1, <2>1 DEF Longs, Reads
<1>3. CASE LaunchNote \/ NoteSent
  <2>1. ghost'.longs = 0
    BY <1>0, <1>3 DEF LaunchNote, NoteSent, Longs, Reads, Ghosts
  <2> QED BY <1>1, <2>1, LongsFresh
<1>4. CASE (\E done \in BOOLEAN : Report(done)) \/ End \/ NoteKeys
  <2>1. PICK kind \in {"reported", "ended", "keys"} :
          log'.newest = Emitted(log, kind).newest /\ log'.long = Emitted(log, kind).long
    <3>1. Emitted(log, "reported") \in Logs
      BY <1>0, EmittedEffect DEF Kinds
    <3> QED BY <1>4, <3>1 DEF Report, End, NoteKeys, Logs
  <2>2. Emitted(log, kind).newest = kind /\ (log.long => Emitted(log, kind).long)
    BY <1>0, EmittedEffect DEF Kinds, Inputs, TurnEnds
  <2>3. ghost'.longs = ghost.longs
    BY <1>0, <1>4 DEF Report, End, NoteKeys, Ghosts
  <2> QED BY <1>1, <2>1, <2>2, <2>3 DEF Longs, Reads
<1> QED BY <1>2, <1>3, <1>4

LEMMA LongsTick == ASSUME SInv, Longs, Tick PROVE Longs'
<1>0. mem \in Memories /\ log \in Logs /\ ghost \in Ghosts
  BY DEF SInv, SignalsTypeOK, Ghosts
<1>1. UNCHANGED <<world, stream, step>>
  BY DEF Tick
<1>2. log'.newest = log.newest /\ log'.long = log.long
  BY <1>0 DEF Tick, Logs
<1>3. ghost'.longs = ghost.longs
  BY <1>0 DEF Tick, Ghosts
<1>4. mem'.long = mem.long /\ (mem'.turn = None <=> mem.turn = None)
  <2>1. mem'.long = mem.long /\ mem'.turn = Older(mem.turn) /\ mem.turn \in Ages
    BY <1>0 DEF Tick, Memories
  <2> QED BY <2>1, OlderType DEF Older
<1> QED BY <1>1, <1>2, <1>3, <1>4 DEF Longs, Reads, world

LEMMA LongsDeny == ASSUME SInv, Longs, Deny PROVE Longs'
<1>1. UNCHANGED <<log, mem>> /\ step.at = "deny"
  BY DEF Deny, StepAt
<1>2. ghost'.longs = 0
  <2>1. ghost.longs = 0 /\ ghost \in Ghosts
    BY <1>1 DEF Longs, Reads, SInv, SignalsTypeOK, Ghosts
  <2> QED BY <2>1 DEF Deny, Ghosts
<1>3. step'.record # "long"
  <2>1. Records("denied", "loop") \/ Goes("loop")
    BY DEF Deny
  <2> QED BY <2>1, RecordsType, GoesType
<1> QED BY <1>1, <1>2, <1>3 DEF Longs, Reads

\* What a reading makes of the clock of a turn that was reported.
LEMMA ClockKept ==
  ASSUME SInv, Longs, ghost.longs = 1, NEW m \in Memories, NEW status \in Statuses, NEW rests, NEW at,
         Reading(m, status, rests, at), m.turn # None => m.long, status = "working" => m.turn # None
  PROVE  (mem'.turn # None => mem'.long) /\ (status = "working" => mem'.turn # None)
  BY DEF Reading, TurnAfter, Longs, Reads

\* Steps of the watcher that record no long turn.
LEMMA LongsQuiet ==
  ASSUME SInv, Longs, UNCHANGED <<world, log>>, ghost'.longs = ghost.longs,
         step'.record # "long", step'.at # "deny",
         ghost.longs = 1 => /\ mem'.turn # None => mem'.long
                            /\ UnreadIn(stream', "working") => UnreadIn(stream, "working")
                            /\ agent = "working" => /\ stream'.events = stream.events
                                                    /\ Reads' /\ live => mem'.turn # None
  PROVE  Longs'
  BY DEF Longs, Reads, world

LEMMA LongsLoop ==
  ASSUME SInv, Longs, Subscribe \/ CatchUp \/ Handle \/ BeginTick \/ LongTurns \/ Unblock \/ HeldTurns PROVE Longs'
<1>0. /\ mem \in Memories /\ log \in Logs /\ agent \in Statuses /\ stream \in Streams /\ Len(stream.events) <= MaxQueue
  BY DEF SInv, SignalsTypeOK
<1>1. CASE Subscribe
  <2>1. UNCHANGED <<world, log, mem, ghost>> /\ step'.record = "" /\ step'.at = "loop"
    BY <1>1 DEF Subscribe, watcher, StepAt
  <2>2. stream'.state = "open" /\ stream'.events = stream.events
    BY <1>0, <1>1 DEF Subscribe, Streams
  <2> QED BY <2>1, <2>2, LongsQuiet DEF UnreadIn, Longs, Reads
<1>2. CASE CatchUp
  <2>1. stream'.events = stream.events
    BY <1>0, <1>2, CatchUpEffect DEF Streams
  <2>2. ASSUME ghost.longs = 1
        PROVE  (mem'.turn # None => mem'.long) /\ (agent = "working" /\ live => mem'.turn # None)
    <3>1. CASE Reading(Caught, agent, FALSE, "loop")
      <4>1. Caught.turn # None => Caught.long
        BY <2>2, CaughtEffect DEF Longs, Reads
      <4> QED BY <1>0, <2>2, <3>1, <4>1, ClockKept, CaughtEffect
    <3>2. CASE (live => agent # "working") /\ mem'.turn = mem.turn /\ mem'.long = mem.long
      BY <2>2, <3>2 DEF Longs, Reads
    <3> QED BY <1>2, <3>1, <3>2, CatchUpEffect
  <2> QED BY ZenonT(40), <1>2, <2>1, <2>2, CatchUpEffect, LongsQuiet DEF UnreadIn
<1>3. CASE Handle
  <2>0. stream.events # <<>> /\ stream' = [stream EXCEPT !.events = Tail(stream.events)]
    BY <1>3, HandleEffect
  <2>1. /\ Head(stream.events) \in Statuses /\ UnreadIn(stream, Head(stream.events))
        /\ UnreadIn(stream', "working") => UnreadIn(stream, "working")
    BY <1>0, <2>0, ReadEffect DEF Statuses
  <2>2. ASSUME ghost.longs = 1
        PROVE  (mem'.turn # None => mem'.long) /\ agent # "working"
    <3>1. agent # "working" /\ Head(stream.events) # "working" /\ (mem.turn # None => mem.long)
      BY <2>0, <2>1, <2>2 DEF Longs, Reads
    <3>2. CASE live
      BY <1>0, <1>3, <2>1, <2>2, <3>1, <3>2, ClockKept, HandleEffect
    <3>3. CASE ~live
      BY <1>3, <3>1, <3>3, HandleEffect
    <3> QED BY <3>1, <3>2, <3>3
  <2> QED BY <1>3, <2>1, <2>2, HandleEffect, LongsQuiet
<1>4. CASE BeginTick
  <2>1. ASSUME ghost.longs = 1
        PROVE  (mem'.turn # None => mem'.long) /\ (agent = "working" /\ live => mem'.turn # None)
    <3>1. (mem.turn # None => mem.long) /\ (agent = "working" /\ live => mem.turn # None)
      BY <1>4, <2>1, BeginTickEffect DEF Longs, Reads, AtLoop
    <3>2. CASE live /\ Reading(mem, agent, FALSE, "long")
      BY <1>0, <2>1, <3>1, <3>2, ClockKept
    <3>3. CASE mem'.turn = mem.turn /\ mem'.long = mem.long
      BY <3>1, <3>3
    <3> QED BY <1>4, <3>2, <3>3, BeginTickEffect
  <2> QED BY <1>4, <2>1, BeginTickEffect, LongsQuiet
<1>5. CASE LongTurns
  <2>1. CASE step'.record = ""
    <3>1. ASSUME ghost.longs = 1
          PROVE  (mem'.turn # None => mem'.long) /\ (agent = "working" /\ live => mem'.turn # None)
      <4>1. step.at = "long"
        BY <1>5 DEF LongTurns, StepAt
      <4>2. (mem.turn # None => mem.long) /\ (agent = "working" /\ live => mem.turn # None)
        <5>1. Reads
          BY <4>1 DEF Reads
        <5> QED BY <3>1, <5>1, Zenon DEF Longs
      <4> QED BY <1>5, <4>2, LongTurnsEffect
    <3> QED BY <1>5, <2>1, <3>1, LongTurnsEffect, LongsQuiet
  <2>2. CASE live /\ mem.turn # None /\ ~mem.long /\ step'.record = "long"
    BY <1>5, <2>2, LongTurnsEffect DEF Longs, Reads, world
  <2> QED BY <1>5, <2>1, <2>2, LongTurnsEffect
<1>6. CASE Unblock
  <2>1. ASSUME ghost.longs = 1
        PROVE  (mem'.turn # None => mem'.long) /\ (agent = "working" /\ live => mem'.turn # None)
    <3>1. (mem.turn # None => mem.long) /\ (agent = "working" /\ live => mem.turn # None)
      <4>1. step.at = "unblock"
        BY <1>6 DEF Unblock, StepAt
      <4>2. Reads
        BY <4>1 DEF Reads
      <4> QED BY <2>1, <4>2, Zenon DEF Longs
    <3>2. CASE live /\ Reading(mem, agent, FALSE, "loop")
      BY <1>0, <2>1, <3>1, <3>2, ClockKept
    <3>3. CASE mem' = mem
      BY <3>1, <3>3
    <3> QED BY <1>6, <3>2, <3>3, UnblockEffect
  <2> QED BY <1>6, <2>1, UnblockEffect, LongsQuiet
<1>7. CASE HeldTurns
  <2> DEFINE now == [mem EXCEPT !.seen = "working"]
  <2>1. ASSUME ghost.longs = 1
        PROVE  (mem'.turn # None => mem'.long) /\ (agent = "working" /\ live => mem'.turn # None)
    <3>1. (mem.turn # None => mem.long) /\ (agent = "working" /\ live => mem.turn # None)
      BY <1>7, <2>1, HeldTurnsEffect DEF Longs, Reads, AtLoop
    <3>2. now \in Memories /\ now.turn = mem.turn /\ now.long = mem.long
      BY <1>0 DEF Memories, Statuses
    <3>3. CASE live /\ Reading(now, agent, list.says \in {"rests", "failed"}, "loop")
      <4> HIDE DEF now
      <4> QED BY <1>0, <2>1, <3>1, <3>2, <3>3, ClockKept
    <3>4. CASE live /\ Reading(mem, agent, TRUE, "loop")
      BY <1>0, <2>1, <3>1, <3>4, ClockKept
    <3>5. CASE mem'.turn = mem.turn /\ mem'.long = mem.long
      BY <3>1, <3>5
    <3> QED BY <1>7, <3>3, <3>4, <3>5, HeldTurnsEffect
  <2> QED BY <1>7, <2>1, HeldTurnsEffect, LongsQuiet
<1> QED BY <1>1, <1>2, <1>3, <1>4, <1>5, <1>6, <1>7

LEMMA LongsRecord == ASSUME SInv, Longs, Record PROVE Longs'
<1>1. /\ UNCHANGED <<agent, live, stream>> /\ step'.record = "" /\ step'.at = step.at /\ mem'.turn = mem.turn
  BY RecordEffect DEF world
<1>2. CASE UNCHANGED <<log, mem>> /\ ghost'.longs = ghost.longs
  BY <1>1, <1>2 DEF Longs, Reads, UnreadIn
<1>3. CASE ~(UNCHANGED <<log, mem>> /\ ghost'.longs = ghost.longs)
  <2>0. ghost.longs \in Nat /\ ghost.longs <= 1 /\ (ghost.longs = 1 => step.record # "long") /\ step \in LoopSteps
    BY DEF SInv, SignalsTypeOK, Longs, Reads
  <2>1. mem'.long = (mem.long \/ step.record = "long")
    BY <1>3, RecordEffect
  <2>2. /\ log'.newest = RecordedKind /\ (step.record = "long" => log'.long)
        /\ (step.record # "long" /\ RecordedKind \notin TurnEnds /\ log.long => log'.long)
    BY <1>3, RecordEffect
  <2>3. ghost'.longs = IF step.record = "long" /\ stream.events = <<>> THEN ghost.longs + 1
                       ELSE IF RecordedKind \in TurnEnds THEN 0 ELSE ghost.longs
    BY <1>3, RecordEffect
  <2>4. CASE step.record = "long" /\ stream.events = <<>>
    <3>1. ghost'.longs = 1
      BY <2>0, <2>3, <2>4
    <3>2. RecordedKind = "long"
      BY <2>4 DEF RecordedKind
    <3>3. ~UnreadIn(stream', "working")
      BY <1>1, <2>4, NothingUnread
    <3>4. step.at # "deny" /\ mem.turn # None
      BY <2>4 DEF Longs, Reads
    <3>5. log'.newest = "long" /\ log'.long /\ mem'.long
      BY <2>1, <2>2, <2>4, <3>2
    <3>6. step'.record # "long" /\ agent' = agent
      BY <1>1
    <3>9. ghost'.longs <= 1
      BY <3>1
    <3>7. agent' = "working" => stream'.events = <<>> /\ mem'.turn # None
      BY <1>1, <2>4, <3>4
    <3>8. step'.at # "deny" /\ log'.newest \notin {"running", "blocked"}
      BY <1>1, <3>4, <3>5
    <3> QED BY <3>3, <3>5, <3>6, <3>7, <3>8, <3>9, Zenon DEF Longs, Reads
  <2>5. CASE step.record = "long" /\ stream.events # <<>>
    <3>1. RecordedKind = "long" /\ RecordedKind \notin TurnEnds
      BY <2>5 DEF RecordedKind, TurnEnds
    <3>2. ghost'.longs = 0
      BY <2>0, <2>3, <2>5, <3>1
    <3> QED BY <1>1, <3>2, LongsReset
  <2>6. CASE step.record # "long" /\ RecordedKind \in TurnEnds
    <3>1. ghost'.longs = 0
      BY <2>3, <2>6
    <3> QED BY <1>1, <3>1, LongsReset
  <2>7. CASE step.record # "long" /\ RecordedKind \notin TurnEnds
    <3>1. RecordedKind \notin {"running", "blocked"}
      BY <2>0, <2>7 DEF RecordedKind, QuietKind, LoopSteps, TurnEnds
    <3>2. ghost'.longs = ghost.longs
      BY <2>3, <2>7
    <3>3. (log.long => log'.long) /\ (mem.long => mem'.long) /\ log'.newest \notin {"running", "blocked"}
      BY <2>1, <2>2, <2>7, <3>1
    <3> QED BY <1>1, <3>2, <3>3 DEF Longs, Reads, UnreadIn
  <2> QED BY <2>4, <2>5, <2>6, <2>7
<1> QED BY <1>2, <1>3

LEMMA LongsApprove == ASSUME SInv, Longs, Approve PROVE Longs'
<1>1. UNCHANGED <<world, log, stream, mem, list, losses, ghost>> /\ StepAt("approve")
  BY DEF Approve
<1>2. step'.record # "long" /\ (step'.at = "deny" => log.newest = "blocked") /\ step'.at \in {"loop", "deny"}
  <2>1. CASE live /\ press.who = "none" /\ Due /\ screen = "dialog"
    <3>1. IF log.newest = "keys" THEN Records("blocked", "loop") ELSE Goes("deny")
      BY <2>1 DEF Approve
    <3>2. log.newest # "keys" => log.newest = "blocked"
      BY <2>1 DEF Due
    <3> QED BY <3>1, <3>2, RecordsType, GoesType
  <2>2. CASE ~(live /\ press.who = "none" /\ Due /\ screen = "dialog")
    <3>1. Goes("loop")
      BY <2>2 DEF Approve
    <3> QED BY <3>1, GoesType
  <2> QED BY <2>1, <2>2
<1> QED BY <1>1, <1>2 DEF Longs, Reads, world

LEMMA LongsLoss == ASSUME SInv, Longs, List \/ Loss PROVE Longs'
<1>0. mem \in Memories
  BY DEF SInv, SignalsTypeOK
<1>1. CASE List \/ ListFails
  BY <1>1 DEF List, ListFails, Longs, Reads, world
<1>2. CASE Drop
  <2>1. stream'.events = <<>> /\ stream'.state = "none" /\ ~UnreadIn(stream', "working")
    BY <1>2, NothingUnread DEF Drop, Cut
  <2>2. Goes("loop") /\ UNCHANGED <<world, log, mem, ghost>>
    BY <1>2 DEF Drop
  <2> QED BY <2>1, <2>2, GoesType DEF Longs, Reads, world
<1>3. CASE Kill
  <2>1. stream'.events = <<>> /\ stream'.state = "none" /\ ~UnreadIn(stream', "working")
    BY <1>3, NothingUnread DEF Kill, Cut
  <2>2. Goes("loop") /\ UNCHANGED <<world, log, ghost>> /\ mem'.turn = None
    BY <1>3 DEF Kill, NoMemory
  <2> QED BY <2>1, <2>2, GoesType DEF Longs, Reads, world
<1>4. CASE ReadFails
  <2>1. CASE stream' = Cut
    <3>1. stream'.events = <<>> /\ stream'.state = "none" /\ ~UnreadIn(stream', "working")
      BY <2>1, NothingUnread DEF Cut
    <3> QED BY <1>4, <3>1, ReadFailsEffect DEF Longs, Reads, world
  <2>2. CASE stream' = stream /\ agent = "blocked"
    BY <1>4, <2>2, ReadFailsEffect, LongsQuiet
  <2> QED BY <1>4, <2>1, <2>2, ReadFailsEffect
<1> QED BY <1>1, <1>2, <1>3, <1>4 DEF Loss

LEMMA LongsInit == SignalsInit => Longs
<1> SUFFICES ASSUME SignalsInit PROVE Longs
  OBVIOUS
<1>1. ghost.longs = 0
  BY DEF SignalsInit
<1>2. step.record = "" /\ step.at = "loop"
  BY DEF SignalsInit
<1>3. 0 <= 1 /\ 0 # 1 /\ "" # "long"
  OBVIOUS
<1> QED BY <1>1, <1>2, <1>3, Zenon DEF Longs, Reads

LEMMA LongsStep == SInv /\ Longs /\ [SignalsNext]_tVars => Longs'
<1> SUFFICES ASSUME SInv, Longs, [SignalsNext]_tVars PROVE Longs'
  OBVIOUS
<1>1. CASE UNCHANGED tVars
  BY <1>1 DEF Longs, Reads, tVars, UnreadIn
<1>2. CASE SignalsNext
  BY <1>2, LongsPane, LongsNote, LongsTick, LongsDeny, LongsLoop, LongsRecord, LongsApprove,
     LongsLoss
     DEF SignalsNext, Worker, Operator, Loop
<1> QED BY <1>1, <1>2

\* LongOnce of TurnSignals: a turn is reported long once, whatever became of
\* the stream, the watcher and the log meanwhile.
THEOREM LongReportedOnce == SignalsSpec => []LongOnce
<1>1. SignalsSpec => [](SInv /\ Longs)
  BY SInit, SStep, LongsInit, LongsStep, PTL DEF SignalsSpec
<1>2. Longs => LongOnce
  BY DEF Longs, LongOnce
<1> QED BY <1>1, <1>2, PTL

-----------------------------------------------------------------------------
(* An attempt that ended is left alone *)

\* What a step writes into the log while the attempt is over.
LEMMA EndedStep ==
  ASSUME SInv, SignalsNext, ~live PROVE log'.newest \in {log.newest, "sent", "keys"}
<1>0. log \in Logs
  BY DEF SInv, SignalsTypeOK
<1>1. CASE TurnBegins \/ EndTurn \/ Ask \/ NextDialog \/ ScreenOnly \/ Send \/ Keys \/ Rest \/ LaunchNote \/ End
           \/ \E done \in BOOLEAN : Report(done)
  BY <1>1 DEF TurnBegins, EndTurn, Ask, NextDialog, ScreenOnly, Send, Keys, Rest, LaunchNote, End,
     Report, Move
<1>2. CASE NoteSent \/ NoteKeys
  BY <1>0, <1>2, EmittedEffect DEF NoteSent, NoteKeys, Kinds, Inputs
<1>3. CASE Tick
  BY <1>0, <1>3 DEF Tick, Logs
<1>4. CASE Record
  BY <1>4, RecordEffect
<1>5. CASE Subscribe \/ CatchUp \/ BeginTick \/ LongTurns \/ Unblock \/ Approve \/ Deny \/ Handle \/ List \/ HeldTurns \/ Loss
  BY <1>5 DEF Subscribe, CatchUp, BeginTick, LongTurns, Unblock, Approve, Deny, Handle, List,
     HeldTurns,
              Loss, Drop, ReadFails, Kill, ListFails
<1> QED BY <1>1, <1>2, <1>3, <1>4, <1>5 DEF SignalsNext, Worker, Operator, Loop

\* EndedSilent of TurnSignals: the watcher writes nothing about an attempt that
\* ended, wherever its loop was when it did.
THEOREM EndedLeftAlone == SignalsSpec => EndedSilent
<1>1. SInv /\ [SignalsNext]_tVars => [~live /\ log'.newest # log.newest => log'.newest \in {"sent", "keys"}]_tVars
  BY EndedStep DEF tVars
<1>2. SignalsSpec => []SInv
  BY SInit, SStep, PTL DEF SignalsSpec
<1> QED BY <1>1, <1>2, SInit, PTL DEF SignalsSpec, EndedSilent

-----------------------------------------------------------------------------
(* A held turn of opencode ends only at a rest *)

\* A session that is not busy was seen to rest; a listing that failed cost a
\* loss.  While a turn waits for a listing, a turn the loop has not read of
\* waits in the stream, and a listing that says rests speaks of the turn that
\* is waiting, or of one before a turn the loop has not read of.
Holding ==
  /\ busy \/ ghost.rested
  /\ list.says = "failed" => losses > 0
  /\ live /\ stream.state = "following" /\ mem.seen \in {"held", "idle?"} =>
       /\ agent = "working" => UnreadIn(stream, "working")
       /\ list.says = "rests" => ghost.rested \/ UnreadIn(stream, "working")

\* A change of the pane is told before a turn that waits can be mistaken for it.
LEMMA HoldingPane ==
  ASSUME SInv, Holding, NEW status \in Statuses, Changes(status), UNCHANGED <<mem, list, losses, live>>,
         busy' \/ ghost'.rested,
         ghost.rested => ghost'.rested \/ agent = "working" \/ (status # agent /\ status = "working")
  PROVE  Holding'
<1>0. "working" \in Statuses /\ agent' = status
  BY DEF Statuses, Changes
<1>1. ASSUME live, stream'.state = "following", mem.seen \in {"held", "idle?"}
      PROVE  /\ agent' = "working" => UnreadIn(stream', "working")
             /\ list.says = "rests" => ghost'.rested \/ UnreadIn(stream', "working")
  <2>1. stream.state = "following" /\ (status # agent => UnreadIn(stream', status))
    BY <1>1, ChangeEffect
  <2>2. UnreadIn(stream, "working") => UnreadIn(stream', "working")
    BY <1>0, <1>1, ChangeEffect
  <2>3. /\ agent = "working" => UnreadIn(stream, "working")
        /\ list.says = "rests" => ghost.rested \/ UnreadIn(stream, "working")
    BY <1>1, <2>1, Zenon DEF Holding
  <2> QED BY <1>0, <2>1, <2>2, <2>3, Zenon
<1> QED BY <1>1, Zenon DEF Holding

LEMMA HoldingWorker ==
  ASSUME SInv, Holding, sort = "opencode",
         TurnBegins \/ EndTurn \/ Ask \/ NextDialog \/ ScreenOnly \/ Send \/ Keys \/ Deny
  PROVE  Holding'
<1>0. ghost \in Ghosts /\ screen \in Screens
  BY DEF SInv, SignalsTypeOK, Ghosts, Screens
<1>1. ASSUME NEW status \in Statuses, NEW text \in Screens, Pane(status, text)
      PROVE  Changes(status) /\ UNCHANGED <<mem, list, losses, live>>
  BY <1>1, PaneEffect
<1>2. CASE TurnBegins \/ Send
  <2>1. Pane("working", "output") /\ Session(TRUE) /\ agent # "working"
    BY <1>2 DEF TurnBegins, Send
  <2>2. busy' = TRUE
    BY <2>1 DEF Session
  <2> QED BY <1>1, <2>1, <2>2, HoldingPane DEF Statuses, Screens
<1>3. CASE EndTurn
  <2>1. PICK status \in {"idle", "done"}, text \in {"prompt", "limit"}, still \in BOOLEAN :
          /\ Pane(status, text) /\ busy' = still
          /\ ghost' = [ghost EXCEPT !.ended = TRUE, !.rested = ~still]
    BY <1>3 DEF EndTurn
  <2>2. (ghost'.rested <=> ~still) /\ agent = "working"
    BY <1>0, <1>3, <2>1 DEF EndTurn, Ghosts
  <2>3. busy' \/ ghost'.rested
    BY <2>1, <2>2
  <2>4. Changes(status) /\ UNCHANGED <<mem, list, losses, live>> /\ status \in Statuses
    BY <1>1, <2>1 DEF Statuses, Screens
  <2> QED BY <2>2, <2>3, <2>4, HoldingPane
<1>4. CASE Ask \/ NextDialog \/ ScreenOnly \/ Keys \/ Deny
  <2>1. busy' = busy /\ ghost'.rested = ghost.rested
    BY <1>0, <1>4 DEF Ask, NextDialog, ScreenOnly, Keys, Deny, Ghosts
  <2>2. \E status \in Statuses : Changes(status) /\ UNCHANGED <<mem, list, losses, live>>
    <3>1. CASE Ask \/ NextDialog \/ ScreenOnly
      BY <1>0, <1>1, <3>1 DEF Ask, NextDialog, ScreenOnly, Statuses, Screens
    <3>2. CASE Keys
      BY <3>2 DEF Keys, Changes, Statuses, watcher
    <3>3. CASE Deny
      <4>1. UNCHANGED <<mem, list, losses, live>> /\ agent \in Statuses
        BY <3>3 DEF Deny, SInv, SignalsTypeOK
      <4>2. CASE press.fresh /\ live
        BY <3>3, <4>1, <4>2 DEF Deny, Changes, Statuses
      <4>3. CASE ~(press.fresh /\ live)
        BY <3>3, <4>1, <4>3 DEF Deny, Changes
      <4> QED BY <4>2, <4>3
    <3> QED BY <1>4, <3>1, <3>2, <3>3
  <2>3. busy' \/ ghost'.rested
    BY <2>1, Zenon DEF Holding
  <2> QED BY <2>1, <2>2, <2>3, HoldingPane, Zenon
<1> QED BY <1>2, <1>3, <1>4

LEMMA HoldingNote ==
  ASSUME SInv, Holding, sort = "opencode",
         Rest \/ LaunchNote \/ (\E done \in BOOLEAN : Report(done)) \/ End \/ NoteSent \/ NoteKeys \/ Tick
  PROVE  Holding'
<1>0. ghost \in Ghosts /\ mem \in Memories /\ busy \in BOOLEAN
  BY DEF SInv, SignalsTypeOK, Ghosts
<1>1. UNCHANGED <<agent, stream, list, losses>> /\ (live' => live)
  BY DEF Rest, LaunchNote, Report, End, NoteSent, NoteKeys, Tick, world, watcher
<1>2. mem'.seen = mem.seen
  BY <1>0 DEF Rest, LaunchNote, Report, End, NoteSent, NoteKeys, Tick, watcher, Memories
<1>3. (busy' \/ ghost'.rested) /\ (ghost.rested => ghost'.rested)
  <2>1. CASE Rest
    <3>1. busy' = ~busy /\ ghost'.rested = (ghost.rested \/ busy)
      BY <1>0, <2>1 DEF Rest, Session, Ghosts
    <3> QED BY <3>1, Zenon
  <2>2. CASE ~Rest
    <3>1. busy' = busy /\ ghost'.rested = ghost.rested
      BY <1>0, <2>2 DEF LaunchNote, Report, End, NoteSent, NoteKeys, Tick, world, Ghosts
    <3> QED BY <3>1, Zenon DEF Holding
  <2> QED BY <2>1, <2>2
<1> QED BY <1>1, <1>2, <1>3, Zenon DEF Holding

\* What the loop makes of it.
LEMMA HoldingKept ==
  ASSUME Holding, UNCHANGED world, ghost'.rested = ghost.rested, list'.says = "failed" => losses' > 0,
         live /\ stream'.state = "following" /\ mem'.seen \in {"held", "idle?"} =>
           /\ agent = "working" => UnreadIn(stream', "working")
           /\ list'.says = "rests" => ghost.rested \/ UnreadIn(stream', "working")
  PROVE  Holding'
<1>1. UNCHANGED <<agent, live, busy>>
  BY DEF world
<1> QED BY <1>1, Zenon DEF Holding

LEMMA Watching ==
  ASSUME Holding, live, stream.state = "following", mem.seen \in {"held", "idle?"}
  PROVE  /\ agent = "working" => UnreadIn(stream, "working")
         /\ list.says = "rests" => ghost.rested \/ UnreadIn(stream, "working")
  BY DEF Holding

\* The listing at hand after a reading: one for turns held before it only.
LEMMA RelistedEffect ==
  ASSUME SInv, Relisted
  PROVE  list'.says \in {list.says, "old"} /\ (mem'.seen = "held" /\ mem.seen # "held" => list'.says # "rests")
<1>1. list \in Lists
  BY DEF SInv, SignalsTypeOK, Lists
<1>2. Outdated.says \in {list.says, "old"} /\ Outdated.says # "rests"
  BY <1>1 DEF Outdated, Lists
<1> QED BY <1>2 DEF Relisted

\* A reading of the status leaves a turn waiting only if it waited before or
\* was held just now.
LEMMA StillWaits ==
  ASSUME NEW m, NEW status, NEW rests, NEW at, Reading(m, status, rests, at), mem'.seen \in {"held", "idle?"}
  PROVE  status # "working" /\ (mem'.seen = m.seen \/ (mem'.seen = "held" /\ ~rests))
  BY DEF Reading, SeenAfter

LEMMA HoldingLoop ==
  ASSUME SInv, Holding, sort = "opencode",
         Subscribe \/ CatchUp \/ Handle \/ BeginTick \/ LongTurns \/ Unblock \/ HeldTurns \/ Record \/ Approve
  PROVE  Holding'
<1>0. /\ mem \in Memories /\ list \in Lists /\ agent \in Statuses
      /\ stream \in Streams /\ Len(stream.events) <= MaxQueue /\ Queue
  BY DEF SInv, SignalsTypeOK, Lists
<1>1. CASE Subscribe
  <2>1. UNCHANGED <<world, ghost, list, losses>> /\ stream'.state = "open"
    BY <1>0, <1>1 DEF Subscribe, Streams, watcher
  <2> QED BY <2>1, HoldingKept DEF Holding
<1>2. CASE CatchUp
  <2>1. UNCHANGED <<world, ghost, losses>> /\ list' = Outdated
    BY <1>2, CatchUpEffect
  <2>2. list'.says # "rests" /\ (list'.says = "failed" => list.says = "failed")
    BY <1>0, <2>1 DEF Outdated, Lists
  <2>3. live /\ mem'.seen \in {"held", "idle?"} => agent # "working"
    BY <1>2, CatchUpEffect, StillWaits
  <2> QED BY <2>1, <2>2, <2>3, HoldingKept DEF Holding
<1>3. CASE Handle
  <2> DEFINE status == Head(stream.events)
  <2>1. /\ UNCHANGED <<world, ghost, losses>> /\ stream.state = "following"
        /\ stream.events # <<>> /\ stream' = [stream EXCEPT !.events = Tail(stream.events)]
        /\ live => Reading(mem, status, FALSE, "loop")
    BY <1>3, HandleEffect DEF AtLoop
  <2>2. list'.says \in {list.says, "old"} /\ (mem'.seen = "held" /\ mem.seen # "held" => list'.says # "rests")
    BY <1>3, RelistedEffect DEF Handle
  <2>3. /\ stream'.events # <<>> => stream'.events[Len(stream'.events)] = stream.events[Len(stream.events)]
        /\ stream'.events = <<>> => status = stream.events[Len(stream.events)]
        /\ UnreadIn(stream, "working") => "working" = status \/ UnreadIn(stream', "working")
        /\ stream' \in Streams
    BY <1>0, <2>1, ReadEffect DEF Statuses
  <2>4. ASSUME live, mem'.seen \in {"held", "idle?"}
        PROVE  /\ agent = "working" => UnreadIn(stream', "working")
               /\ list'.says = "rests" => ghost.rested \/ UnreadIn(stream', "working")
    <3>1. status # "working" /\ (mem'.seen = mem.seen \/ mem'.seen = "held")
      BY <2>1, <2>4, StillWaits
    <3>2. ASSUME agent = "working" PROVE UnreadIn(stream', "working")
      <4>1. stream.events[Len(stream.events)] = "working"
        BY <1>0, <2>1, <3>2 DEF Queue
      <4>2. stream'.events # <<>> /\ stream'.events[Len(stream'.events)] = "working"
        BY <2>3, <3>1, <4>1
      <4>3. Len(stream'.events) \in 1 .. Len(stream'.events)
        <5>1. stream'.events \in Seq(Statuses)
          BY <2>3 DEF Streams
        <5> QED BY <4>2, <5>1, EmptySeq, LenProperties
      <4> QED BY <4>2, <4>3 DEF UnreadIn
    <3>3. ASSUME list'.says = "rests" PROVE ghost.rested \/ UnreadIn(stream', "working")
      <4>1. list.says = "rests" /\ mem.seen \in {"held", "idle?"}
        BY <2>2, <2>4, <3>1, <3>3
      <4> QED BY <2>1, <2>3, <2>4, <3>1, <4>1, Watching, Zenon
    <3> QED BY <3>2, <3>3
  <2>5. list'.says = "failed" => losses' > 0
    BY <2>1, <2>2 DEF Holding
  <2> QED BY <2>1, <2>4, <2>5, HoldingKept
<1>4. CASE BeginTick
  <2>1. /\ UNCHANGED <<world, ghost, losses, stream>> /\ stream.state = "following"
        /\ live => Reading(mem, agent, FALSE, "long") \/ mem'.seen = mem.seen
    BY <1>4, BeginTickEffect DEF AtLoop
  <2>2. list'.says \in {list.says, "old"} /\ (mem'.seen = "held" /\ mem.seen # "held" => list'.says # "rests")
    BY <1>4, RelistedEffect DEF BeginTick
  <2>3. ASSUME live, mem'.seen \in {"held", "idle?"}
        PROVE  /\ agent = "working" => UnreadIn(stream', "working")
               /\ list'.says = "rests" => ghost.rested \/ UnreadIn(stream', "working")
    <3>1. mem'.seen = mem.seen \/ (mem'.seen = "held" /\ agent # "working")
      BY <2>1, <2>3, StillWaits
    <3>2. CASE mem'.seen = mem.seen
      BY <2>1, <2>2, <2>3, <3>2, Watching
    <3>3. CASE mem'.seen # mem.seen
      BY <2>2, <3>1, <3>3
    <3> QED BY <3>2, <3>3
  <2>4. list'.says = "failed" => losses' > 0
    BY <2>1, <2>2 DEF Holding
  <2> QED BY <2>1, <2>3, <2>4, HoldingKept
<1>5. CASE LongTurns \/ Approve \/ Record \/ Unblock
  <2>1. UNCHANGED <<world, stream, list, losses>> /\ ghost'.rested = ghost.rested
    BY <1>5, LongTurnsEffect, RecordEffect, UnblockEffect DEF Approve
  <2>2. live /\ mem'.seen \in {"held", "idle?"} => mem'.seen = mem.seen
    <3>1. CASE LongTurns \/ Approve \/ Record
      BY <3>1, LongTurnsEffect, RecordEffect DEF Approve
    <3>2. CASE Unblock
      BY <3>2, UnblockEffect, StillWaits
    <3> QED BY <1>5, <3>1, <3>2
  <2> QED BY <2>1, <2>2, HoldingKept, Watching DEF Holding
<1>6. CASE HeldTurns
  <2>1. UNCHANGED <<world, stream, losses, ghost>> /\ list'.says = "none" /\ stream.state = "following"
    BY <1>6, HeldTurnsEffect DEF AtLoop
  <2>2. ASSUME live, mem'.seen \in {"held", "idle?"} PROVE agent = "working" => UnreadIn(stream, "working")
    <3>1. agent # "working" \/ mem'.seen = mem.seen
      BY <1>6, <2>2, HeldTurnsEffect, StillWaits
    <3> QED BY <2>1, <2>2, <3>1, Watching
  <2> QED BY <2>1, <2>2, HoldingKept
<1> QED BY <1>1, <1>2, <1>3, <1>4, <1>5, <1>6

LEMMA HoldingLoss == ASSUME SInv, Holding, sort = "opencode", List \/ Loss PROVE Holding'
<1>0. list \in Lists /\ losses \in Nat
  BY DEF SInv, SignalsTypeOK, Lists
<1>1. CASE List
  <2>1. UNCHANGED <<world, stream, mem, losses, ghost>> /\ list'.says = (IF busy THEN "busy" ELSE "rests")
    BY <1>0, <1>1 DEF List, Lists
  <2>2. list'.says = "rests" => ghost.rested
    BY <2>1 DEF Holding
  <2>3. list'.says # "failed"
    BY <2>1
  <2> QED BY <2>1, <2>2, <2>3, HoldingKept, Watching
<1>2. CASE ListFails
  <2>1. UNCHANGED <<world, stream, mem, ghost>> /\ list'.says = "failed" /\ losses' > 0
    BY <1>0, <1>2 DEF ListFails, Lists
  <2> QED BY <2>1, HoldingKept, Watching
<1>3. CASE Drop \/ Kill
  <2>1. UNCHANGED <<world, ghost>> /\ stream'.state = "none" /\ losses' > 0
    <3>1. stream' = Cut /\ losses' = losses + 1 /\ UNCHANGED <<world, ghost>>
      BY <1>3 DEF Drop, Kill
    <3>2. Cut.state = "none"
      BY DEF Cut
    <3>3. losses' > 0
      BY <1>0, <3>1
    <3> QED BY <3>1, <3>2, <3>3
  <2> QED BY <2>1, HoldingKept
<1>4. CASE ReadFails
  <2>1. UNCHANGED <<world, list, ghost>> /\ losses' > 0
    BY <1>4, ReadFailsEffect
  <2>2. stream'.state # "following" \/ mem'.seen = "blocked"
    <3>1. Cut.state # "following"
      BY DEF Cut
    <3> QED BY <1>4, <3>1, ReadFailsEffect
  <2> QED BY <2>1, <2>2, HoldingKept
<1> QED BY <1>1, <1>2, <1>3, <1>4 DEF Loss

OpencodeHolds == sort = "opencode" => Holding

LEMMA HoldingInit == SignalsInit => OpencodeHolds
<1> SUFFICES ASSUME SignalsInit PROVE Holding
  BY DEF OpencodeHolds
<1>1. stream.state = "none" /\ list.says = "none"
  BY DEF SignalsInit, NoList
<1>2. ghost.rested = ~busy
  BY DEF SignalsInit
<1>3. stream.state # "following" /\ list.says # "failed"
  BY <1>1
<1> QED BY <1>2, <1>3, Zenon DEF Holding

LEMMA HoldingStep == SInv /\ OpencodeHolds /\ [SignalsNext]_tVars => OpencodeHolds'
<1> SUFFICES ASSUME SInv, OpencodeHolds, [SignalsNext]_tVars, sort' = "opencode" PROVE Holding'
  BY DEF OpencodeHolds
<1>1. CASE UNCHANGED tVars
  BY <1>1 DEF Holding, OpencodeHolds, tVars, UnreadIn
<1>2. CASE SignalsNext
  <2>1. sort = "opencode"
    BY <1>2 DEF SignalsNext, Worker, Operator, Loop, Loss, TurnBegins, EndTurn, Rest, Ask,
       NextDialog, ScreenOnly, LaunchNote,
       End, Report, Send, NoteSent, Keys, NoteKeys, Tick, Subscribe, CatchUp, Record, BeginTick, LongTurns, Unblock,
       Approve, Deny, Handle, List, HeldTurns, Drop, ReadFails, Kill, ListFails, Pane, world
  <2> QED BY <1>2, <2>1, HoldingWorker, HoldingNote, HoldingLoop, HoldingLoss
          DEF SignalsNext, Worker, Operator, Loop, OpencodeHolds
<1> QED BY <1>1, <1>2

\* Which step finds that a turn of opencode ended.
LEMMA RestFound ==
  ASSUME SInv, OpencodeHolds, SignalsNext, sort = "opencode",
         step'.record \in {"quiet", "limited"}, step.record = ""
  PROVE  ghost.rested \/ losses > 0 \/ Unread("working")
<1>1. Prefills
  BY DEF Prefills
<1>2. ASSUME NEW m, NEW status, NEW at, Reading(m, status, FALSE, at) PROVE FALSE
  BY <1>1, <1>2 DEF Reading, StepAfter
<1>3. CASE HeldTurns
  <2>1. live /\ mem.seen \in {"held", "idle?"} /\ stream.state = "following" /\ list.says \in {"rests", "failed"}
    <3>1. stream.state = "following"
      BY <1>3, HeldTurnsEffect DEF AtLoop
    <3>2. live /\ mem.seen \in {"held", "idle?"}
      BY <1>3, HeldTurnsEffect DEF Waits
    <3>3. list.says \in {"rests", "failed"}
      BY <1>1, <1>3, HeldTurnsEffect DEF Reading, StepAfter
    <3> QED BY <3>1, <3>2, <3>3
  <2>2. CASE list.says = "failed"
    BY <2>2 DEF Holding, OpencodeHolds
  <2>3. CASE list.says = "rests"
    BY <2>1, <2>3, Watching DEF OpencodeHolds, Unread, UnreadIn
  <2> QED BY <2>1, <2>2, <2>3
<1>4. CASE CatchUp
  BY <1>2, <1>4, CatchUpEffect
<1>5. CASE Handle
  BY <1>2, <1>5, HandleEffect
<1>6. CASE BeginTick
  BY <1>2, <1>6, BeginTickEffect
<1>7. CASE Unblock
  BY <1>2, <1>7, UnblockEffect
<1>8. CASE LongTurns \/ Record \/ ReadFails
  BY <1>8, LongTurnsEffect, RecordEffect, ReadFailsEffect
<1>9. CASE Subscribe \/ Drop \/ Kill
  BY <1>9, GoesType DEF Subscribe, Drop, Kill, watcher, StepAt
<1>10. CASE Approve \/ Deny
  BY <1>10, GoesType, RecordsType DEF Approve, Deny
<1>11. CASE UNCHANGED step
  BY <1>11
<1>12. CASE TurnBegins \/ EndTurn \/ Rest \/ Ask \/ NextDialog \/ ScreenOnly \/ LaunchNote \/ End
            \/ (\E done \in BOOLEAN : Report(done)) \/ Send \/ NoteSent \/ Keys \/ NoteKeys \/ Tick \/ List \/ ListFails
  BY <1>11, <1>12 DEF TurnBegins, EndTurn, Rest, Ask, NextDialog, ScreenOnly, LaunchNote, End,
     Report, Send,
     NoteSent, Keys, NoteKeys, Tick, List, ListFails, Pane, watcher
<1> QED BY <1>3, <1>4, <1>5, <1>6, <1>7, <1>8, <1>9, <1>10, <1>12 DEF SignalsNext, Worker,
   Operator, Loop, Loss

\* HeldKeeps of TurnSignals: a turn of opencode is found ended only after its
\* session and subagents rested, whatever order events and listings arrive in,
\* unless a listing failed, a watcher died or a newer turn waits unread.
THEOREM HeldUntilRest == SignalsSpec => HeldKeeps
<1> DEFINE Kept == sort = "opencode" /\ step'.record \in {"quiet", "limited"} /\ step.record = ""
                     => ghost.rested \/ losses > 0 \/ Unread("working")
<1>1. SInv /\ OpencodeHolds /\ [SignalsNext]_tVars => [Kept]_tVars
  BY RestFound
<1>2. SignalsSpec => [](SInv /\ OpencodeHolds)
  BY SInit, SStep, HoldingInit, HoldingStep, PTL DEF SignalsSpec
<1> QED BY <1>1, <1>2, PTL DEF SignalsSpec, HeldKeeps

-----------------------------------------------------------------------------
(* Deny comes a wait after the last press by hand *)

\* The newest event of an ask attempt is no older than the last press by hand,
\* which the log knows of once the command let the lock go.  Approvals are
\* decided for an ask attempt only, and a deny under way holds the lock: no
\* press by hand comes between the decision and the press.
Pressed ==
  /\ press.who = "keys" => ghost.keys = 0
  /\ press.who # "keys" /\ sort = "ask" /\ ghost.keys # None => log.age <= ghost.keys
  /\ step.at = "approve" => sort = "ask"
  /\ step.at = "deny" => /\ press.who = "watch" /\ step.record = ""
                         /\ ghost.keys = None \/ ghost.keys >= Wait

Unpressed ==
  /\ ghost'.keys = ghost.keys /\ log'.age \in {0, log.age} /\ sort' = sort
  /\ (press'.who = "keys") = (press.who = "keys")

\* Steps that are no press by hand and do not let time pass.
LEMMA PressedKept ==
  ASSUME SInv, Pressed, Unpressed,
         step'.at = "approve" => sort = "ask",
         step'.at = "deny" => step' = step /\ press'.who = press.who
  PROVE  Pressed'
<1>1. ghost.keys \in Ages /\ log.age \in 0 .. Long
  BY DEF SInv, SignalsTypeOK, Logs
<1>2. ghost'.keys = ghost.keys /\ log'.age \in {0, log.age} /\ sort' = sort
  BY DEF Unpressed
<1>3. press'.who = "keys" => ghost'.keys = 0
  BY DEF Unpressed, Pressed
<1>4. press'.who # "keys" /\ sort' = "ask" /\ ghost'.keys # None => log'.age <= ghost'.keys
  <2> SUFFICES ASSUME press'.who # "keys", sort' = "ask", ghost'.keys # None PROVE log'.age <= ghost'.keys
    OBVIOUS
  <2>1. log.age <= ghost.keys
    BY <1>2 DEF Unpressed, Pressed
  <2>2. 0 <= ghost.keys
    BY <1>1, <1>2 DEF Ages, None
  <2> QED BY <1>2, <2>1, <2>2
<1>5. step'.at = "deny" => /\ press'.who = "watch" /\ step'.record = ""
                           /\ ghost'.keys = None \/ ghost'.keys >= Wait
  BY <1>2 DEF Pressed
<1> QED BY <1>2, <1>3, <1>4, <1>5 DEF Pressed

\* The event just appended has no age.
LEMMA EmittedAge == ASSUME NEW l \in Logs, NEW kind PROVE Emitted(l, kind).age = 0
  BY DEF Emitted, Logs

\* The worker, the notes of the operator, and what ends of itself.
LEMMA PressedWorld ==
  ASSUME SInv, Pressed,
         TurnBegins \/ EndTurn \/ Ask \/ NextDialog \/ ScreenOnly \/ Send \/ Rest \/ LaunchNote \/ End \/ NoteSent
         \/ \E done \in BOOLEAN : Report(done)
  PROVE  Pressed'
<1>0. log \in Logs /\ ghost \in Ghosts /\ press \in Presses
  BY DEF SInv, SignalsTypeOK, Ghosts, Presses
<1>1. UNCHANGED <<step, sort>> /\ press'.who = press.who
  BY <1>0 DEF TurnBegins, EndTurn, Ask, NextDialog, ScreenOnly, Send, Rest, LaunchNote, End, NoteSent, Report,
     Pane, watcher, world, Presses
<1>2. ghost'.keys = ghost.keys
  BY <1>0 DEF TurnBegins, EndTurn, Ask, NextDialog, ScreenOnly, Send, Rest, LaunchNote, End, NoteSent, Report,
     Begun, Ghosts
<1>3. \A kind : Emitted(log, kind).age = 0
  BY <1>0, EmittedAge
<1>4. log'.age \in {0, log.age}
  <2>1. CASE TurnBegins \/ EndTurn \/ Ask \/ NextDialog \/ ScreenOnly \/ Send \/ Rest
    BY <1>0, <2>1 DEF TurnBegins, EndTurn, Ask, NextDialog, ScreenOnly, Send, Rest, Session, Logs
  <2>2. CASE LaunchNote \/ End \/ NoteSent
    BY <1>3, <2>2 DEF LaunchNote, End, NoteSent
  <2>3. CASE \E done \in BOOLEAN : Report(done)
    BY <1>3, <2>3 DEF Report
  <2> QED BY <2>1, <2>2, <2>3
<1> QED BY <1>1, <1>2, <1>4, PressedKept DEF Pressed, Unpressed

\* A press by hand takes the free lock, and lets it go with its note.
LEMMA PressedKeys ==
  ASSUME SInv, Pressed, Keys \/ NoteKeys PROVE Pressed'
<1>0. log \in Logs /\ ghost \in Ghosts /\ press \in Presses
  BY DEF SInv, SignalsTypeOK, Ghosts, Presses
<1>1. UNCHANGED <<step, sort>> /\ step.at # "deny"
  <2>1. press.who # "watch"
    BY DEF Keys, NoteKeys
  <2> QED BY <2>1 DEF Keys, NoteKeys, Pressed, watcher, world
<1>2. CASE Keys
  <2>1. ghost'.keys = 0 /\ press'.who = "keys"
    BY <1>0, <1>2 DEF Keys, Ghosts
  <2> QED BY <1>1, <2>1 DEF Pressed
<1>3. CASE NoteKeys
  <2>1. ghost'.keys = 0 /\ press'.who = "none"
    BY <1>0, <1>3 DEF NoteKeys, Ghosts, Presses, Pressed
  <2>2. log'.age = 0
    <3>1. log' = Emitted(log, "keys")
      BY <1>3 DEF NoteKeys
    <3>2. Emitted(log, "keys").age = 0
      BY <1>0, EmittedAge
    <3> QED BY <3>1, <3>2
  <2>3. log'.age <= ghost'.keys /\ press'.who # "keys"
    BY <2>1, <2>2
  <2>4. (step'.at = "approve" => sort' = "ask") /\ step'.at # "deny"
    BY <1>1 DEF Pressed
  <2> QED BY <2>3, <2>4, Zenon DEF Pressed
<1> QED BY <1>2, <1>3

\* Both ages grow alike.
LEMMA PressedTick == ASSUME SInv, Pressed, Tick PROVE Pressed'
<1>0. log \in Logs /\ ghost \in Ghosts
  BY DEF SInv, SignalsTypeOK, Ghosts
<1>1. UNCHANGED <<sort, step, press>> /\ press.who # "keys"
  BY DEF Tick, world
<1>2. ghost.keys \in Ages /\ log.age \in 0 .. Long
  BY <1>0 DEF Ghosts, Logs
<1>3. CASE sort = "ask"
  <2>1. log'.age = Older(log.age) /\ ghost'.keys = Older(ghost.keys)
    BY <1>0, <1>3 DEF Tick, Logs, Ghosts
  <2>2. /\ ghost.keys = None => Older(ghost.keys) = None
        /\ ghost.keys # None => /\ Older(ghost.keys) # None /\ Older(ghost.keys) >= ghost.keys
                                /\ log.age <= ghost.keys => Older(log.age) <= Older(ghost.keys)
    BY <1>2, AgesAssumption DEF Older, Ages, None
  <2>3. ghost.keys >= Wait /\ Older(ghost.keys) >= ghost.keys => Older(ghost.keys) >= Wait
    BY <1>2, OlderType, AgesAssumption DEF Ages, None
  <2>4. ghost'.keys # None => log'.age <= ghost'.keys
    BY <1>1, <1>3, <2>1, <2>2 DEF Pressed
  <2>5. step.at = "deny" => ghost'.keys = None \/ ghost'.keys >= Wait
    BY <2>1, <2>2, <2>3 DEF Pressed
  <2> QED BY <1>1, <1>3, <2>4, <2>5 DEF Pressed
<1>4. CASE sort # "ask"
  <2>1. ghost'.keys = ghost.keys /\ log'.age = log.age
    BY <1>0, <1>4 DEF Tick, Logs
  <2> QED BY <1>1, <1>4, <2>1 DEF Pressed
<1> QED BY <1>3, <1>4

\* Steps of the watcher that press nothing and record nothing.
LEMMA PressedLoop ==
  ASSUME SInv, Pressed,
         Subscribe \/ CatchUp \/ Handle \/ BeginTick \/ LongTurns \/ Unblock \/ HeldTurns \/ List \/ Loss
  PROVE  Pressed'
<1>1. UNCHANGED <<world, log, ghost>>
  BY DEF Subscribe, CatchUp, Handle, BeginTick, LongTurns, Unblock, HeldTurns, List, Loss, Drop,
     ReadFails, Kill, ListFails
<1>2. (press'.who = "keys") = (press.who = "keys")
  <2>1. press' = press \/ (press.who = "watch" /\ press' = [who |-> "none", fresh |-> FALSE])
    BY DEF Subscribe, CatchUp, Handle, BeginTick, LongTurns, Unblock, HeldTurns, List, Loss, Drop,
       ReadFails, Kill, ListFails
  <2> QED BY <2>1
<1>3. Unpressed
  BY <1>1, <1>2 DEF Unpressed, world
<1>4. CASE Subscribe \/ List \/ ListFails
  BY <1>3, <1>4, PressedKept DEF Subscribe, List, ListFails, watcher, Pressed
<1>5. CASE CatchUp \/ Handle \/ BeginTick \/ Unblock \/ HeldTurns \/ ReadFails \/ Drop \/ Kill
  <2>1. step'.at \in {"loop", "long"}
    <3>1. CASE CatchUp \/ BeginTick \/ Unblock
      BY <3>1, CatchUpEffect, BeginTickEffect, UnblockEffect
    <3>2. CASE Handle \/ HeldTurns
      BY <3>2, HandleEffect, HeldTurnsEffect
    <3>3. CASE ReadFails
      BY <3>3, GoesType, RecordsType DEF ReadFails
    <3>4. CASE Drop \/ Kill
      BY <3>4, GoesType DEF Drop, Kill
    <3> QED BY <1>5, <3>1, <3>2, <3>3, <3>4
  <2> QED BY <1>3, <2>1, PressedKept
<1>6. CASE LongTurns
  <2>1. step'.at = AfterLong
    <3>1. Records("long", AfterLong) \/ Goes(AfterLong)
      BY <1>6 DEF LongTurns
    <3>2. CASE Records("long", AfterLong)
      BY <3>2 DEF Records
    <3>3. CASE Goes(AfterLong)
      BY <3>3 DEF Goes
    <3> QED BY <3>1, <3>2, <3>3
  <2>2. step'.at # "deny" /\ (step'.at = "approve" => sort = "ask")
    BY <2>1 DEF AfterLong
  <2> QED BY <1>3, <2>2, PressedKept
<1> QED BY <1>4, <1>5, <1>6 DEF Loss

LEMMA PressedRecord == ASSUME SInv, Pressed, Record PROVE Pressed'
<1>0. log \in Logs /\ ghost \in Ghosts /\ press \in Presses
  BY DEF SInv, SignalsTypeOK, Ghosts, Presses
<1>1. sort' = sort /\ step'.at = step.at /\ step.at # "deny"
  BY RecordEffect DEF Pressed, world
<1>2. press'.who = IF press.who = "watch" THEN "none" ELSE press.who
  BY <1>0 DEF Record, Presses
<1>3. ghost'.keys = ghost.keys
  BY <1>0 DEF Record, Ghosts
<1>4. log'.age \in {0, log.age}
  <2>1. CASE step.record # "nothing" /\ live
    <3>1. PICK kind : log' = [Emitted(log, kind) EXCEPT !.limit = @ \/ kind = "limited"]
      BY <2>1 DEF Record
    <3>2. log'.age = Emitted(log, kind).age
      BY <1>0, <3>1 DEF Emitted, Logs
    <3> QED BY <1>0, <3>2 DEF Emitted, Logs
  <2>2. CASE ~(step.record # "nothing" /\ live)
    BY <2>2 DEF Record
  <2> QED BY <2>1, <2>2
<1>5. Unpressed
  BY <1>1, <1>2, <1>3, <1>4 DEF Unpressed
<1> QED BY <1>1, <1>5, PressedKept DEF Pressed

\* The decision to deny, under the lock, and the press that follows it.
LEMMA PressedApprove == ASSUME SInv, Pressed, Approve \/ Deny PROVE Pressed'
<1>0. log \in Logs /\ ghost \in Ghosts /\ press \in Presses
  BY DEF SInv, SignalsTypeOK, Ghosts, Presses
<1>1. CASE Approve
  <2>1. UNCHANGED <<sort, log, ghost>> /\ step.at = "approve"
    BY <1>1 DEF Approve, StepAt, world
  <2>2. CASE live /\ press.who = "none" /\ Due /\ screen = "dialog"
    <3>1. press' = [who |-> "watch", fresh |-> TRUE]
          /\ IF log.newest = "keys" THEN Records("blocked", "loop") ELSE Goes("deny")
      BY <1>1, <2>2 DEF Approve
    <3>2. press'.who = "watch" /\ log.age <= Long
      BY <1>0, <3>1 DEF Logs
    <3>3. ghost.keys # None => log.age <= ghost.keys
      BY <2>1, <2>2 DEF Pressed
    <3>4. CASE log.newest = "keys"
      <4>1. step'.at = "loop"
        BY <3>1, <3>4, RecordsType
      <4> QED BY <2>1, <3>2, <3>3, <4>1 DEF Pressed
    <3>5. CASE log.newest # "keys"
      <4>1. step'.at = "deny" /\ step'.record = ""
        BY <3>1, <3>5, GoesType
      <4>2. log.age >= Wait
        BY <2>2, <3>5 DEF Due
      <4>3. ghost.keys = None \/ ghost.keys >= Wait
        <5>1. ghost.keys \in Int /\ log.age \in Int /\ Wait \in Int
          BY <1>0, AgesAssumption DEF Ghosts, Logs, Ages, None
        <5> QED BY <3>3, <4>2, <5>1
      <4> QED BY <2>1, <3>2, <3>3, <4>1, <4>3 DEF Pressed
    <3> QED BY <3>4, <3>5
  <2>3. CASE ~(live /\ press.who = "none" /\ Due /\ screen = "dialog")
    <3>1. Goes("loop") /\ UNCHANGED press
      BY <1>1, <2>3 DEF Approve
    <3> QED BY <2>1, <3>1, GoesType DEF Pressed
  <2> QED BY <2>2, <2>3
<1>2. CASE Deny
  <2>1. UNCHANGED <<sort, log>> /\ press.who = "watch"
    BY <1>2 DEF Deny, StepAt, Pressed
  <2>2. ghost'.keys = ghost.keys /\ press'.who # "keys"
    <3>1. CASE press.fresh /\ live
      <4>1. press' = [press EXCEPT !.fresh = FALSE]
        BY <1>2, <3>1 DEF Deny
      <4>2. PICK status : ghost' = [ghost EXCEPT !.shown = IF status = "blocked" THEN 0 ELSE None, !.late = TRUE]
        BY <1>2, <3>1 DEF Deny
      <4> QED BY <1>0, <2>1, <4>1, <4>2 DEF Ghosts, Presses
    <3>2. CASE ~(press.fresh /\ live)
      <4>1. press' = [who |-> "none", fresh |-> FALSE] /\ ghost' = ghost
        BY <1>2, <3>2 DEF Deny
      <4> QED BY <4>1
    <3> QED BY <3>1, <3>2
  <2>3. step'.at = "loop"
    BY <1>2, RecordsType, GoesType DEF Deny
  <2> QED BY <2>1, <2>2, <2>3 DEF Pressed
<1> QED BY <1>1, <1>2

LEMMA PressedInit == SignalsInit => Pressed
<1> SUFFICES ASSUME SignalsInit PROVE Pressed
  OBVIOUS
<1>1. step.at = "loop" /\ press.who = "none" /\ ghost.keys = None
  BY DEF SignalsInit
<1> QED BY <1>1 DEF Pressed

LEMMA PressedStep == SInv /\ Pressed /\ [SignalsNext]_tVars => Pressed'
<1> SUFFICES ASSUME SInv, Pressed, [SignalsNext]_tVars PROVE Pressed'
  OBVIOUS
<1>1. CASE UNCHANGED tVars
  BY <1>1 DEF Pressed, tVars
<1>2. CASE SignalsNext
  BY <1>2, PressedWorld, PressedKeys, PressedTick, PressedLoop, PressedRecord, PressedApprove
     DEF SignalsNext, Worker, Operator, Loop
<1> QED BY <1>1, <1>2

\* DenyAfterKeys of TurnSignals: the watcher never denies what the operator
\* just answered; between a press by hand and a deny lies at least the wait.
THEOREM DenyLate == SignalsSpec => DenyAfterKeys
<1>1. Pressed => [step'.record = "denied" /\ step.at = "deny" => ghost.keys = None \/ ghost.keys >= Wait]_tVars
  BY DEF Pressed
<1>2. SignalsSpec => [](SInv /\ Pressed)
  BY SInit, SStep, PressedInit, PressedStep, PTL DEF SignalsSpec
<1> QED BY <1>1, <1>2, PTL DEF DenyAfterKeys

-----------------------------------------------------------------------------
(* FleetMove for one move: the inductive invariant of the slice "alone" *)

\* The gitfiles name d, and so does what a project's path was made.
LinksAt(d) == \A w \in Worktree : link[w] = d
Ready(d) == db.repo \in {Relative, d} /\ LinksAt(d)

\* Before the one move: at most "hand init", which finds everything in place.
BirthOp(r) ==
  \/ r.at = "idle"
  \/ r.kind = "init" /\ r.from = Birth /\ r.to = Birth /\ r.at \in {"rebase", "repair", "look"}
Unmoved ==
  /\ moves = 0 /\ backups = {} /\ db.log = <<>> /\ db.home = Birth /\ db.repo = Birth
  /\ place = Birth /\ registry = Birth /\ LinksAt(Birth)
  /\ \A p \in Proc : BirthOp(op[p])

\* The folder was moved to d by hand: the registry names d once "hand init" is
\* done with paths and gitfiles, and only then the recorded home is rewritten.
HandOp(r, d) ==
  \/ r.at = "idle"
  \/ /\ r.kind = "init" /\ r.from \in {Birth, d} /\ r.to = d /\ r.at \in {"rebase", "repair", "look", "point"}
     /\ r.from = d => registry = d
     /\ r.at # "rebase" => db.repo \in {Relative, d}
     /\ r.at \in {"look", "point"} => LinksAt(d)
  \/ r.kind = "rewrite" /\ r.from = Birth /\ r.to = d /\ r.at \in {"backup", "rewrite"} /\ registry = d
ByHand(d) ==
  /\ moves = 1 /\ place = d /\ registry \in {Birth, d} /\ db.repo \in {Birth, Relative, d}
  /\ \/ db.log = <<>> /\ db.home = Birth
     \/ db.log = <<Moved(Birth, d)>> /\ db.home = d /\ registry = d
  /\ registry = d => Ready(d)
  /\ \A p \in Proc : HandOp(op[p], d)

\* "fleet move" to d began: the marker, the folder, the gitfiles, the registry
\* and the completion follow each other, whichever run does them.
AwayOp(r, d) ==
  \/ r.at = "idle"
  \/ /\ r.kind = "init" /\ r.from \in {Birth, d} /\ r.to \in {Birth, d} /\ r.at \in {"rebase", "repair", "look", "point"}
     /\ r.from = d => r.to = d /\ registry = d
     /\ r.to = d => place = d
     /\ r.at = "point" => r.to = d
  \/ /\ r.from = Birth /\ r.to = d
     /\ \/ r.kind = "move" /\ r.at \in {"backup", "mark"} /\ db.log = <<>> /\ (r.at = "mark" => backups # {})
        \/ r.kind = "move" /\ r.at = "rename" /\ db.log # <<>>
        \/ /\ r.kind \in {"move", "finish"} /\ r.at \in {"relink", "look", "point", "confirm"} /\ place = d
           /\ r.at # "relink" => LinksAt(d)
           /\ r.at = "confirm" => registry = d
Begins(p) == op[p].at \in {"backup", "mark"}
Blank(b) == b.log = <<>> /\ b.home = Birth /\ b.repo = Birth
Away(d) ==
  /\ moves = 1 /\ place \in {Birth, d} /\ registry \in {Birth, d} /\ (\A w \in Worktree : link[w] \in {Birth, d})
  /\ \/ Blank(db) /\ place = Birth
     \/ db.log = <<Moving(Birth, d)>> /\ db.home = d /\ db.repo = d
     \/ db.log = <<Moving(Birth, d), Moved(Birth, d)>> /\ db.home = d /\ db.repo = d /\ registry = d /\ LinksAt(d)
  /\ registry = d => place = d
  /\ place = Birth => LinksAt(Birth)
  /\ (\A b \in backups : Blank(b)) /\ (db.log # <<>> => backups # {})
  /\ \A p \in Proc : AwayOp(op[p], d)
  /\ \A p, q \in Proc : Begins(p) /\ Begins(q) => p = q

AloneInv == TypeOK /\ (Unmoved \/ \E d \in Place \ {Birth} : ByHand(d) \/ Away(d))

-----------------------------------------------------------------------------
(* FleetMove for one move: what the steps do *)

\* The steps of the slice, without their bounds but for the one move.
Starts(p, d) ==
  /\ At(p, "idle") /\ moves = 0 /\ moves' = 1 /\ ~Pending(db) /\ db.home = place /\ registry = place /\ d # place
  /\ Goto(p, [at |-> "backup", kind |-> "move", from |-> place, to |-> d])
  /\ UNCHANGED <<db, files, faults>>
InitStarts(p) ==
  /\ At(p, "idle") /\ Goto(p, [at |-> "rebase", kind |-> "init", from |-> registry, to |-> place])
  /\ UNCHANGED <<db, files, moves, faults>>
Stops(p) == Goto(p, Idle) /\ UNCHANGED <<db, files, moves>> /\ faults' = faults + 1
Works == \E up \in BOOLEAN : db' = [db EXCEPT !.busy = up] /\ UNCHANGED <<files, op, moves>> /\ faults' \in {faults, faults + 1}
MvOnce(d) ==
  /\ \A p \in Proc : At(p, "idle")
  /\ moves = 0 /\ moves' = 1 /\ d # place /\ place' = d /\ UNCHANGED <<db, backups, registry, link, op, faults>>
Undone ==
  /\ Pending(db) /\ place = Last(db.log).from /\ \A p \in Proc : At(p, "idle")
  /\ \E b \in backups : db' = b
  /\ UNCHANGED <<files, op, moves, faults>>

LEMMA AloneIsProceed == ASSUME NEW p \in Proc, Alone!Proceed(p) PROVE Proceed(p)
  BY DEF Alone!Proceed, Proceed, Alone!Backup, Backup, Alone!Mark, Mark, Alone!RewriteHome, RewriteHome, Alone!Rename, Rename,
         Alone!Relink, Relink, Alone!Look, Look, Alone!Point, Point, Alone!ConfirmMove, ConfirmMove, Alone!Rebase, Rebase,
         Alone!Repair, Repair, Alone!At, At, Alone!Then, Then, Alone!Goto, Goto, Alone!Idle, Idle, Alone!moveHome, moveHome,
         Alone!Moving, Moving, Alone!Moved, Moved, Alone!files, files, Alone!Pending, Pending, Alone!Last, Last

AloneStep ==
  \/ \E p \in Proc : \/ \E d \in Place : Starts(p, d)
                     \/ BeginRewrite(p) \/ FinishPending(p) \/ InitStarts(p) \/ Proceed(p) \/ Stops(p)
  \/ Works \/ (\E d \in Place : MvOnce(d)) \/ Undone

LEMMA AloneSteps == ASSUME TypeOK, Alone!Next PROVE AloneStep
<1>0. moves \in Nat /\ (moves < 1 => moves = 0)
  BY DEF TypeOK
<1>1. ASSUME NEW p \in Proc, NEW d \in Place, Alone!Begin(p, d) PROVE Starts(p, d)
  BY <1>0, <1>1 DEF Alone!Begin, Starts, Alone!At, At, Alone!Goto, Goto, Alone!files, files, Alone!Pending, Pending, Alone!Last, Last
<1>2. ASSUME NEW p \in Proc, Alone!BeginRewrite(p) PROVE BeginRewrite(p)
  BY <1>2 DEF Alone!BeginRewrite, BeginRewrite, Alone!At, At, Alone!Goto, Goto, Alone!files, files, Alone!Pending, Pending, Alone!Last, Last,
     Alone!Blockers, Blockers
<1>3. ASSUME NEW p \in Proc, Alone!FinishPending(p) PROVE FinishPending(p)
  BY <1>3 DEF Alone!FinishPending, FinishPending, Alone!At, At, Alone!Goto, Goto, Alone!files, files, Alone!Pending, Pending, Alone!Last, Last,
     Alone!Blockers, Blockers
<1>4. ASSUME NEW p \in Proc, Alone!InitHome(p) PROVE InitStarts(p)
  BY <1>4 DEF Alone!InitHome, InitStarts, Alone!At, At, Alone!Goto, Goto, Alone!files, files
<1>5. ASSUME NEW p \in Proc, Alone!RenameFails(p) \/ Alone!Killed(p) PROVE Stops(p)
  BY <1>5 DEF Alone!RenameFails, Alone!Killed, Stops, Alone!Goto, Goto, Alone!Idle, Idle, Alone!Fault, Alone!files, files
<1>6. ASSUME NEW up \in BOOLEAN, Alone!Work(up) PROVE Works
  BY <1>6 DEF Alone!Work, Works, Alone!Fault, Alone!files, files
<1>7. ASSUME NEW d \in Place, Alone!Mv(d) PROVE MvOnce(d)
  BY <1>0, <1>7 DEF Alone!Mv, MvOnce, Alone!At, At
<1>8. ASSUME Alone!Undo PROVE Undone
  BY <1>8 DEF Alone!Undo, Undone, Alone!At, At, Alone!files, files, Alone!Pending, Pending, Alone!Last, Last
<1> QED
  BY <1>1, <1>2, <1>3, <1>4, <1>5, <1>6, <1>7, <1>8, AloneIsProceed DEF AloneStep, Alone!Next, Alone!Operate

\* Only command p goes on.
OpOnly(p) == op' \in [Proc -> OpState] /\ \A q \in Proc \ {p} : op'[q] = op[q]
Steps == {"idle", "backup", "mark", "rewrite", "rename", "relink", "look", "point", "confirm", "rebase", "repair"}

LEMMA ThenIs ==
  ASSUME TypeOK, NEW p \in Proc, NEW next \in Steps, Then(p, next)
  PROVE  OpOnly(p) /\ op'[p].at = next /\ op'[p].kind = op[p].kind /\ op'[p].from = op[p].from /\ op'[p].to = op[p].to
<1> DEFINE r == [op[p] EXCEPT !.at = next]
<1>0. op[p] \in OpState
  BY DEF TypeOK
<1>1. r \in OpState /\ r.at = next /\ r.kind = op[p].kind /\ r.from = op[p].from /\ r.to = op[p].to
  BY <1>0 DEF OpState, Steps
<1>2. Goto(p, r)
  BY DEF Then
<1> HIDE DEF r
<1> QED BY <1>1, <1>2, GotoType DEF OpOnly

LEMMA IdleIs == ASSUME TypeOK, NEW p \in Proc, Goto(p, Idle) PROVE OpOnly(p) /\ op'[p].at = "idle"
  BY IdleType, GotoType DEF Idle, OpOnly

LEMMA AloneTypes == ASSUME TypeOK, AloneStep PROVE TypeOK'
<1>1. ASSUME NEW p \in Proc, NEW d \in Place, Starts(p, d) PROVE TypeOK'
  <2>1. [at |-> "backup", kind |-> "move", from |-> place, to |-> d] \in OpState
    BY DEF TypeOK, OpState
  <2> QED BY <1>1, <2>1, GotoType DEF Starts, TypeOK, files
<1>2. ASSUME NEW p \in Proc, BeginRewrite(p) \/ FinishPending(p) PROVE TypeOK'
  BY <1>2, LookStepType, PlaceAssumption
<1>3. ASSUME NEW p \in Proc, InitStarts(p) PROVE TypeOK'
  <2>1. [at |-> "rebase", kind |-> "init", from |-> registry, to |-> place] \in OpState
    BY DEF TypeOK, OpState
  <2> QED BY <1>3, <2>1, GotoType DEF InitStarts, TypeOK, files
<1>4. ASSUME NEW p \in Proc, Proceed(p) PROVE TypeOK'
  BY <1>4, WriteType
<1>5. ASSUME NEW p \in Proc, Stops(p) PROVE TypeOK'
  BY <1>5, IdleIs DEF Stops, TypeOK, files, OpOnly
<1>6. ASSUME Works PROVE TypeOK'
  <2>1. db' \in Db
    BY <1>6 DEF Works, TypeOK, Db
  <2>2. faults' \in Nat
    BY <1>6 DEF Works, TypeOK
  <2> QED BY <1>6, <2>1, <2>2 DEF Works, TypeOK, files
<1>7. ASSUME NEW d \in Place, MvOnce(d) PROVE TypeOK'
  BY <1>7 DEF MvOnce, TypeOK
<1>8. ASSUME Undone PROVE TypeOK'
  BY <1>8 DEF Undone, TypeOK, files
<1> QED BY <1>1, <1>2, <1>3, <1>4, <1>5, <1>6, <1>7, <1>8 DEF AloneStep

LEMMA WorksEffect == ASSUME TypeOK, Works PROVE db'.log = db.log /\ db'.home = db.home /\ db'.repo = db.repo
  BY DEF TypeOK, Works, Db

\* What is pending of a log of one move, and of what is left by one.
LEMMA LogsPend ==
  ASSUME NEW d \in Place
  PROVE  /\ db.log = <<>> => ~Pending(db)
         /\ db.log = <<Moved(Birth, d)>> => ~Pending(db)
         /\ db.log = <<Moving(Birth, d), Moved(Birth, d)>> => ~Pending(db)
         /\ db.log = <<Moving(Birth, d)>> => Pending(db) /\ Last(db.log) = Moving(Birth, d)
<1> DEFINE a == Moving(Birth, d)
           b == Moved(Birth, d)
<1>1. a.kind = "moving" /\ b.kind = "moved"
  BY DEF Moving, Moved
<1> HIDE DEF a, b
<1>2. Len(<<a>>) = 1 /\ <<a>>[1] = a /\ Len(<<b>>) = 1 /\ <<b>>[1] = b /\ Len(<<a, b>>) = 2 /\ <<a, b>>[2] = b /\ <<a>> # <<>>
  OBVIOUS
<1>3. /\ db.log = <<>> => ~Pending(db)
      /\ db.log = <<b>> => ~Pending(db)
      /\ db.log = <<a, b>> => ~Pending(db)
      /\ db.log = <<a>> => Pending(db) /\ Last(db.log) = a
  BY <1>1, <1>2 DEF Pending, Last
<1> QED BY <1>3 DEF a, b

LEMMA UnmovedStep ==
  ASSUME TypeOK, Unmoved, AloneStep
  PROVE  Unmoved' \/ \E d \in Place \ {Birth} : ByHand(d)' \/ Away(d)'
<1>0. ~Pending(db) /\ db.home = place /\ registry = place /\ link \in [Worktree -> Place] /\ op \in [Proc -> OpState] /\ db \in Db
  BY LogsPend, PlaceAssumption DEF TypeOK, Unmoved
<1>1. ASSUME NEW p \in Proc, NEW d \in Place, Starts(p, d) PROVE d \in Place \ {Birth} /\ Away(d)'
  <2> DEFINE r == [at |-> "backup", kind |-> "move", from |-> place, to |-> d]
  <2>1. r \in OpState /\ r.at = "backup" /\ r.kind = "move" /\ r.from = Birth /\ r.to = d
    BY PlaceAssumption DEF Unmoved, OpState
  <2>2. Goto(p, r)
    BY <1>1 DEF Starts
  <2> HIDE DEF r
  <2>3. OpOnly(p) /\ op'[p] = r
    BY <2>1, <2>2, GotoType DEF OpOnly
  <2>4. d # Birth /\ UNCHANGED <<db, backups, place, registry, link>> /\ moves' = 1
    BY <1>1 DEF Starts, files, Unmoved
  <2>5. \A q \in Proc : AwayOp(op[q], d)'
    <3> SUFFICES ASSUME NEW q \in Proc PROVE AwayOp(op[q], d)'
      OBVIOUS
    <3>1. CASE q = p
      BY <2>1, <2>3, <2>4, <3>1 DEF AwayOp, Unmoved
    <3>2. CASE q # p
      BY <2>3, <2>4, <3>2 DEF AwayOp, Unmoved, BirthOp, OpOnly
    <3> QED BY <3>1, <3>2
  <2>6. \A q \in Proc : Begins(q)' => q = p
    BY <2>3 DEF Begins, OpOnly, Unmoved, BirthOp
  <2>7. \A q, e \in Proc : Begins(q)' /\ Begins(e)' => q = e
    BY <2>6
  <2> QED BY <2>4, <2>5, <2>7 DEF Away, Unmoved, Blank, LinksAt
<1>2. ASSUME NEW p \in Proc PROVE ~BeginRewrite(p) /\ ~FinishPending(p)
  BY <1>0 DEF BeginRewrite, FinishPending
<1>3. ASSUME NEW p \in Proc, InitStarts(p) PROVE Unmoved'
  <2> DEFINE r == [at |-> "rebase", kind |-> "init", from |-> registry, to |-> place]
  <2>1. r \in OpState /\ BirthOp(r)
    BY PlaceAssumption DEF Unmoved, OpState, BirthOp
  <2>2. Goto(p, r)
    BY <1>3 DEF InitStarts
  <2> HIDE DEF r
  <2>3. OpOnly(p) /\ op'[p] = r
    BY <2>1, <2>2, GotoType DEF OpOnly
  <2>4. \A q \in Proc : BirthOp(op'[q])
    BY <2>1, <2>3 DEF OpOnly, Unmoved
  <2> QED BY <1>3, <2>4 DEF Unmoved, InitStarts, files, LinksAt
<1>4. ASSUME NEW p \in Proc, Proceed(p) PROVE Unmoved'
  <2>1. BirthOp(op[p])
    BY DEF Unmoved
  <2>2. CASE Look(p)
    <3>1. Goto(p, Idle) /\ UNCHANGED <<db, files, moves>>
      BY <2>1, <2>2 DEF Look, BirthOp, At, Unmoved
    <3>2. \A q \in Proc : BirthOp(op'[q])
      BY <3>1, IdleIs DEF OpOnly, Unmoved, BirthOp
    <3> QED BY <3>1, <3>2 DEF Unmoved, files, LinksAt
  <2>3. CASE Rebase(p) \/ Repair(p)
    <3>1. db' = db /\ UNCHANGED <<backups, place, registry, moves>>
      BY <2>1, <2>3 DEF Rebase, Repair, BirthOp, At, files
    <3>2. link' = link
      BY <1>0, <2>3 DEF Rebase, Repair, files, Unmoved, LinksAt
    <3>3. op[p].at \in {"rebase", "repair"} /\ \E next \in {"repair", "look"} : Then(p, next)
      BY <2>3 DEF Rebase, Repair, At
    <3>4. \A q \in Proc : BirthOp(op'[q])
      BY <2>1, <3>3, ThenIs DEF OpOnly, Unmoved, BirthOp, Steps
    <3> QED BY <3>1, <3>2, <3>4 DEF Unmoved, LinksAt
  <2>4. ~Backup(p) /\ ~Mark(p) /\ ~RewriteHome(p) /\ ~Rename(p) /\ ~Relink(p) /\ ~Point(p) /\ ~ConfirmMove(p)
    BY <2>1 DEF BirthOp, Backup, Mark, RewriteHome, Rename, Relink, Point, ConfirmMove, At
  <2> QED BY <1>4, <2>2, <2>3, <2>4 DEF Proceed
<1>5. ASSUME NEW p \in Proc, Stops(p) PROVE Unmoved'
  <2>1. \A q \in Proc : BirthOp(op'[q])
    BY <1>5, IdleIs DEF Stops, OpOnly, Unmoved, BirthOp
  <2> QED BY <1>5, <2>1 DEF Stops, Unmoved, files, LinksAt
<1>6. ASSUME Works PROVE Unmoved'
  BY <1>6, WorksEffect DEF Works, Unmoved, files, LinksAt
<1>7. ASSUME NEW d \in Place, MvOnce(d) PROVE d \in Place \ {Birth} /\ ByHand(d)'
  BY <1>7 DEF MvOnce, Unmoved, ByHand, HandOp, At
<1>8. ~Undone
  BY <1>0 DEF Undone
<1> QED BY <1>1, <1>2, <1>3, <1>4, <1>5, <1>6, <1>7, <1>8 DEF AloneStep

LEMMA ByHandStep ==
  ASSUME TypeOK, NEW d \in Place \ {Birth}, ByHand(d), AloneStep
  PROVE  ByHand(d)'
<1>0. /\ ~Pending(db) /\ Birth \in Place /\ Relative \notin Place /\ link \in [Worktree -> Place] /\ op \in [Proc -> OpState]
      /\ db \in Db /\ d \in Place /\ d # Birth /\ d # Relative /\ Birth # Relative
  BY LogsPend, PlaceAssumption DEF TypeOK, ByHand
<1>1. ASSUME NEW p \in Proc, NEW e \in Place PROVE ~Starts(p, e) /\ ~FinishPending(p)
  BY <1>0 DEF Starts, FinishPending, ByHand
<1>2. ~Undone
  BY <1>0 DEF Undone
<1>3. ASSUME UNCHANGED <<db, place, registry, link, moves>>, NEW p \in Proc, OpOnly(p), HandOp(op[p], d)' PROVE ByHand(d)'
  <2>1. \A q \in Proc : HandOp(op[q], d)'
    BY <1>3 DEF ByHand, OpOnly, HandOp, LinksAt
  <2> QED BY <1>3, <2>1 DEF ByHand, Ready, LinksAt
<1>4. ASSUME NEW p \in Proc, BeginRewrite(p) \/ InitStarts(p) PROVE ByHand(d)'
  <2>1. PICK r \in OpState : /\ Goto(p, r)
                             /\ \/ r.at = "backup" /\ r.kind = "rewrite" /\ r.from = db.home /\ r.to = d /\ registry = d /\ db.home # d
                                \/ r.at = "rebase" /\ r.kind = "init" /\ r.from = registry /\ r.to = d
    <3>1. CASE BeginRewrite(p)
      BY <1>0, <3>1 DEF BeginRewrite, ByHand, OpState
    <3>2. CASE InitStarts(p)
      BY <1>0, <3>2 DEF InitStarts, ByHand, OpState
    <3> QED BY <1>4, <3>1, <3>2
  <2>2. OpOnly(p) /\ op'[p] = r
    BY <2>1, GotoType DEF OpOnly
  <2>3. UNCHANGED <<db, place, registry, link, moves>>
    BY <1>4 DEF BeginRewrite, InitStarts, files
  <2>4. HandOp(op[p], d)'
    BY <2>1, <2>2, <2>3 DEF HandOp, ByHand
  <2> QED BY <1>3, <2>2, <2>3, <2>4
<1>5. ASSUME NEW p \in Proc, Stops(p) PROVE ByHand(d)'
  BY <1>3, <1>5, IdleIs DEF Stops, files, HandOp
<1>6. ASSUME Works PROVE ByHand(d)'
  <2>1. db'.log = db.log /\ db'.home = db.home /\ db'.repo = db.repo /\ UNCHANGED <<place, registry, link, moves, op>>
    BY <1>6, WorksEffect DEF Works, files
  <2>2. \A q \in Proc : HandOp(op[q], d)'
    BY <2>1 DEF ByHand, HandOp, LinksAt
  <2> QED BY <2>1, <2>2 DEF ByHand, Ready, LinksAt
<1>7. ASSUME NEW p \in Proc, Proceed(p) PROVE ByHand(d)'
  <2>1. HandOp(op[p], d)
    BY DEF ByHand
  <2>2. CASE Backup(p)
    <3>1. op[p].kind = "rewrite" /\ op[p].to = d /\ op[p].from = Birth /\ registry = d
      BY <2>1, <2>2 DEF Backup, At, HandOp
    <3>2. Then(p, "rewrite") /\ UNCHANGED <<db, place, registry, link, moves>>
      BY <2>2, <3>1 DEF Backup, ByHand
    <3> QED BY <1>3, <3>1, <3>2, ThenIs DEF Steps, HandOp
  <2>3. CASE RewriteHome(p)
    <3>1. op[p].to = d /\ op[p].from = Birth /\ registry = d /\ Goto(p, Idle) /\ UNCHANGED <<place, registry, link, moves>>
      BY <2>1, <2>3 DEF RewriteHome, At, HandOp, files
    <3>2. OpOnly(p) /\ op'[p].at = "idle"
      BY <3>1, IdleIs
    <3>3. CASE db.home # Birth
      BY <1>3, <2>3, <3>1, <3>2, <3>3 DEF RewriteHome, HandOp
    <3>4. CASE db.home = Birth
      <4>1. moveHome(Birth, d, Moved(Birth, d)) /\ db.log = <<>>
        BY <1>0, <2>3, <3>1, <3>4 DEF RewriteHome, ByHand
      <4>2. Moved(Birth, d) \in Event
        BY <1>0 DEF Moved, Event
      <4>3. db'.home = d /\ db'.log = Append(<<>>, Moved(Birth, d)) /\ db' \in Db
        BY <1>0, <4>1, <4>2, MoveHomeType
      <4>4. db'.log = <<Moved(Birth, d)>>
        BY <4>3
      <4>5. db'.repo = db.repo /\ Ready(d)
        <5>1. Ready(d) /\ db.repo # Birth
          BY <1>0, <3>1 DEF ByHand, Ready
        <5>2. db'.repo = IF db.repo = Birth THEN d ELSE db.repo
          BY <1>0, <4>1 DEF moveHome, Db
        <5> QED BY <5>1, <5>2
      <4>6. \A q \in Proc : HandOp(op[q], d)'
        BY <3>1, <3>2, <4>5 DEF ByHand, HandOp, OpOnly, LinksAt
      <4> QED BY <3>1, <4>3, <4>4, <4>5, <4>6 DEF ByHand, Ready, LinksAt
    <3> QED BY <3>3, <3>4
  <2>4. CASE Rebase(p)
    <3>1. op[p].kind = "init" /\ op[p].to = d /\ op[p].from \in {Birth, d} /\ (op[p].from = d => registry = d)
      BY <2>1, <2>4 DEF Rebase, At, HandOp
    <3>2. OpOnly(p) /\ op'[p].at = "repair" /\ op'[p].kind = "init" /\ op'[p].from = op[p].from /\ op'[p].to = d
      BY <2>4, <3>1, ThenIs DEF Rebase, Steps
    <3>3. /\ db'.log = db.log /\ db'.home = db.home
          /\ db'.repo = IF op[p].from # d /\ db.repo = op[p].from THEN Relative ELSE db.repo
      BY <1>0, <2>4, <3>1 DEF Rebase, Db
    <3>4. db'.repo \in {Relative, d} /\ (db.repo \in {Relative, d} => db'.repo = db.repo)
      BY <1>0, <3>1, <3>3 DEF ByHand, Ready
    <3>5. UNCHANGED <<place, registry, link, moves>>
      BY <2>4 DEF Rebase, files
    <3>6. \A q \in Proc : HandOp(op[q], d)'
      BY <3>1, <3>2, <3>4, <3>5 DEF ByHand, HandOp, OpOnly, LinksAt
    <3> QED BY <3>3, <3>4, <3>5, <3>6 DEF ByHand, Ready, LinksAt
  <2>5. CASE Repair(p)
    <3>1. op[p].kind = "init" /\ op[p].to = d /\ op[p].from \in {Birth, d} /\ (op[p].from = d => registry = d) /\ db.repo \in {Relative, d}
      BY <2>1, <2>5 DEF Repair, At, HandOp
    <3>2. OpOnly(p) /\ op'[p].at = "look" /\ op'[p].kind = "init" /\ op'[p].from = op[p].from /\ op'[p].to = d
      BY <2>5, <3>1, ThenIs DEF Repair, Steps
    <3>3. UNCHANGED <<db, place, registry, moves>> /\ link' = [w \in Worktree |-> d]
      BY <2>5, <3>1 DEF Repair, ByHand
    <3>4. LinksAt(d)'
      BY <3>3 DEF LinksAt
    <3>5. \A q \in Proc : HandOp(op[q], d)'
      BY <3>1, <3>2, <3>3, <3>4 DEF ByHand, HandOp, OpOnly
    <3> QED BY <3>3, <3>4, <3>5 DEF ByHand, Ready
  <2>6. CASE Look(p)
    <3>1. op[p].kind = "init" /\ op[p].to = d /\ UNCHANGED <<db, place, registry, link, moves>>
      BY <2>1, <2>6 DEF Look, At, HandOp, files
    <3>2. CASE registry = d
      BY <1>3, <2>6, <3>1, <3>2, IdleIs DEF Look, HandOp
    <3>3. CASE registry # d
      <4>1. Then(p, "point")
        BY <2>6, <3>1, <3>3 DEF Look, ByHand
      <4> QED BY <1>3, <2>1, <2>6, <3>1, <4>1, ThenIs DEF Look, At, HandOp, Steps, LinksAt
    <3> QED BY <3>2, <3>3
  <2>7. CASE Point(p)
    <3>1. op[p].kind = "init" /\ op[p].to = d /\ Ready(d)
      BY <2>1, <2>7 DEF Point, At, HandOp, Ready
    <3>2. OpOnly(p) /\ op'[p].at = "idle" /\ registry' = d /\ UNCHANGED <<db, place, link, moves>>
      BY <2>7, <3>1, IdleIs DEF Point
    <3>3. \A q \in Proc : HandOp(op[q], d)'
      BY <3>2 DEF ByHand, HandOp, OpOnly, LinksAt
    <3> QED BY <3>1, <3>2, <3>3 DEF ByHand, Ready, LinksAt
  <2>8. ~Mark(p) /\ ~Rename(p) /\ ~Relink(p) /\ ~ConfirmMove(p)
    BY <2>1 DEF HandOp, Mark, Rename, Relink, ConfirmMove, At
  <2> QED BY <1>7, <2>2, <2>3, <2>4, <2>5, <2>6, <2>7, <2>8 DEF Proceed
<1>8. \A p \in Proc : ~FinishPending(p) /\ \A e \in Place : ~Starts(p, e)
  BY <1>0, <1>1
<1>9. \A e \in Place : ~MvOnce(e)
  BY <1>0 DEF MvOnce, ByHand
<1> QED BY <1>2, <1>4, <1>5, <1>6, <1>7, <1>8, <1>9 DEF AloneStep

\* What does not write the database leaves the log, and the copies, what they are.
LEMMA AwayKeeps ==
  ASSUME TypeOK, NEW d \in Place \ {Birth}, Away(d), NEW p \in Proc, OpOnly(p), UNCHANGED <<db, backups, moves>>,
         place' = place \/ place' = d, registry' = registry \/ (registry' = d /\ place = d /\ place' = d),
         \A w \in Worktree : link'[w] = link[w] \/ (link'[w] = place /\ place' = place),
         place' = d => db.log # <<>>, AwayOp(op[p], d)', Begins(p)' => Begins(p)
  PROVE  Away(d)'
<1>0. Birth \in Place /\ d \in Place /\ d # Birth /\ link \in [Worktree -> Place]
  BY PlaceAssumption DEF TypeOK
<1>1. LinksAt(place) => LinksAt(place)' \/ place' # place
  BY <1>0 DEF LinksAt
<1>2. /\ (registry = d => registry' = d) /\ (place = d => place' = d) /\ (place' = Birth => place = Birth)
      /\ (place = d /\ LinksAt(d) => LinksAt(d)') /\ (place' = Birth => LinksAt(Birth)')
      /\ (LinksAt(d) /\ place # d => (\A w \in Worktree : FALSE))
  BY <1>0 DEF LinksAt, Away
<1>3. \A q \in Proc : AwayOp(op[q], d)'
  <2> SUFFICES ASSUME NEW q \in Proc, q # p PROVE AwayOp(op[q], d)'
    BY DEF OpOnly
  <2>1. op'[q] = op[q] /\ AwayOp(op[q], d)
    BY DEF OpOnly, Away
  <2> QED BY <1>2, <2>1 DEF AwayOp
<1>4. \A q \in Proc : Begins(q)' => Begins(q)
  BY DEF Begins, OpOnly
<1>5. \A w \in Worktree : link'[w] \in {Birth, d}
  BY <1>0 DEF Away
<1> QED BY <1>0, <1>2, <1>3, <1>4, <1>5 DEF Away, Blank

\* A folder that was moved away has the marker of its move.
LEMMA AwayLogged ==
  ASSUME NEW d \in Place \ {Birth}, Away(d)
  PROVE  place = d => db.log # <<>>
<1>1. ~(Blank(db) /\ place = Birth) => db.log = <<Moving(Birth, d)>> \/ db.log = <<Moving(Birth, d), Moved(Birth, d)>>
  BY DEF Away
<1>2. \A x, y : <<x>> # <<>> /\ <<x, y>> # <<>>
  OBVIOUS
<1>3. d # Birth
  OBVIOUS
<1> QED BY ONLY <1>1, <1>2, <1>3

LEMMA AwayProceeds ==
  ASSUME TypeOK, NEW d \in Place \ {Birth}, Away(d), NEW p \in Proc, Proceed(p)
  PROVE  Away(d)'
<1>0. /\ Birth \in Place /\ Relative \notin Place /\ link \in [Worktree -> Place] /\ op \in [Proc -> OpState]
      /\ db \in Db /\ d \in Place /\ d # Birth /\ d # Relative /\ Birth # Relative /\ AwayOp(op[p], d)
  BY PlaceAssumption DEF TypeOK, Away
<1>1. op[p].kind = "init" \/ (op[p].from = Birth /\ op[p].to = d) \/ op[p].at = "idle"
  BY <1>0 DEF AwayOp
<1>2. CASE Backup(p)
  <2>0. op[p].at = "backup"
    BY <1>2 DEF Backup, At
  <2>1. op[p].kind = "move" /\ op[p].from = Birth /\ op[p].to = d /\ db.log = <<>> /\ place = Birth /\ Blank(db)
    <3>1. op[p].kind = "move" /\ op[p].from = Birth /\ op[p].to = d /\ db.log = <<>>
      BY <1>0, <2>0 DEF AwayOp
    <3> DEFINE a == Moving(Birth, d)
               b == Moved(Birth, d)
    <3>2. \/ Blank(db) /\ place = Birth
          \/ db.log = <<a>>
          \/ db.log = <<a, b>>
      BY DEF Away
    <3> HIDE DEF a, b
    <3> QED BY <3>1, <3>2
  <2>2. Then(p, "mark") /\ backups' = backups \cup {db} /\ UNCHANGED <<db, place, registry, link, moves>>
    BY <1>2, <2>1 DEF Backup
  <2>3. OpOnly(p) /\ op'[p].at = "mark" /\ op'[p].kind = "move" /\ op'[p].from = Birth /\ op'[p].to = d
    BY <2>1, <2>2, ThenIs DEF Steps
  <2>4. \A q \in Proc : AwayOp(op[q], d)'
    BY <2>1, <2>2, <2>3 DEF Away, AwayOp, OpOnly, LinksAt
  <2>5. \A q \in Proc : Begins(q)' => Begins(q)
    BY <1>2, <2>3 DEF Begins, OpOnly, Backup, At
  <2> QED BY <2>1, <2>2, <2>4, <2>5 DEF Away, Blank, LinksAt
<1>3. CASE Mark(p)
  <2>1. op[p].kind = "move" /\ op[p].from = Birth /\ op[p].to = d /\ db.log = <<>> /\ place = Birth /\ Blank(db) /\ backups # {}
    <3>1. op[p].at = "mark" /\ AwayOp(op[p], d)
      BY <1>3 DEF Mark, At, Away
    <3>2. op[p].kind = "move" /\ op[p].from = Birth /\ op[p].to = d /\ db.log = <<>> /\ backups # {}
      BY <3>1 DEF AwayOp
    <3>3. place = Birth /\ Blank(db)
      BY <3>2 DEF Away
    <3> QED BY <3>2, <3>3
  <2>2. moveHome(Birth, d, Moving(Birth, d)) /\ Then(p, "rename") /\ UNCHANGED <<backups, place, registry, link, moves>>
    BY <1>3, <2>1 DEF Mark, Blank, files
  <2>3. Moving(Birth, d) \in Event
    BY <1>0 DEF Moving, Event
  <2>4. db'.home = d /\ db'.log = Append(<<>>, Moving(Birth, d))
    BY <1>0, <2>1, <2>2, <2>3, MoveHomeType
  <2>5. db'.log = <<Moving(Birth, d)>> /\ db'.log # <<>>
    BY <2>4
  <2>6. db'.repo = d
    BY <1>0, <2>1, <2>2 DEF moveHome, Db, Blank
  <2>7. OpOnly(p) /\ op'[p].at = "rename" /\ op'[p].kind = "move" /\ op'[p].from = Birth /\ op'[p].to = d
    BY <2>1, <2>2, ThenIs DEF Steps
  <2>8. ASSUME NEW q \in Proc, q # p PROVE AwayOp(op[q], d)' /\ ~Begins(q)'
    <3>1. op'[q] = op[q] /\ AwayOp(op[q], d) /\ ~Begins(q)
      BY <1>3, <2>7, <2>8 DEF OpOnly, Away, Mark, At, Begins
    <3> QED BY <2>1, <2>2, <3>1 DEF AwayOp, Begins, LinksAt
  <2>9. AwayOp(op[p], d)' /\ ~Begins(p)'
    BY <2>5, <2>7 DEF AwayOp, Begins
  <2> QED BY <2>1, <2>2, <2>4, <2>5, <2>6, <2>8, <2>9 DEF Away, LinksAt
<1>4. CASE Rename(p)
  <2>1. op[p].kind = "move" /\ op[p].from = Birth /\ op[p].to = d /\ db.log # <<>>
    BY <1>0, <1>4 DEF Rename, At, AwayOp
  <2>2. CASE place # Birth
    BY <1>4, <2>1, <2>2, IdleIs, AwayKeeps DEF Rename, AwayOp, Begins, Away
  <2>3. CASE place = Birth
    <3>1. place' = d /\ Then(p, "relink") /\ UNCHANGED <<db, backups, registry, link, moves>>
      BY <1>4, <2>1, <2>3 DEF Rename
    <3>2. OpOnly(p) /\ op'[p].at = "relink" /\ op'[p].kind = "move" /\ op'[p].from = Birth /\ op'[p].to = d
      BY <2>1, <3>1, ThenIs DEF Steps
    <3> QED BY <2>1, <3>1, <3>2, AwayKeeps DEF AwayOp, Begins
  <2> QED BY <2>2, <2>3
<1>5. CASE Relink(p)
  <2>1. op[p].kind \in {"move", "finish"} /\ op[p].from = Birth /\ op[p].to = d /\ place = d /\ db.log # <<>>
    BY <1>0, <1>5 DEF Relink, At, AwayOp, Away
  <2>2. CASE UNCHANGED op
    <3>1. PICK v \in Worktree : link' = [link EXCEPT ![v] = d]
      BY <1>5, <2>1, <2>2, ThenIs DEF Relink, At, Steps
    <3>2. OpOnly(p) /\ op'[p] = op[p]
      BY <1>0, <2>2 DEF OpOnly
    <3>3. \A w \in Worktree : link'[w] \in {link[w], d}
      BY <1>0, <3>1
    <3> QED BY <1>0, <1>5, <2>1, <3>2, <3>3, AwayKeeps DEF Relink, At, AwayOp, Begins
  <2>3. CASE {w \in Worktree : link[w] = op[p].from} = {} /\ Then(p, "look") /\ UNCHANGED link
    <3>1. LinksAt(d)
      BY <2>1, <2>3 DEF Away, LinksAt
    <3>2. OpOnly(p) /\ op'[p].at = "look" /\ op'[p].kind = op[p].kind /\ op'[p].from = Birth /\ op'[p].to = d
      BY <2>1, <2>3, ThenIs DEF Steps
    <3> QED BY <1>5, <2>1, <2>3, <3>1, <3>2, AwayKeeps DEF Relink, AwayOp, Begins, LinksAt
  <2> QED BY <1>5, <2>2, <2>3 DEF Relink
<1>6. CASE Look(p)
  <2>1. op[p].to = d \/ (op[p].kind = "init" /\ op[p].to = Birth)
    BY <1>0, <1>6 DEF Look, At, AwayOp
  <2>2. UNCHANGED <<db, backups, place, registry, link, moves>>
    BY <1>6 DEF Look, files
  <2>3. place = d => db.log # <<>>
    BY AwayLogged
  <2>4. CASE Goto(p, Idle)
    BY <2>2, <2>3, <2>4, IdleIs, AwayKeeps DEF AwayOp, Begins
  <2>5. CASE ~Goto(p, Idle)
    <3>1. op[p].to = d
      BY <1>6, <2>1, <2>5 DEF Look, Away
    <3>2. place = d
      BY <1>0, <1>6, <3>1 DEF AwayOp, Look, At
    <3>3. \/ Then(p, "confirm") /\ registry = d /\ op[p].kind # "init"
          \/ Then(p, "point")
      BY <1>6, <2>5, <3>1 DEF Look
    <3>4. /\ OpOnly(p) /\ op'[p].kind = op[p].kind /\ op'[p].from = op[p].from /\ op'[p].to = d
          /\ op'[p].at = "point" \/ (op'[p].at = "confirm" /\ registry = d /\ op[p].kind # "init")
      BY <3>1, <3>3, ThenIs DEF Steps
    <3>5. AwayOp(op[p], d)'
      BY <1>0, <1>6, <2>2, <3>2, <3>4 DEF AwayOp, Look, At, LinksAt
    <3> QED BY <2>2, <2>3, <3>4, <3>5, AwayKeeps DEF Begins
  <2> QED BY <2>4, <2>5
<1>7. CASE Point(p)
  <2>1. op[p].to = d /\ place = d /\ db.log # <<>>
    BY <1>0, <1>7 DEF Point, At, AwayOp, Away, Blank
  <2>2. registry' = d /\ UNCHANGED <<db, backups, place, link, moves>>
    BY <1>7, <2>1 DEF Point
  <2>3. CASE op[p].kind = "init"
    BY <1>7, <2>1, <2>2, <2>3, IdleIs, AwayKeeps DEF Point, AwayOp, Begins
  <2>4. CASE op[p].kind # "init"
    <3>1. OpOnly(p) /\ op'[p].at = "confirm" /\ op'[p].kind = op[p].kind /\ op'[p].from = op[p].from /\ op'[p].to = d
      BY <1>7, <2>1, <2>4, ThenIs DEF Point, Steps
    <3>2. AwayOp(op[p], d)'
      BY <1>0, <1>7, <2>1, <2>2, <2>4, <3>1 DEF AwayOp, Point, At, LinksAt
    <3> QED BY <2>1, <2>2, <3>1, <3>2, AwayKeeps DEF Begins
  <2> QED BY <2>3, <2>4
<1>8. CASE ConfirmMove(p)
  <2>1. op[p].from = Birth /\ op[p].to = d /\ place = d /\ registry = d /\ LinksAt(d) /\ db.log # <<>>
    BY <1>0, <1>8 DEF ConfirmMove, At, AwayOp, Away, Blank
  <2>2. OpOnly(p) /\ op'[p].at = "idle" /\ UNCHANGED <<backups, place, registry, link, moves>>
    BY <1>8, IdleIs DEF ConfirmMove, files
  <2>3. CASE UNCHANGED db
    BY <2>1, <2>2, <2>3, AwayKeeps DEF AwayOp, Begins
  <2>4. CASE ~UNCHANGED db
    <3>1. Pending(db) /\ confirms(Moved(Birth, d), d)
      BY <1>8, <2>1, <2>4 DEF ConfirmMove, confirms
    <3>2. db.log = <<Moving(Birth, d)>> /\ db.home = d /\ db.repo = d
      BY <3>1, LogsPend DEF Away, Blank
    <3>3. Moved(Birth, d) \in Event
      BY <1>0 DEF Moved, Event
    <3>4. db'.home = d /\ db'.log = Append(<<Moving(Birth, d)>>, Moved(Birth, d))
      BY <1>0, <3>1, <3>2, <3>3, ConfirmType
    <3>5. db'.log = <<Moving(Birth, d), Moved(Birth, d)>> /\ db'.log # <<>>
      <4> DEFINE a == Moving(Birth, d)
                 b == Moved(Birth, d)
      <4>1. db'.log = Append(<<a>>, b)
        BY <3>4
      <4> HIDE DEF a, b
      <4>2. /\ <<a>> \in Seq({a, b}) /\ <<a, b>> \in Seq({a, b}) /\ Len(<<a>>) = 1 /\ <<a>>[1] = a
            /\ Len(<<a, b>>) = 2 /\ <<a, b>>[1] = a /\ <<a, b>>[2] = b
        OBVIOUS
      <4>3. /\ Append(<<a>>, b) \in Seq({a, b}) /\ Len(Append(<<a>>, b)) = 2
            /\ Append(<<a>>, b)[1] = a /\ Append(<<a>>, b)[2] = b
        BY <4>2, AppendProperties
      <4>4. Append(<<a>>, b) = <<a, b>>
        <5> DEFINE x == Append(<<a>>, b)
                   y == <<a, b>>
        <5>1. x \in Seq({a, b}) /\ y \in Seq({a, b}) /\ Len(x) = 2 /\ Len(y) = 2 /\ x[1] = y[1] /\ x[2] = y[2]
          BY <4>2, <4>3
        <5> HIDE DEF x, y
        <5>2. \A i \in 1 .. Len(x) : i = 1 \/ i = 2
          BY <5>1
        <5>3. \A i \in 1 .. Len(x) : x[i] = y[i]
          BY <5>1, <5>2
        <5>4. x = y
          BY <5>1, <5>3, SeqEqual
        <5> QED BY <5>4 DEF x, y
      <4>5. <<a, b>> # <<>>
        BY <4>2
      <4> QED BY <4>1, <4>4, <4>5 DEF a, b
    <3>6. db'.repo = d
      BY <1>0, <3>1, <3>2 DEF confirms, Db
    <3>7. ASSUME NEW q \in Proc PROVE AwayOp(op[q], d)' /\ (Begins(q)' => Begins(q))
      <4>1. CASE q = p
        BY <2>2, <4>1 DEF AwayOp, Begins
      <4>2. CASE q # p
        <5>1. op'[q] = op[q] /\ AwayOp(op[q], d)
          BY <2>2, <4>2 DEF OpOnly, Away
        <5> QED BY <2>1, <2>2, <3>5, <5>1 DEF AwayOp, Begins, LinksAt
      <4> QED BY <4>1, <4>2
    <3>8. LinksAt(d)' /\ place' # Birth
      BY <1>0, <2>1, <2>2 DEF LinksAt
    <3> QED BY <2>1, <2>2, <3>4, <3>5, <3>6, <3>7, <3>8 DEF Away
  <2> QED BY <2>3, <2>4
<1>9. CASE Rebase(p)
  <2>1. op[p].kind = "init" /\ op[p].from \in {Birth, d} /\ (op[p].from = d => op[p].to = d) /\ (op[p].to = d => place = d)
    BY <1>0, <1>9 DEF Rebase, At, AwayOp
  <2>2. ~(op[p].from # op[p].to /\ db.repo = op[p].from)
    BY <1>0, <2>1, <1>9 DEF Away, Blank, AwayOp, Rebase, At
  <2>3. UNCHANGED <<db, backups, place, registry, link, moves>>
    BY <1>9, <2>2 DEF Rebase, files
  <2>4. OpOnly(p) /\ op'[p].at = "repair" /\ op'[p].kind = "init" /\ op'[p].from = op[p].from /\ op'[p].to = op[p].to
    BY <1>9, <2>1, ThenIs DEF Rebase, Steps
  <2>5. AwayOp(op[p], d)'
    BY <1>0, <1>9, <2>3, <2>4 DEF AwayOp, Rebase, At
  <2>6. (place = d => db.log # <<>>) /\ ~Begins(p)'
    <3>1. place = d => db.log # <<>>
      BY AwayLogged
    <3>2. ~Begins(p)'
      BY <2>4 DEF Begins
    <3> QED BY <3>1, <3>2
  <2> QED BY <2>3, <2>4, <2>5, <2>6, AwayKeeps
<1>10. CASE Repair(p)
  <2>1. OpOnly(p) /\ op'[p].at = "look" /\ op'[p].kind = "init" /\ op'[p].from = op[p].from /\ op'[p].to = op[p].to
    BY <1>0, <1>10, ThenIs DEF Repair, Steps, At, AwayOp
  <2>2. UNCHANGED <<db, backups, place, registry, moves>> /\ \A w \in Worktree : link'[w] \in {link[w], place}
    BY <1>10 DEF Repair
  <2>3. AwayOp(op[p], d)'
    BY <1>0, <1>10, <2>1, <2>2 DEF AwayOp, Repair, At
  <2>4. (place = d => db.log # <<>>) /\ ~Begins(p)'
    BY <2>1 DEF Away, Blank, Begins
  <2> QED BY <2>1, <2>2, <2>3, <2>4, AwayKeeps
<1>11. ~RewriteHome(p)
  BY <1>0 DEF RewriteHome, At, AwayOp
<1> QED BY <1>2, <1>3, <1>4, <1>5, <1>6, <1>7, <1>8, <1>9, <1>10, <1>11 DEF Proceed

LEMMA AwayStep ==
  ASSUME TypeOK, NEW d \in Place \ {Birth}, Away(d), AloneStep
  PROVE  Away(d)'
<1>0. /\ Birth \in Place /\ d \in Place /\ d # Birth /\ moves = 1 /\ (place = d => db.log # <<>>)
      /\ op \in [Proc -> OpState] /\ link \in [Worktree -> Place] /\ db \in Db
      /\ Pending(db) => db.log = <<Moving(Birth, d)>> /\ Last(db.log) = Moving(Birth, d)
      /\ ~Pending(db) => db.home = place
  BY LogsPend, PlaceAssumption DEF TypeOK, Away, Blank
<1>1. ASSUME NEW p \in Proc PROVE ~BeginRewrite(p) /\ \A e \in Place : ~Starts(p, e)
  BY <1>0 DEF BeginRewrite, Starts
<1>2. \A e \in Place : ~MvOnce(e)
  BY <1>0 DEF MvOnce
<1>3. ASSUME NEW p \in Proc, FinishPending(p) PROVE Away(d)'
  <2>1. Last(db.log).from = Birth /\ Last(db.log).to = d /\ db.log # <<>>
    BY <1>0, <1>3 DEF FinishPending, Moving, Pending
  <2>2. PICK r \in OpState :
          /\ Goto(p, r) /\ r.from = Birth /\ r.to = d
          /\ \/ r.at = "relink" /\ r.kind = "finish" /\ place = d
             \/ r.at = "rename" /\ r.kind = "move"
    BY <1>0, <1>3, <2>1 DEF FinishPending, OpState
  <2>3. OpOnly(p) /\ op'[p] = r
    BY <2>2, GotoType DEF OpOnly
  <2>4. UNCHANGED <<db, backups, place, registry, link, moves>>
    BY <1>3 DEF FinishPending, files
  <2>5. AwayOp(op[p], d)' /\ ~Begins(p)'
    BY <2>1, <2>2, <2>3, <2>4 DEF AwayOp, Begins
  <2> QED BY <2>1, <2>3, <2>4, <2>5, AwayKeeps
<1>4. ASSUME NEW p \in Proc, InitStarts(p) PROVE Away(d)'
  <2> DEFINE r == [at |-> "rebase", kind |-> "init", from |-> registry, to |-> place]
  <2>1. r \in OpState /\ r.at = "rebase" /\ r.kind = "init" /\ r.from = registry /\ r.to = place
    BY DEF TypeOK, OpState
  <2>2. Goto(p, r)
    BY <1>4 DEF InitStarts
  <2> HIDE DEF r
  <2>3. OpOnly(p) /\ op'[p] = r
    BY <2>1, <2>2, GotoType DEF OpOnly
  <2>4. UNCHANGED <<db, backups, place, registry, link, moves>>
    BY <1>4 DEF InitStarts, files
  <2>5. AwayOp(op[p], d)' /\ ~Begins(p)'
    BY <2>1, <2>3, <2>4 DEF AwayOp, Begins, Away
  <2> QED BY <1>0, <2>3, <2>4, <2>5, AwayKeeps
<1>5. ASSUME NEW p \in Proc, Stops(p) PROVE Away(d)'
  <2>1. OpOnly(p) /\ op'[p].at = "idle" /\ UNCHANGED <<db, backups, place, registry, link, moves>>
    BY <1>5, IdleIs DEF Stops, files
  <2> QED BY <1>0, <2>1, AwayKeeps DEF AwayOp, Begins
<1>6. ASSUME Works PROVE Away(d)'
  <2>1. db'.log = db.log /\ db'.home = db.home /\ db'.repo = db.repo /\ UNCHANGED <<backups, place, registry, link, moves, op>>
    BY <1>6, WorksEffect DEF Works, files
  <2>2. \A q \in Proc : AwayOp(op[q], d)'
    BY <2>1 DEF Away, AwayOp, LinksAt
  <2> QED BY <2>1, <2>2 DEF Away, Blank, LinksAt, Begins
<1>7. ASSUME Undone PROVE Away(d)'
  <2>1. place = Birth /\ (\A q \in Proc : op[q].at = "idle") /\ UNCHANGED <<backups, place, registry, link, op, moves>>
    BY <1>0, <1>7 DEF Undone, At, files, Moving
  <2>2. Blank(db')
    BY <1>7 DEF Undone, Away
  <2>3. \A q \in Proc : AwayOp(op[q], d)' /\ ~Begins(q)'
    BY <2>1 DEF AwayOp, Begins
  <2> QED BY <1>0, <2>1, <2>2, <2>3 DEF Away, Blank, LinksAt
<1> QED BY <1>1, <1>2, <1>3, <1>4, <1>5, <1>6, <1>7, AwayProceeds DEF AloneStep

LEMMA AloneInvStep == AloneInv /\ [Alone!Next]_vars => AloneInv'
<1>1. ASSUME AloneInv, UNCHANGED vars PROVE AloneInv'
  <2> USE <1>1 DEF vars
  <2>1. TypeOK => TypeOK'
    BY DEF TypeOK
  <2>2. Unmoved => Unmoved'
    BY DEF Unmoved, BirthOp, LinksAt
  <2>3. ASSUME NEW d \in Place \ {Birth}, ByHand(d) PROVE ByHand(d)'
    BY <2>3 DEF ByHand, HandOp, Ready, LinksAt
  <2>4. ASSUME NEW d \in Place \ {Birth}, Away(d) PROVE Away(d)'
    BY <2>4 DEF Away, AwayOp, Blank, Begins, LinksAt
  <2> QED BY <2>1, <2>2, <2>3, <2>4 DEF AloneInv
<1>2. ASSUME AloneInv, Alone!Next PROVE AloneInv'
  <2>1. TypeOK /\ AloneStep /\ TypeOK'
    BY <1>2, AloneSteps, AloneTypes DEF AloneInv
  <2>2. CASE Unmoved
    BY <2>1, <2>2, UnmovedStep DEF AloneInv
  <2>3. ASSUME NEW d \in Place \ {Birth}, ByHand(d) PROVE AloneInv'
    BY <2>1, <2>3, ByHandStep DEF AloneInv
  <2>4. ASSUME NEW d \in Place \ {Birth}, Away(d) PROVE AloneInv'
    BY <2>1, <2>4, AwayStep DEF AloneInv
  <2> QED BY <1>2, <2>2, <2>3, <2>4 DEF AloneInv
<1> QED BY <1>1, <1>2

LEMMA AloneStarts == Init => AloneInv
  BY InitType DEF Init, AloneInv, Unmoved, BirthOp, LinksAt, Idle

\* One move is found again whatever it was killed at, and a fleet that says
\* nothing is left to do has nothing left; its log and copies are in order.
LEMMA AloneImplies == AloneInv => MoveFindable /\ MoveSafety
<1> SUFFICES ASSUME AloneInv PROVE MoveFindable /\ MoveSafety
  OBVIOUS
<1>1. TypeOK /\ Birth \in Place /\ Relative \notin Place
  BY PlaceAssumption DEF AloneInv
<1>2. ASSUME Unmoved PROVE MoveFindable /\ HistoryChains /\ UndoThere
  <2>1. ~Pending(db) /\ db.log = <<>>
    BY <1>1, <1>2, LogsPend DEF Unmoved
  <2> QED BY <1>2, <2>1 DEF Unmoved, MoveFindable, Settled, HistoryChains, UndoThere, LinksAt
<1>3. ASSUME NEW d \in Place \ {Birth}, ByHand(d) PROVE MoveFindable /\ HistoryChains /\ UndoThere
  <2>1. ~Pending(db)
    BY <1>1, <1>3, LogsPend DEF ByHand
  <2>2. db.home = place => Settled
    BY <1>3, <2>1 DEF ByHand, Settled, Ready, LinksAt
  <2>3. HistoryChains
    <3>1. CASE db.log = <<>>
      BY <3>1 DEF HistoryChains
    <3>2. CASE db.log = <<Moved(Birth, d)>> /\ db.home = d
      <4>1. Len(db.log) = 1 /\ Last(db.log) = Moved(Birth, d)
        BY <3>2 DEF Last
      <4> QED BY <3>2, <4>1 DEF HistoryChains, Moved
    <3> QED BY <1>3, <3>1, <3>2 DEF ByHand
  <2> QED BY <2>1, <2>2, <2>3 DEF MoveFindable, UndoThere
<1>4. ASSUME NEW d \in Place \ {Birth}, Away(d) PROVE MoveFindable /\ HistoryChains /\ UndoThere
  <2> DEFINE a == Moving(Birth, d)
             b == Moved(Birth, d)
  <2>1. a.from = Birth /\ a.to = d /\ b.from = Birth /\ b.to = d /\ b.kind = "moved"
    BY DEF Moving, Moved
  <2>2. CASE Blank(db)
    <3>1. ~Pending(db)
      BY <1>1, <1>4, <2>2, LogsPend DEF Blank
    <3> QED BY <1>4, <2>2, <3>1 DEF Blank, Away, MoveFindable, Settled, HistoryChains, UndoThere, LinksAt
  <2>3. CASE db.log = <<a>> /\ db.home = d
    <3>1. Pending(db) /\ Last(db.log) = a /\ Len(db.log) = 1 /\ db.log # <<>>
      BY <1>4, <2>3, LogsPend
    <3>2. \E c \in backups : c.home = Birth /\ ~Pending(c)
      BY <1>4, <3>1 DEF Away, Blank, Pending
    <3> QED BY <1>4, <2>1, <2>3, <3>1, <3>2 DEF Away, MoveFindable, HistoryChains, UndoThere
  <2>4. CASE db.log = <<a, b>> /\ db.home = d /\ db.repo = d /\ registry = d /\ LinksAt(d)
    <3>1. ~Pending(db)
      BY <1>4, <2>4, LogsPend
    <3> HIDE DEF a, b
    <3>2. Len(db.log) = 2 /\ db.log[1] = a /\ db.log[2] = b /\ Last(db.log) = b
      BY <2>4 DEF Last
    <3>3. HistoryChains
      <4>1. \A i \in 1 .. Len(db.log) - 1 : i = 1
        BY <3>2
      <4> QED BY <2>1, <2>4, <3>2, <4>1 DEF HistoryChains, a, b
    <3> QED BY <1>4, <2>4, <3>1, <3>3 DEF Away, MoveFindable, Settled, UndoThere, LinksAt
  <2> QED BY <1>4, <2>2, <2>3, <2>4 DEF Away
<1> QED BY <1>1, <1>2, <1>3, <1>4 DEF AloneInv, MoveSafety

-----------------------------------------------------------------------------
(* The slices together *)

\* In each slice its own invariant holds.
SliceInv ==
  /\ slice \in {"races", "signals"} => IInv
  /\ slice = "alone" => AloneInv

LEMMA SliceStarts == StepsInit => SliceInv
  BY InitIInv, AloneStarts DEF StepsInit, SliceInv

LEMMA SliceStep == SliceInv /\ [StepsNext]_sVars => SliceInv'
<1> SUFFICES ASSUME SliceInv, [StepsNext]_sVars PROVE SliceInv'
  OBVIOUS
<1>1. CASE Moves("races") /\ Next
  <2>1. slice = "races" /\ slice' = slice /\ [Next]_vars
    BY <1>1 DEF Moves, In
  <2> QED BY <2>1, StepIInv DEF SliceInv
<1>2. CASE Moves("alone") /\ Alone!Next
  <2>1. slice = "alone" /\ slice' = slice /\ [Alone!Next]_vars
    BY <1>2 DEF Moves, In
  <2> QED BY <2>1, AloneInvStep DEF SliceInv
<1>3. CASE UNCHANGED <<vars, slice>>
  <2>1. [Next]_vars /\ [Alone!Next]_vars /\ slice' = slice
    BY <1>3
  <2> QED BY <2>1, StepIInv, AloneInvStep DEF SliceInv
<1>4. UNCHANGED sVars \/ Signals => UNCHANGED <<vars, slice>>
  BY DEF sVars, Signals, In
<1> QED BY <1>1, <1>2, <1>3, <1>4 DEF StepsNext

\* The log of moves is a history and a pending move can be undone, also while moves overtake each other.
THEOREM StepsMoves == StepsSpec => []MoveSafety
<1>1. IInv => MoveSafety
  BY DEF IInv, MoveSafety, AllChained, Chained, HistoryChains
<1>2. StepsInit => slice \in {"races", "alone", "signals"}
  BY DEF StepsInit
<1>3. slice \in {"races", "alone", "signals"} /\ [StepsNext]_sVars => (slice \in {"races", "alone", "signals"})'
  BY DEF StepsNext, Moves, Signals, In, sVars
<1>4. slice \in {"races", "alone", "signals"} /\ SliceInv => MoveSafety
  BY <1>1, AloneImplies DEF SliceInv
<1> QED BY <1>2, <1>3, <1>4, SliceStarts, SliceStep, PTL DEF StepsSpec

\* Of one move, whatever it and the runs that finish it were killed at: the
\* marker tells where the fleet is, and with no marker left and the recorded
\* home where the folder is, nothing is left to do.
THEOREM OneMoveFound == StepsSpec => []AloneFindable
<1>1. SliceInv => AloneFindable
  BY AloneImplies DEF SliceInv, AloneFindable
<1> QED BY <1>1, SliceStarts, SliceStep, PTL DEF StepsSpec
=============================================================================
