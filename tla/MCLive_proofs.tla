--------------------------- MODULE MCLive_proofs ----------------------------
(***************************************************************************)
(* Proofs about SelfUpdate, BoardPage, HostFleets and WatcherKeeper, for   *)
(* any number of fleets, pages, requests, boards, watchers, commands,      *)
(* kills and mishaps.  Each section has the inductive invariant of one of  *)
(* them, what its actions do to what the invariant is about, and a lemma   *)
(* per part of the invariant; the last one puts them together.             *)
(***************************************************************************)
EXTENDS MCLive, SequenceTheorems, TLAPS

-----------------------------------------------------------------------------
(* SelfUpdate: the inductive invariant *)

Lists == [watcher : SUBSET Fleets, supervisor : SUBSET Fleets, board : BOOLEAN, init : SUBSET Fleets]
Units == [kind : {"watcher", "supervisor", "init"}, fleet : Fleets] \cup {Board}
OfFleet == {"stopWatcher", "killWatcher", "still", "stopSupervisor", "quiet", "stopServer", "startServer",
            "restore", "note", "startWatcher"}
Late == {"visit", "killBoard", "startBoard", "init"} \cup OfFleet
Places == {"idle", "repair", "fetch", "pin", "backup", "save", "iroh", "hand"} \cup Late
Runs == [at : Places, auto : BOOLEAN, keep : BOOLEAN, full : BOOLEAN, todo : SUBSET (Fleets \cup Units),
         fleet : Fleets \cup {Idle.fleet}, switch : BOOLEAN, stopped : BOOLEAN, did : BOOLEAN, had : BOOLEAN,
         bad : BOOLEAN, mine : Lists]

\* The variables that are no part of the update that runs.
FleetTypes ==
  /\ watcher \in [Fleets -> {"up", "down", "other"}] /\ sup \in [Fleets -> BOOLEAN]
  /\ server \in [Fleets -> {"old", "new", "down"}] /\ busy \in [Fleets -> BOOLEAN]
  /\ schema \in [Fleets -> {"old", "new"}] /\ board \in BOOLEAN
FileTypes ==
  /\ hand \in {"old", "new"} /\ pin \in {"old", "new"} /\ iroh \in {"none", "old", "new"}
  /\ saved \subseteq Fleets /\ failed \subseteq Fleets /\ sweep \subseteq Fleets
CountTypes == kills \in 0 .. MaxKills /\ fails \in 0 .. MaxFails /\ work \in 0 .. MaxWork
VarTypes == FleetTypes /\ FileTypes /\ CountTypes

\* The update that runs, its journal and what it owes.
Links ==
  /\ journal \in [found : BOOLEAN, list : Lists] /\ run \in Runs /\ owed \subseteq Units
  /\ run.at \in OfFleet => run.fleet \in Fleets
  /\ ~At("idle") /\ ~At("repair") => journal.list = run.mine

UpdateTypes == VarTypes /\ Links

\* What the journal holds at each step of the update.
Journal ==
  /\ ~journal.found => journal.list = Empty
  /\ run.at \in {"repair", "fetch", "pin", "backup", "save"} => run.mine = Empty
  /\ run.at \in {"iroh", "hand"} => run.mine.watcher = {} /\ run.mine.supervisor = {} /\ ~run.mine.board
  /\ run.at \in {"pin", "backup", "save", "iroh", "hand"} => run.full
  /\ run.at \in OfFleet \cup {"visit"} /\ ~run.full => run.mine.init = {}
  /\ At("killWatcher") => run.fleet \in run.mine.watcher
  /\ At("stopSupervisor") => run.fleet \in run.mine.supervisor
  /\ At("killBoard") => run.mine.board

\* What is owed and was not told is on record; past the replacing of binaries
\* a watcher only while its fleet is worked on, the board only while it is
\* about to be started, a fleet's init only until its turn.
Open == owed \ said
Owing ==
  /\ \A f \in Fleets : /\ Unit("watcher", f) \in Open => f \in journal.list.watcher
                       /\ Unit("supervisor", f) \in Open => f \in journal.list.supervisor
                       /\ Unit("init", f) \in Open => f \in journal.list.init
  /\ Board \in Open => journal.list.board
  /\ At("repair") => run.todo \cap Open = {}
  /\ run.at \in Late =>
       /\ \A f \in Fleets : Unit("watcher", f) \in Open =>
            run.at \in OfFleet /\ f = run.fleet /\ run.did /\ run.stopped
       /\ Board \in Open => At("startBoard")
       /\ At("init") => \A f \in Fleets : Unit("init", f) \in Open => f \in run.todo

\* What a switch of a server rests on.
Switching ==
  /\ sweep # {} => board
  /\ run.at \in {"stopWatcher", "killWatcher"} => ~run.stopped
  /\ At("still") => run.switch
  /\ run.at \in {"stopWatcher", "killWatcher", "still"} /\ run.switch /\ run.auto => run.fleet \notin failed
  /\ run.at \in {"still", "stopSupervisor", "quiet"} => (watcher[run.fleet] = "up" => board)
  /\ At("quiet") => ~sup[run.fleet]

\* hand is replaced when everything is saved and the sidecar was.
Replacing ==
  /\ hand = "new" \/ run.at \in {"save", "iroh", "hand"} => saved = Fleets
  /\ hand = "new" \/ At("hand") => (Carried => iroh = "new")
  /\ MigratedSaved

UpdateInv == UpdateTypes /\ Journal /\ Owing /\ Switching /\ Replacing

-----------------------------------------------------------------------------
(* SelfUpdate: what the steps do to the update that runs and to its journal *)

Fields == {"at", "auto", "keep", "full", "todo", "fleet", "switch", "stopped", "did", "had", "bad", "mine"}
Entries == {"watcher", "supervisor", "board", "init"}

\* Of the update that runs only the fields in C change.
Agrees(r, C) == r \in Runs /\ \A x \in Fields \ C : r[x] = run[x]
Moves(C) == Agrees(run', C)

\* In the list of what the update took down, entry x is v.
Edited(m, x, v) == m \in Lists /\ m[x] = v /\ \A y \in Entries \ {x} : m[y] = run.mine[y]

\* The list goes to disk and to memory, with entry x as v.
Writes(x, v) == Edited(run'.mine, x, v) /\ journal' = [found |-> TRUE, list |-> run'.mine]

\* It does, or the write fails.
Strikes(x, v) ==
  Writes(x, v) \/ (journal' = journal /\ run'.mine = run.mine)

\* A unit is told from another by its kind and its fleet; the board is none of a fleet.
LEMMA UnitsApart ==
  /\ \A k, l \in {"watcher", "supervisor", "init"}, f, g \in Fleets : Unit(k, f) = Unit(l, g) <=> k = l /\ f = g
  /\ \A k \in {"watcher", "supervisor", "init"}, f \in Fleets : Unit(k, f) # Board /\ Unit(k, f) \in Units
  /\ Board \in Units
  BY DEF Unit, Board, Units

\* What an update and its list are at first.
LEMMA FirstRun ==
  /\ Empty \in Lists /\ Empty.watcher = {} /\ Empty.supervisor = {} /\ ~Empty.board /\ Empty.init = {}
  /\ NoFile \in [found : BOOLEAN, list : Lists] /\ NoFile.list = Empty /\ ~NoFile.found
  /\ Idle \in Runs /\ Idle.at = "idle" /\ Idle.mine = Empty
  BY DEF Empty, Lists, NoFile, Idle, Runs, Places

\* The edits that the steps make of the list.
LEMMA EditTypes ==
  ASSUME run \in Runs, NEW f \in Fleets
  PROVE  /\ Edited([run.mine EXCEPT !.watcher = @ \cup {f}], "watcher", run.mine.watcher \cup {f})
         /\ Edited([run.mine EXCEPT !.watcher = @ \ {f}], "watcher", run.mine.watcher \ {f})
         /\ Edited([run.mine EXCEPT !.supervisor = @ \cup {f}], "supervisor", run.mine.supervisor \cup {f})
         /\ Edited([run.mine EXCEPT !.supervisor = @ \ {f}], "supervisor", run.mine.supervisor \ {f})
         /\ Edited([run.mine EXCEPT !.init = @ \ {f}], "init", run.mine.init \ {f})
<1>1. run.mine \in Lists
  BY DEF Runs
<1> QED BY <1>1 DEF Edited, Entries, Lists

LEMMA BoardEdits ==
  ASSUME run \in Runs, NEW b \in BOOLEAN
  PROVE  Edited([run.mine EXCEPT !.board = b], "board", b)
<1>1. run.mine \in Lists
  BY DEF Runs
<1> QED BY <1>1 DEF Edited, Entries, Lists

\* Going on changes the place alone.
LEMMA GoesTo ==
  ASSUME run \in Runs, NEW place \in Places, Goes(place)
  PROVE  Moves({"at"}) /\ run'.at = place
  BY DEF Goes, Moves, Agrees, Fields, Runs

\* An update records list m with its next step r, a change of the fields C.
LEMMA RecordsMine ==
  ASSUME NEW C, "mine" \in C, NEW r, Agrees(r, C), NEW m \in Lists, Recorded(m, r)
  PROVE  /\ Moves(C) /\ run'.mine = m /\ journal' = [found |-> TRUE, list |-> m]
         /\ \A y \in Fields \ {"mine"} : run'[y] = r[y]
<1>1. run' = [r EXCEPT !.mine = m] /\ journal' = [found |-> TRUE, list |-> m]
  BY DEF Recorded
<1>2. run' \in Runs /\ run'.mine = m /\ \A y \in Fields \ {"mine"} : run'[y] = r[y]
  BY <1>1 DEF Runs, Fields, Agrees
<1> QED BY <1>1, <1>2 DEF Moves, Agrees

LEMMA RecordsIn ==
  ASSUME NEW C, "mine" \in C, NEW r, Agrees(r, C),
         NEW x, NEW v, NEW m, Edited(m, x, v), Recorded(m, r)
  PROVE  /\ Moves(C) /\ Writes(x, v)
         /\ \A y \in Fields \ {"mine"} : run'[y] = r[y]
<1>1. m \in Lists
  BY DEF Edited
<1> QED BY <1>1, RecordsMine DEF Writes

\* It strikes out in the same way, or the write fails.
LEMMA StrikesIn ==
  ASSUME NEW C, "mine" \in C, NEW r, Agrees(r, C), r.mine = run.mine,
         NEW x, NEW v, NEW m, Edited(m, x, v), Unrecorded(m, r)
  PROVE  /\ Moves(C) /\ Strikes(x, v)
         /\ \A y \in Fields \ {"mine"} : run'[y] = r[y]
<1>1. CASE Recorded(m, r)
  BY <1>1, RecordsIn DEF Strikes
<1>2. CASE UNCHANGED journal /\ run' = r
  BY <1>2 DEF Strikes, Moves, Agrees
<1> QED BY <1>1, <1>2 DEF Unrecorded

\* What was written is the journal, on disk and in memory.
LEMMA WritesLink ==
  ASSUME NEW x, NEW v, Writes(x, v)
  PROVE  /\ journal' \in [found : BOOLEAN, list : Lists] /\ journal'.list = run'.mine /\ journal'.found
         /\ Edited(run'.mine, x, v)
  BY DEF Writes, Edited

LEMMA StrikesLink ==
  ASSUME Links, ~At("idle"), ~At("repair"), NEW x, NEW v, Strikes(x, v)
  PROVE  /\ journal' \in [found : BOOLEAN, list : Lists] /\ journal'.list = run'.mine
         /\ (journal'.found /\ Edited(run'.mine, x, v)) \/ (journal' = journal /\ run'.mine = run.mine)
<1>1. CASE Writes(x, v)
  BY <1>1, WritesLink
<1>2. CASE journal' = journal /\ run'.mine = run.mine
  BY <1>2 DEF Links
<1> QED BY <1>1, <1>2 DEF Strikes


\* An update begins with what an earlier one left.
LEMMA BeginEffect ==
  ASSUME UpdateTypes, Journal, NEW auto \in BOOLEAN, NEW keep \in BOOLEAN, Begin(auto, keep)
  PROVE  /\ At("idle") /\ UNCHANGED <<owed, said>> /\ run' \in Runs /\ run'.at \in {"repair", "fetch"} /\ run'.mine = Empty /\ run'.todo = {}
         /\ journal' \in [found : BOOLEAN, list : Lists] /\ journal'.list = journal.list
         /\ ~journal'.found => journal'.list = Empty
         /\ run'.at = "fetch" => journal'.list = Empty
<1>1. \E p \in {"repair", "fetch"} :
        /\ run' = [Idle EXCEPT !.at = p, !.auto = auto, !.keep = keep]
        /\ p = "fetch" => ~(journal.found /\ journal.list # Empty)
  BY DEF Begin
<1>2. /\ run' \in Runs /\ run'.at \in {"repair", "fetch"} /\ run'.mine = Empty /\ run'.todo = {}
      /\ run'.at = "fetch" => ~(journal.found /\ journal.list # Empty)
  BY ZenonT(40), <1>1, FirstRun DEF Runs, Idle, Places
<1>3. journal' = IF journal.list = Empty THEN NoFile ELSE journal
  BY DEF Begin
<1> QED BY <1>2, <1>3, FirstRun DEF Begin, UpdateTypes, Links, Journal

\* A job of the journal is done or told, or all were.
LEMMA RepairEffect ==
  ASSUME UpdateTypes, Repair
  PROVE  /\ At("repair")
         /\ \/ \E u \in Units :
                 /\ Moves({"todo"}) /\ run'.todo = run.todo \cup {u} /\ journal' = journal
                 /\ \/ owed' = owed \ {u} /\ said' = said
                    \/ owed' = owed /\ said' = said \cup {u}
            \/ /\ Moves({"at", "todo"}) /\ run'.at = "fetch" /\ run'.todo = {} /\ journal' = NoFile
               /\ \A f \in journal.list.watcher : Unit("watcher", f) \in run.todo
               /\ \A f \in journal.list.supervisor : Unit("supervisor", f) \in run.todo
               /\ \A f \in journal.list.init : Unit("init", f) \in run.todo
               /\ journal.list.board => Board \in run.todo
               /\ UNCHANGED <<owed, said>>
<1> USE DEF UpdateTypes, Links
<1>0. journal.list \in Lists
  OBVIOUS
<1>1. ASSUME NEW u \in Units, run' = [run EXCEPT !.todo = @ \cup {u}]
      PROVE  Moves({"todo"}) /\ run'.todo = run.todo \cup {u}
  BY <1>1 DEF Moves, Agrees, Runs, Fields
<1>2. ASSUME run' = [run EXCEPT !.at = "fetch", !.todo = {}]
      PROVE  Moves({"at", "todo"}) /\ run'.at = "fetch" /\ run'.todo = {}
  BY <1>2 DEF Moves, Agrees, Runs, Fields, Places
<1> DEFINE Step(u) == /\ run' = [run EXCEPT !.todo = @ \cup {u}] /\ journal' = journal
                      /\ \/ owed' = owed \ {u} /\ said' = said
                         \/ owed' = owed /\ said' = said \cup {u}
           Last == /\ run' = [run EXCEPT !.at = "fetch", !.todo = {}] /\ journal' = NoFile
                   /\ \A f \in journal.list.watcher : Unit("watcher", f) \in run.todo
                   /\ \A f \in journal.list.supervisor : Unit("supervisor", f) \in run.todo
                   /\ \A f \in journal.list.init : Unit("init", f) \in run.todo
                   /\ journal.list.board => Board \in run.todo
                   /\ UNCHANGED <<owed, said>>
<1>3. /\ At("repair")
      /\ \/ \E f \in journal.list.watcher : Step(Unit("watcher", f))
         \/ \E f \in journal.list.supervisor : Step(Unit("supervisor", f))
         \/ Step(Board)
         \/ \E f \in journal.list.init : Step(Unit("init", f))
         \/ Last
  BY Zenon DEF Repair, Told
<1>4. /\ journal.list.watcher \subseteq Fleets /\ journal.list.supervisor \subseteq Fleets
      /\ journal.list.init \subseteq Fleets
  BY <1>0 DEF Lists
<1> HIDE DEF Step, Last, UpdateTypes, Links
<1>5. (\E u \in Units : Step(u)) \/ Last
  BY <1>3, <1>4, UnitsApart
<1>6. CASE \E u \in Units : Step(u)
  <2>1. PICK u \in Units : Step(u)
    BY <1>6
  <2>2. Moves({"todo"}) /\ run'.todo = run.todo \cup {u}
    BY <1>1, <2>1 DEF Step
  <2> QED BY <1>3, <2>1, <2>2 DEF Step
<1>7. CASE Last
  BY <1>2, <1>3, <1>7 DEF Last
<1> QED BY <1>5, <1>6, <1>7

\* The newest build is there, or the update ends.
LEMMA FetchEffect ==
  ASSUME UpdateTypes, Fetch
  PROVE  /\ At("fetch") /\ UNCHANGED <<journal, owed, said>>
         /\ \/ run' = Idle
            \/ Moves({"at", "full", "todo"}) /\ run'.at \in {"pin", "backup"} /\ run'.full
            \/ Moves({"at", "full", "todo"}) /\ run'.at = "visit" /\ ~run'.full
<1> USE DEF UpdateTypes, Links
<1>1. ASSUME NEW t \in SUBSET Fleets, run' = [run EXCEPT !.at = "visit", !.full = FALSE, !.todo = t]
      PROVE  Moves({"at", "full", "todo"}) /\ run'.at = "visit" /\ ~run'.full
  BY <1>1 DEF Moves, Agrees, Runs, Fields, Places, Late
<1>2. ASSUME NEW p \in {"pin", "backup"}, run' = [run EXCEPT !.at = p, !.full = TRUE, !.todo = Fleets]
      PROVE  Moves({"at", "full", "todo"}) /\ run'.at = p /\ run'.full
  BY <1>2 DEF Moves, Agrees, Runs, Fields, Places
<1>3. \/ run' = Idle
      \/ \E t \in SUBSET Fleets : run' = [run EXCEPT !.at = "visit", !.full = FALSE, !.todo = t]
      \/ \E p \in {"pin", "backup"} : run' = [run EXCEPT !.at = p, !.full = TRUE, !.todo = Fleets]
  BY DEF Fetch, Refuses, Ends
<1> QED BY <1>1, <1>2, <1>3 DEF Fetch

\* What is to be done at the end is on record before anything is replaced.
LEMMA SaveEffect ==
  ASSUME UpdateTypes, Journal, Save
  PROVE  /\ At("save") /\ said' = said
         /\ \/ run' = Idle /\ UNCHANGED <<journal, owed>>
            \/ /\ Moves({"at", "mine"}) /\ run'.at = (IF Current THEN "visit" ELSE "iroh")
               /\ Writes("init", Fleets) /\ owed' = owed \cup {Unit("init", f) : f \in Fleets}
<1> USE DEF UpdateTypes, Links
<1> DEFINE p == IF Current THEN "visit" ELSE "iroh"
           r == [run EXCEPT !.at = p]
<1>1. p \in Places
  BY DEF Places, Late
<1>2. r \in Runs /\ r.at = p /\ Agrees(r, {"at", "mine"})
  BY <1>1 DEF Runs, Fields, Agrees
<1>3. At("save") => Edited([Empty EXCEPT !.init = Fleets], "init", Fleets)
  BY FirstRun DEF Journal, Edited, Entries, Lists, At
<1>4. ASSUME Recorded([Empty EXCEPT !.init = Fleets], r), At("save")
      PROVE  Moves({"at", "mine"}) /\ run'.at = p /\ Writes("init", Fleets)
  <2> HIDE DEF r
  <2>1. Moves({"at", "mine"}) /\ Writes("init", Fleets) /\ \A y \in Fields \ {"mine"} : run'[y] = r[y]
    BY <1>2, <1>3, <1>4, RecordsIn
  <2> QED BY <1>2, <2>1 DEF Fields
<1> QED BY <1>4 DEF Save, Ends

\* A swap works, or the update ends as if it had not been recorded.
LEMMA SwapEffect ==
  ASSUME UpdateTypes, SwapIroh \/ SwapHand
  PROVE  /\ said' = said
         /\ \/ Moves({"at"}) /\ UNCHANGED <<journal, owed>> /\ SwapIroh /\ At("iroh") /\ run'.at = "hand"
            \/ Moves({"at"}) /\ UNCHANGED <<journal, owed>> /\ SwapHand /\ At("hand") /\ run'.at = "visit"
            \/ /\ run.at \in {"iroh", "hand"} /\ run' = Idle /\ journal' = NoFile
               /\ owed' = owed \ {Unit("init", f) : f \in Fleets} /\ UNCHANGED <<hand, iroh>>
<1>1. "hand" \in Places /\ "visit" \in Places
  BY DEF Places, Late
<1>2. ASSUME SwapIroh PROVE \/ Goes("hand") /\ UNCHANGED <<journal, owed>> /\ At("iroh")
                            \/ SwapFails /\ UNCHANGED <<hand, iroh>> /\ At("iroh")
  BY <1>2 DEF SwapIroh
<1>3. ASSUME SwapHand PROVE \/ Goes("visit") /\ UNCHANGED <<journal, owed>> /\ At("hand")
                            \/ SwapFails /\ UNCHANGED <<hand, iroh>> /\ At("hand")
  BY <1>3 DEF SwapHand
<1>4. said' = said
  BY DEF SwapIroh, SwapHand
<1> QED BY <1>4, <1>1, <1>2, <1>3, GoesTo DEF SwapFails, Ends, At, UpdateTypes, Links

\* A fleet is next.
LEMMA VisitEffect ==
  ASSUME UpdateTypes, NEW f \in Fleets, Visit(f)
  PROVE  /\ At("visit") /\ UNCHANGED <<journal, owed, said>> /\ run'.fleet = f /\ ~run'.stopped /\ ~run'.did
         /\ Moves({"at", "todo", "fleet", "switch", "stopped", "did", "had", "bad"})
         /\ run'.at \in {"stopWatcher", "visit"}
         /\ run'.switch /\ run.auto => f \notin failed
<1> USE DEF UpdateTypes, Links
<1>1. \E p \in {"stopWatcher", "visit"}, s \in BOOLEAN :
        /\ s /\ run.auto => f \notin failed
        /\ run' = [run EXCEPT !.todo = @ \ {f}, !.fleet = f, !.switch = s, !.stopped = FALSE, !.did = FALSE,
                              !.had = FALSE, !.bad = FALSE, !.at = p]
  <2>1. (Ready(f) /\ ~run.keep) \in BOOLEAN /\ (Ready(f) /\ ~run.keep /\ run.auto => f \notin failed)
    BY DEF Ready
  <2> DEFINE s == Ready(f) /\ ~run.keep
  <2>2. \E p \in {"stopWatcher", "visit"} :
          run' = [run EXCEPT !.todo = @ \ {f}, !.fleet = f, !.switch = s, !.stopped = FALSE, !.did = FALSE,
                              !.had = FALSE, !.bad = FALSE, !.at = p]
    BY DEF Visit
  <2> QED BY <2>1, <2>2
<1>2. PICK p \in {"stopWatcher", "visit"}, s \in BOOLEAN :
        /\ s /\ run.auto => f \notin failed
        /\ run' = [run EXCEPT !.todo = @ \ {f}, !.fleet = f, !.switch = s, !.stopped = FALSE, !.did = FALSE,
                              !.had = FALSE, !.bad = FALSE, !.at = p]
  BY <1>1
<1>3. /\ run' \in Runs /\ run'.fleet = f /\ ~run'.stopped /\ ~run'.did /\ run'.at = p /\ run'.switch = s
  BY ZenonT(40), <1>2 DEF Runs, Places, Late, OfFleet
<1>4. \A x \in {"auto", "keep", "full", "mine"} : run'[x] = run[x]
  BY <1>2 DEF Runs
<1>5. \A x \in Fields \ {"at", "todo", "fleet", "switch", "stopped", "did", "had", "bad"} : run'[x] = run[x]
  BY <1>4 DEF Fields
<1> QED BY <1>2, <1>3, <1>5 DEF Moves, Agrees, Visit

\* Where the step that stops a watcher leads.
LEMMA AfterStopEffect ==
  ASSUME NEW C, "at" \in C, "switch" \notin C, NEW r, Agrees(r, C), run' = AfterStop(r)
  PROVE  /\ Moves(C) /\ run'.stopped = r.stopped /\ run'.did = r.did
         /\ run'.at = IF run.switch /\ run'.stopped THEN "still" ELSE "startWatcher"
<1> DEFINE p == IF r.switch /\ r.stopped THEN "still" ELSE "startWatcher"
<1>1. p \in Places /\ run' = [r EXCEPT !.at = p]
  BY DEF AfterStop, Places, Late, OfFleet
<1> HIDE DEF p
<1>2. run' \in Runs /\ run'.at = p /\ \A x \in Fields \ {"at"} : run'[x] = r[x]
  BY <1>1 DEF Runs, Fields, Agrees
<1>3. run'.stopped = r.stopped /\ run'.did = r.did /\ run.switch = r.switch
  BY <1>2 DEF Fields, Agrees
<1> QED BY <1>2, <1>3 DEF Moves, Agrees, p

\* The watcher of a fleet is to be stopped.
LEMMA MarkWatcherEffect ==
  ASSUME UpdateTypes, MarkWatcher
  PROVE  /\ At("stopWatcher") /\ said \subseteq said' /\ owed' = owed /\ run.fleet \in Fleets
         /\ \/ /\ Moves({"at", "stopped"}) /\ journal' = journal
               /\ run'.at = IF run.switch /\ run'.stopped THEN "still" ELSE "startWatcher"
               /\ run'.stopped = run.stopped \/ (run'.stopped /\ watcher[run.fleet] = "down")
            \/ /\ Moves({"at", "mine"}) /\ run'.at = "killWatcher"
               /\ Writes("watcher", run.mine.watcher \cup {run.fleet})
<1> USE DEF UpdateTypes, Links
<1> DEFINE f == run.fleet
           r == [run EXCEPT !.stopped = TRUE]
           k == [run EXCEPT !.at = "killWatcher"]
           m == [run.mine EXCEPT !.watcher = @ \cup {f}]
<1>1. At("stopWatcher") /\ f \in Fleets
  BY DEF MarkWatcher, At, OfFleet
<1>2. r \in Runs /\ r.stopped /\ Agrees(r, {"at", "stopped"})
  BY DEF Runs, Fields, Agrees
<1>3. k \in Runs /\ k.at = "killWatcher" /\ Agrees(k, {"at", "mine"})
  BY DEF Runs, Fields, Places, Late, OfFleet, Agrees
<1>4. Edited(m, "watcher", run.mine.watcher \cup {f})
  BY <1>1, EditTypes
<1>5. \/ run' = AfterStop(r) /\ journal' = journal /\ said' = said /\ watcher[f] = "down"
      \/ run' = AfterStop(run) /\ journal' = journal /\ said \subseteq said'
      \/ Recorded(m, k) /\ said' = said
  BY DEF MarkWatcher, Told
<1> HIDE DEF r, k, m, f
<1>6. ASSUME run' = AfterStop(r)
      PROVE  /\ Moves({"at", "stopped"}) /\ run'.stopped
             /\ run'.at = IF run.switch /\ run'.stopped THEN "still" ELSE "startWatcher"
  BY <1>2, <1>6, AfterStopEffect
<1>7. ASSUME run' = AfterStop(run)
      PROVE  /\ Moves({"at", "stopped"}) /\ run'.stopped = run.stopped
             /\ run'.at = IF run.switch /\ run'.stopped THEN "still" ELSE "startWatcher"
  <2>1. Agrees(run, {"at", "stopped"})
    BY DEF Agrees
  <2> QED BY <1>7, <2>1, AfterStopEffect
<1>8. ASSUME Recorded(m, k)
      PROVE  /\ Moves({"at", "mine"}) /\ run'.at = "killWatcher"
             /\ Writes("watcher", run.mine.watcher \cup {f})
  <2>1. "at" \in Fields \ {"mine"}
    BY DEF Fields
  <2> QED BY <1>3, <1>4, <1>8, <2>1, RecordsIn
<1>9. owed' = owed /\ f \in Fleets
  BY <1>1 DEF MarkWatcher
<1> QED BY <1>1, <1>5, <1>6, <1>7, <1>8, <1>9 DEF f

\* It stops, or runs on.
LEMMA KillWatcherEffect ==
  ASSUME UpdateTypes, KillWatcher
  PROVE  /\ At("killWatcher") /\ run.fleet \in Fleets /\ journal' = journal
         /\ Moves({"at", "stopped", "did"}) /\ run'.did
         /\ run'.at = IF run.switch /\ run'.stopped THEN "still" ELSE "startWatcher"
         /\ \/ /\ run'.stopped /\ watcher' = [watcher EXCEPT ![run.fleet] = "down"]
               /\ owed' = owed \cup {Unit("watcher", run.fleet)} /\ said' = said
            \/ run'.stopped = run.stopped /\ said \subseteq said' /\ UNCHANGED <<watcher, owed>>
<1> USE DEF UpdateTypes, Links
<1> DEFINE r == [run EXCEPT !.stopped = TRUE, !.did = TRUE]
           q == [run EXCEPT !.did = TRUE]
<1>1. At("killWatcher") /\ run.fleet \in Fleets
  BY DEF KillWatcher, At, OfFleet
<1>2. r \in Runs /\ r.stopped /\ r.did /\ Agrees(r, {"at", "stopped", "did"})
  BY DEF Runs, Fields, Agrees
<1>3. q \in Runs /\ q.stopped = run.stopped /\ q.did /\ Agrees(q, {"at", "stopped", "did"})
  BY DEF Runs, Fields, Agrees
<1>4. \/ run' = AfterStop(r) /\ watcher' = [watcher EXCEPT ![run.fleet] = "down"]
         /\ owed' = owed \cup {Unit("watcher", run.fleet)} /\ said' = said
      \/ run' = AfterStop(q) /\ said \subseteq said' /\ UNCHANGED <<watcher, owed>>
  BY DEF KillWatcher, Told
<1> HIDE DEF r, q
<1>5. ASSUME run' = AfterStop(r)
      PROVE  /\ Moves({"at", "stopped", "did"}) /\ run'.did /\ run'.stopped
             /\ run'.at = IF run.switch /\ run'.stopped THEN "still" ELSE "startWatcher"
  BY <1>2, <1>5, AfterStopEffect
<1>6. ASSUME run' = AfterStop(q)
      PROVE  /\ Moves({"at", "stopped", "did"}) /\ run'.did /\ run'.stopped = run.stopped
             /\ run'.at = IF run.switch /\ run'.stopped THEN "still" ELSE "startWatcher"
  BY <1>3, <1>6, AfterStopEffect
<1>7. journal' = journal
  BY DEF KillWatcher
<1> QED BY <1>1, <1>4, <1>5, <1>6, <1>7

\* A quiet fleet's server is to be switched, its supervisor first if it has one.
LEMMA StillEffect ==
  ASSUME UpdateTypes, Still
  PROVE  /\ At("still") /\ UNCHANGED <<owed, said>> /\ run.fleet \in Fleets
         /\ \/ Moves({"at"}) /\ run'.at = "startWatcher" /\ journal' = journal
            \/ /\ Moves({"at"}) /\ run'.at = "stopServer" /\ journal' = journal
               /\ ~busy[run.fleet] /\ ~sup[run.fleet]
            \/ /\ Moves({"at", "had", "mine"}) /\ run'.at = "stopSupervisor"
               /\ Writes("supervisor", run.mine.supervisor \cup {run.fleet})
<1> USE DEF UpdateTypes, Links
<1> DEFINE f == run.fleet
           r == [run EXCEPT !.at = "stopSupervisor", !.had = TRUE]
           m == [run.mine EXCEPT !.supervisor = @ \cup {f}]
<1>1. At("still") /\ f \in Fleets /\ "startWatcher" \in Places /\ "stopServer" \in Places
  BY DEF Still, At, OfFleet, Places, Late
<1>2. r \in Runs /\ r.at = "stopSupervisor" /\ Agrees(r, {"at", "had", "mine"})
  BY DEF Runs, Fields, Places, Late, OfFleet, Agrees
<1>3. Edited(m, "supervisor", run.mine.supervisor \cup {f})
  BY <1>1, EditTypes
<1>4. \/ Goes("startWatcher") /\ journal' = journal
      \/ Goes("stopServer") /\ journal' = journal /\ ~busy[f] /\ ~sup[f]
      \/ Recorded(m, r)
  BY DEF Still
<1> HIDE DEF r, m, f
<1>5. ASSUME Recorded(m, r)
      PROVE  /\ Moves({"at", "had", "mine"}) /\ run'.at = "stopSupervisor"
             /\ Writes("supervisor", run.mine.supervisor \cup {f})
  <2>1. "at" \in Fields \ {"mine"}
    BY DEF Fields
  <2> QED BY <1>2, <1>3, <1>5, <2>1, RecordsIn
<1>6. UNCHANGED <<owed, said>>
  BY DEF Still
<1> QED BY <1>1, <1>4, <1>5, <1>6, GoesTo DEF f

\* The steps of a switch that record nothing.
LEMMA SwitchEffect ==
  ASSUME UpdateTypes, StopSupervisor \/ Quiet \/ StopServer \/ StartServer \/ Note
  PROVE  /\ journal' = journal /\ said \subseteq said' /\ run.fleet \in Fleets
         /\ run.at \in {"stopSupervisor", "quiet", "stopServer", "startServer", "note"}
         /\ owed' = IF run'.at = "quiet" THEN owed \cup {Unit("supervisor", run.fleet)} ELSE owed
         /\ Moves({"at", "bad"}) /\ run'.at \in {"quiet", "restore", "stopServer", "startServer", "startWatcher"}
         /\ run'.at = "quiet" => StopSupervisor /\ At("stopSupervisor")
         /\ run'.at = "stopServer" => At("quiet") /\ ~busy[run.fleet]
<1> USE DEF UpdateTypes, Links
<1> DEFINE Moved == /\ Moves({"at", "bad"})
                    /\ run'.at \in {"quiet", "restore", "stopServer", "startServer", "startWatcher"}
                    /\ run'.at = "quiet" => StopSupervisor /\ At("stopSupervisor")
                    /\ run'.at = "stopServer" => At("quiet") /\ ~busy[run.fleet]
<1>1. ASSUME NEW p \in {"quiet", "restore", "stopServer", "startServer", "startWatcher"}, NEW b \in BOOLEAN,
             run' = [run EXCEPT !.at = p, !.bad = b] \/ Goes(p)
      PROVE  Moves({"at", "bad"}) /\ run'.at = p
  BY ZenonT(40), <1>1 DEF Goes, Moves, Agrees, Runs, Fields, Places, Late, OfFleet
<1>2. ASSUME StopSupervisor PROVE Moved
  <2>1. At("stopSupervisor") /\ (Goes("quiet") \/ run' = [run EXCEPT !.at = "restore", !.bad = TRUE])
    BY <1>2 DEF StopSupervisor
  <2> QED BY <1>1, <1>2, <2>1
<1>3. ASSUME Quiet PROVE Moved
  <2>1. At("quiet") /\ (Goes("restore") \/ (Goes("stopServer") /\ ~busy[run.fleet]))
    BY <1>3 DEF Quiet
  <2> QED BY <1>1, <1>3, <2>1
<1>4. ASSUME StopServer PROVE Moved
  <2>1. Goes("startServer") \/ run' = [run EXCEPT !.at = "restore", !.bad = TRUE]
    BY <1>4 DEF StopServer
  <2> QED BY <1>1, <2>1
<1>5. ASSUME StartServer PROVE Moved
  <2>1. run' = [run EXCEPT !.at = "restore", !.bad = (server'[run.fleet] # pin)]
        \/ run' = [run EXCEPT !.at = "restore", !.bad = TRUE]
    BY <1>5 DEF StartServer
  <2> QED BY <1>1, <2>1
<1>6. ASSUME Note PROVE Moved
  <2>1. Goes("startWatcher")
    BY <1>6 DEF Note
  <2> QED BY <1>1, <2>1
<1>7. /\ journal' = journal /\ said \subseteq said' /\ run.fleet \in Fleets
      /\ run.at \in {"stopSupervisor", "quiet", "stopServer", "startServer", "note"}
  BY DEF StopSupervisor, Quiet, StopServer, StartServer, Note, At, OfFleet
<1>8. owed' = IF run'.at = "quiet" THEN owed \cup {Unit("supervisor", run.fleet)} ELSE owed
  <2>1. CASE StopSupervisor
    BY <2>1 DEF StopSupervisor, Goes, Runs
  <2>2. CASE ~StopSupervisor
    BY <1>2, <1>3, <1>4, <1>5, <1>6, <2>2 DEF Quiet, StopServer, StartServer, Note
  <2> QED BY <2>1, <2>2
<1> QED BY <1>2, <1>3, <1>4, <1>5, <1>6, <1>7, <1>8

\* A supervisor is resumed, or that is told.
LEMMA RestoreEffect ==
  ASSUME UpdateTypes, Restore
  PROVE  /\ At("restore") /\ run.fleet \in Fleets /\ run'.at = "note"
         /\ \/ Moves({"at"}) /\ journal' = journal /\ owed' = owed /\ said' = said
            \/ /\ Moves({"at", "mine"}) /\ Strikes("supervisor", run.mine.supervisor \ {run.fleet})
               /\ owed' = owed \ {Unit("supervisor", run.fleet)} /\ said' = said
            \/ /\ Moves({"at"}) /\ journal' = journal /\ owed' = owed
               /\ said' = said \cup {Unit("supervisor", run.fleet)}
<1> USE DEF UpdateTypes, Links
<1> DEFINE f == run.fleet
           r == [run EXCEPT !.at = "note"]
           m == [run.mine EXCEPT !.supervisor = @ \ {f}]
<1>1. At("restore") /\ f \in Fleets /\ "note" \in Places
  BY DEF Restore, At, OfFleet, Places, Late
<1>2. r \in Runs /\ r.at = "note" /\ r.mine = run.mine /\ Agrees(r, {"at", "mine"})
  BY <1>1 DEF Runs, Fields, Agrees
<1>3. Edited(m, "supervisor", run.mine.supervisor \ {f})
  BY <1>1, EditTypes
<1>4. \/ Goes("note") /\ journal' = journal /\ owed' = owed /\ said' = said
      \/ Unrecorded(m, r) /\ owed' = owed \ {Unit("supervisor", f)} /\ said' = said
      \/ Goes("note") /\ journal' = journal /\ owed' = owed /\ said' = said \cup {Unit("supervisor", f)}
  BY DEF Restore, Told
<1> HIDE DEF r, m, f
<1>5. ASSUME Unrecorded(m, r)
      PROVE  Moves({"at", "mine"}) /\ run'.at = "note" /\ Strikes("supervisor", run.mine.supervisor \ {f})
  <2>1. "at" \in Fields \ {"mine"}
    BY DEF Fields
  <2> QED BY <1>2, <1>3, <1>5, <2>1, StrikesIn
<1> QED BY <1>1, <1>4, <1>5, GoesTo DEF f

\* A watcher that was stopped is started, or that is told.
LEMMA StartWatcherEffect ==
  ASSUME UpdateTypes, StartWatcher
  PROVE  /\ At("startWatcher") /\ run.fleet \in Fleets /\ run'.at = "visit"
         /\ \/ Moves({"at"}) /\ journal' = journal /\ owed' = owed /\ said' = said /\ ~run.did
            \/ /\ Moves({"at", "mine"}) /\ Strikes("watcher", run.mine.watcher \ {run.fleet})
               /\ said' = said /\ owed' = (IF run.stopped THEN owed \ {Unit("watcher", run.fleet)} ELSE owed)
            \/ /\ Moves({"at", "mine"}) /\ Writes("watcher", run.mine.watcher \ {run.fleet})
               /\ owed' = owed /\ said' = said \cup {Unit("watcher", run.fleet)}
<1> USE DEF UpdateTypes, Links
<1> DEFINE f == run.fleet
           r == [run EXCEPT !.at = "visit"]
           m == [run.mine EXCEPT !.watcher = @ \ {f}]
<1>1. At("startWatcher") /\ f \in Fleets /\ "visit" \in Places
  BY DEF StartWatcher, At, OfFleet, Places, Late
<1>2. r \in Runs /\ r.at = "visit" /\ r.mine = run.mine /\ Agrees(r, {"at", "mine"})
  BY <1>1 DEF Runs, Fields, Agrees
<1>3. Edited(m, "watcher", run.mine.watcher \ {f})
  BY <1>1, EditTypes
<1>4. \/ Goes("visit") /\ journal' = journal /\ owed' = owed /\ said' = said /\ ~run.did
      \/ Unrecorded(m, r) /\ said' = said /\ owed' = (IF run.stopped THEN owed \ {Unit("watcher", f)} ELSE owed)
      \/ Recorded(m, r) /\ owed' = owed /\ said' = said \cup {Unit("watcher", f)}
  BY DEF StartWatcher, Told, Runs
<1> HIDE DEF r, m, f
<1>5. "at" \in Fields \ {"mine"}
  BY DEF Fields
<1>6. ASSUME Unrecorded(m, r)
      PROVE  Moves({"at", "mine"}) /\ run'.at = "visit" /\ Strikes("watcher", run.mine.watcher \ {f})
  BY <1>2, <1>3, <1>5, <1>6, StrikesIn
<1>7. ASSUME Recorded(m, r)
      PROVE  Moves({"at", "mine"}) /\ run'.at = "visit" /\ Writes("watcher", run.mine.watcher \ {f})
  BY <1>2, <1>3, <1>5, <1>7, RecordsIn
<1> QED BY <1>1, <1>4, <1>6, <1>7, GoesTo DEF f

\* The board is stopped when the fleets are done, if it runs.
LEMMA StopBoardEffect ==
  ASSUME UpdateTypes, StopBoard
  PROVE  /\ At("visit") /\ run.full /\ said \subseteq said' /\ owed' = owed /\ run.todo = {}
         /\ \/ Moves({"at", "todo"}) /\ run'.at = "init" /\ run'.todo = Fleets /\ journal' = journal
            \/ Moves({"at", "mine"}) /\ run'.at = "killBoard" /\ Writes("board", TRUE)
<1> USE DEF UpdateTypes, Links
<1> DEFINE r == [run EXCEPT !.at = "killBoard"]
           m == [run.mine EXCEPT !.board = TRUE]
<1>1. ASSUME run' = [run EXCEPT !.at = "init", !.todo = Fleets]
      PROVE  Moves({"at", "todo"}) /\ run'.at = "init" /\ run'.todo = Fleets
  BY <1>1 DEF Moves, Agrees, Runs, Fields, Places, Late
<1>2. r \in Runs /\ r.at = "killBoard" /\ Agrees(r, {"at", "mine"})
  BY DEF Runs, Fields, Places, Late, Agrees
<1>3. Edited(m, "board", TRUE)
  BY BoardEdits
<1>4. \/ run' = [run EXCEPT !.at = "init", !.todo = Fleets] /\ journal' = journal /\ said \subseteq said'
      \/ Recorded(m, r) /\ said' = said
  BY DEF StopBoard, Told
<1> HIDE DEF r, m
<1>5. ASSUME Recorded(m, r)
      PROVE  Moves({"at", "mine"}) /\ run'.at = "killBoard" /\ Writes("board", TRUE)
  <2>1. "at" \in Fields \ {"mine"} /\ m \in Lists
    BY <1>3 DEF Fields, Edited
  <2>2. /\ Moves({"at", "mine"}) /\ run'.mine = m /\ journal' = [found |-> TRUE, list |-> m]
        /\ run'.at = "killBoard"
    BY <1>2, <1>5, <2>1, RecordsMine
  <2> QED BY <1>3, <2>2 DEF Writes
<1> QED BY <1>1, <1>4, <1>5 DEF StopBoard

\* It stops, or runs on.
LEMMA KillBoardEffect ==
  ASSUME UpdateTypes, KillBoard
  PROVE  /\ journal' = journal /\ At("killBoard") /\ Moves({"at"}) /\ run'.at = "startBoard"
         /\ \/ owed' = owed \cup {Board} /\ said' = said /\ sweep' = {}
            \/ owed' = owed /\ said \subseteq said' /\ UNCHANGED <<sweep, board>>
<1>1. Goes("startBoard") /\ At("killBoard") /\ "startBoard" \in Places
  BY DEF KillBoard, Places, Late
<1> QED BY <1>1, GoesTo DEF KillBoard, Told, UpdateTypes, Links

\* It starts, or that is told.
LEMMA StartBoardEffect ==
  ASSUME UpdateTypes, StartBoard
  PROVE  /\ At("startBoard") /\ Moves({"at", "todo", "mine"}) /\ run'.at = "init" /\ run'.todo = Fleets
         /\ Strikes("board", FALSE)
         /\ \/ owed' = owed \ {Board} /\ said' = said
            \/ owed' = owed /\ said' = said \cup {Board}
<1> USE DEF UpdateTypes, Links
<1> DEFINE r == [run EXCEPT !.at = "init", !.todo = Fleets]
           m == [run.mine EXCEPT !.board = FALSE]
<1>1. /\ r \in Runs /\ r.at = "init" /\ r.todo = Fleets /\ r.mine = run.mine
      /\ Agrees(r, {"at", "todo", "mine"})
  BY DEF Runs, Fields, Places, Late, Agrees
<1>2. Edited(m, "board", FALSE)
  BY BoardEdits
<1>3. /\ At("startBoard")
      /\ \/ Unrecorded(m, r) /\ owed' = owed \ {Board} /\ said' = said
         \/ Recorded(m, r) /\ owed' = owed /\ said' = said \cup {Board}
  BY DEF StartBoard, Told
<1> HIDE DEF r, m
<1>4. {"at", "todo"} \subseteq Fields \ {"mine"}
  BY DEF Fields
<1>5. ASSUME Recorded(m, r)
      PROVE  Moves({"at", "todo", "mine"}) /\ run'.at = "init" /\ run'.todo = Fleets /\ Strikes("board", FALSE)
  <2>1. m \in Lists
    BY <1>2 DEF Edited
  <2>2. /\ Moves({"at", "todo", "mine"}) /\ run'.mine = m /\ journal' = [found |-> TRUE, list |-> m]
        /\ run'.at = "init" /\ run'.todo = Fleets
    BY <1>1, <1>4, <1>5, <2>1, RecordsMine
  <2> QED BY <1>2, <2>2 DEF Strikes, Writes
<1>6. ASSUME Unrecorded(m, r)
      PROVE  Moves({"at", "todo", "mine"}) /\ run'.at = "init" /\ run'.todo = Fleets /\ Strikes("board", FALSE)
  <2>1. CASE Recorded(m, r)
    BY <1>5, <2>1 DEF Strikes, Writes
  <2>2. CASE journal' = journal /\ run' = r
    BY <1>1, <1>4, <2>2 DEF Strikes, Moves, Agrees, Fields
  <2> QED BY <1>6, <2>1, <2>2 DEF Unrecorded
<1> QED BY <1>3, <1>5, <1>6

\* A fleet is brought to the new build, or that is told.
LEMMA InitFleetEffect ==
  ASSUME UpdateTypes, NEW f \in Fleets, InitFleet(f)
  PROVE  /\ At("init") /\ f \in run.todo /\ Moves({"todo", "mine"}) /\ run'.todo = run.todo \ {f}
         /\ Strikes("init", run.mine.init \ {f})
         /\ \/ owed' = owed \ {Unit("init", f)} /\ said' = said
            \/ owed' = owed /\ said' = said \cup {Unit("init", f)}
<1> USE DEF UpdateTypes, Links
<1> DEFINE r == [run EXCEPT !.todo = @ \ {f}]
           m == [run.mine EXCEPT !.init = @ \ {f}]
<1>1. /\ r \in Runs /\ r.todo = run.todo \ {f} /\ r.mine = run.mine
      /\ Agrees(r, {"todo", "mine"})
  BY DEF Runs, Fields, Agrees
<1>2. Edited(m, "init", run.mine.init \ {f})
  BY EditTypes
<1>3. /\ At("init") /\ f \in run.todo
      /\ \/ Unrecorded(m, r) /\ owed' = owed \ {Unit("init", f)} /\ said' = said
         \/ Recorded(m, r) /\ owed' = owed /\ said' = said \cup {Unit("init", f)}
  BY DEF InitFleet, Told
<1> HIDE DEF r, m
<1>4. "todo" \in Fields \ {"mine"}
  BY DEF Fields
<1>5. ASSUME Unrecorded(m, r)
      PROVE  Moves({"todo", "mine"}) /\ run'.todo = run.todo \ {f} /\ Strikes("init", run.mine.init \ {f})
  <2>1. Moves({"todo", "mine"}) /\ Strikes("init", run.mine.init \ {f}) /\ run'.todo = r.todo
    BY <1>1, <1>2, <1>4, <1>5, StrikesIn
  <2> QED BY <1>1, <2>1
<1>6. ASSUME Recorded(m, r)
      PROVE  Moves({"todo", "mine"}) /\ run'.todo = run.todo \ {f} /\ Strikes("init", run.mine.init \ {f})
  BY <1>1, <1>2, <1>4, <1>6, RecordsIn DEF Strikes
<1> QED BY <1>3, <1>5, <1>6

\* The binaries are fetched and the databases saved, or the update ends.
LEMMA PinEffect ==
  ASSUME UpdateTypes, Pin
  PROVE  At("pin") /\ UNCHANGED <<journal, owed, said>> /\ (run' = Idle \/ (Moves({"at"}) /\ run'.at = "backup"))
<1>1. At("pin") /\ UNCHANGED <<journal, owed, said>> /\ (run' = Idle \/ Goes("backup"))
  BY DEF Pin, Refuses, Ends
<1> QED BY <1>1, GoesTo DEF UpdateTypes, Links, Places

LEMMA BackupEffect ==
  ASSUME UpdateTypes, Backup
  PROVE  /\ At("backup") /\ UNCHANGED <<journal, owed, said>>
         /\ \/ run' = Idle /\ ~Current
            \/ Moves({"at"}) /\ run'.at = "save" /\ saved' = IF Current THEN saved ELSE Fleets
<1>1. /\ At("backup") /\ UNCHANGED <<journal, owed, said>>
      /\ \/ run' = Idle /\ ~Current
         \/ Goes("save") /\ saved' = IF Current THEN saved ELSE Fleets
  BY DEF Backup, Ends
<1> QED BY <1>1, GoesTo DEF UpdateTypes, Links, Places

\* The update is over; a supervisor that could not be resumed stays on record.
LEMMA ClearEffect ==
  ASSUME UpdateTypes, Clear
  PROVE  /\ At("init") \/ (At("visit") /\ ~run.full)
         /\ run.todo = {} /\ run' = Idle
         /\ journal' = IF run.mine.supervisor = {} THEN NoFile ELSE journal
         /\ UNCHANGED <<owed, said>>
  BY DEF Clear, Ends

\* The steps that leave the update, its journal and what it owes alone; or it is killed.
LEMMA OutsideEffect ==
  ASSUME Killed \/ Sweep \/ (\E f \in Fleets : Work(f) \/ SweepFleet(f) \/ WatcherServes(f))
  PROVE  UNCHANGED <<journal, owed, said>> /\ (run' = run \/ run' = Idle)
  BY DEF Killed, Ends, Sweep, Work, SweepFleet, WatcherServes

\* The update that runs and its journal keep their types, and the journal is what the update holds in memory.
LEMMA LinksStep == UpdateInv /\ [UpdateNext]_uVars => Links'
<1> SUFFICES ASSUME UpdateInv, [UpdateNext]_uVars PROVE Links'
  OBVIOUS
<1> USE DEF UpdateInv, UpdateTypes, Links
<1>1. ASSUME NEW auto \in BOOLEAN, NEW keep \in BOOLEAN, Begin(auto, keep) PROVE Links'
  BY <1>1, BeginEffect, FirstRun, UnitsApart, WritesLink, StrikesLink DEF Begin, OfFleet, At
<1>2. ASSUME Repair PROVE Links'
  BY <1>2, RepairEffect, FirstRun, UnitsApart, WritesLink, StrikesLink DEF OfFleet, Moves, Agrees,
     Fields, At, Journal
<1>3. ASSUME Fetch PROVE Links'
  BY <1>3, FetchEffect, FirstRun, UnitsApart, WritesLink, StrikesLink DEF OfFleet, Moves, Agrees,
     Fields, At
<1>4. ASSUME Pin PROVE Links'
  BY <1>4, PinEffect, FirstRun, UnitsApart, WritesLink, StrikesLink DEF OfFleet, Moves, Agrees,
     Fields, At
<1>5. ASSUME Backup PROVE Links'
  BY <1>5, BackupEffect, FirstRun, UnitsApart, WritesLink, StrikesLink DEF OfFleet, Moves, Agrees,
     Fields, At
<1>6. ASSUME Save PROVE Links'
  BY <1>6, SaveEffect, FirstRun, UnitsApart, WritesLink, StrikesLink DEF OfFleet, Moves, Agrees,
     Fields, At
<1>7. ASSUME SwapIroh PROVE Links'
  BY <1>7, SwapEffect, FirstRun, UnitsApart, WritesLink, StrikesLink DEF OfFleet, Moves, Agrees,
     Fields, At
<1>8. ASSUME SwapHand PROVE Links'
  BY <1>8, SwapEffect, FirstRun, UnitsApart, WritesLink, StrikesLink DEF OfFleet, Moves, Agrees,
     Fields, At
<1>9. ASSUME MarkWatcher PROVE Links'
  BY <1>9, MarkWatcherEffect, FirstRun, UnitsApart, WritesLink, StrikesLink DEF OfFleet, Moves,
     Agrees, Fields, At
<1>10. ASSUME KillWatcher PROVE Links'
  BY <1>10, KillWatcherEffect, FirstRun, UnitsApart, WritesLink, StrikesLink DEF OfFleet, Moves,
     Agrees, Fields, At
<1>11. ASSUME Still PROVE Links'
  BY <1>11, StillEffect, FirstRun, UnitsApart, WritesLink, StrikesLink DEF OfFleet, Moves, Agrees,
     Fields, At
<1>12. ASSUME StopSupervisor PROVE Links'
  BY <1>12, SwitchEffect, FirstRun, UnitsApart, WritesLink, StrikesLink DEF OfFleet, Moves, Agrees,
     Fields, At
<1>13. ASSUME Quiet PROVE Links'
  BY <1>13, SwitchEffect, FirstRun, UnitsApart, WritesLink, StrikesLink DEF OfFleet, Moves, Agrees,
     Fields, At
<1>14. ASSUME StopServer PROVE Links'
  BY <1>14, SwitchEffect, FirstRun, UnitsApart, WritesLink, StrikesLink DEF OfFleet, Moves, Agrees,
     Fields, At
<1>15. ASSUME StartServer PROVE Links'
  BY <1>15, SwitchEffect, FirstRun, UnitsApart, WritesLink, StrikesLink DEF OfFleet, Moves, Agrees,
     Fields, At
<1>16. ASSUME Restore PROVE Links'
  BY <1>16, RestoreEffect, FirstRun, UnitsApart, WritesLink, StrikesLink DEF OfFleet, Moves,
     Agrees, Fields, At
<1>17. ASSUME Note PROVE Links'
  BY <1>17, SwitchEffect, FirstRun, UnitsApart, WritesLink, StrikesLink DEF OfFleet, Moves, Agrees,
     Fields, At
<1>18. ASSUME StartWatcher PROVE Links'
  BY <1>18, StartWatcherEffect, FirstRun, UnitsApart, WritesLink, StrikesLink DEF OfFleet, Moves,
     Agrees, Fields, At
<1>19. ASSUME StopBoard PROVE Links'
  BY ZenonT(40), <1>19, StopBoardEffect, FirstRun, UnitsApart, WritesLink, StrikesLink DEF OfFleet, Moves,
     Agrees, Fields, At
<1>20. ASSUME KillBoard PROVE Links'
  BY <1>20, KillBoardEffect, FirstRun, UnitsApart, WritesLink, StrikesLink DEF OfFleet, Moves,
     Agrees, Fields, At
<1>21. ASSUME StartBoard PROVE Links'
  BY <1>21, StartBoardEffect, FirstRun, UnitsApart, WritesLink, StrikesLink DEF OfFleet, Moves,
     Agrees, Fields, At
<1>22. ASSUME Clear PROVE Links'
  BY <1>22, ClearEffect, FirstRun, UnitsApart, WritesLink, StrikesLink DEF OfFleet, Moves, Agrees,
     Fields, At
<1>23. ASSUME NEW f \in Fleets, Visit(f) PROVE Links'
  BY <1>23, VisitEffect, FirstRun, UnitsApart, WritesLink, StrikesLink DEF OfFleet, Moves, Agrees,
     Fields, At
<1>24. ASSUME NEW f \in Fleets, InitFleet(f) PROVE Links'
  <2>1. run' \in Runs /\ run'.at = "init" /\ At("init")
    BY <1>24, InitFleetEffect DEF Moves, Agrees, Fields, At
  <2>2. journal' \in [found : BOOLEAN, list : Lists] /\ journal'.list = run'.mine
    BY <1>24, <2>1, InitFleetEffect, StrikesLink DEF At
  <2>3. owed' \subseteq Units
    BY <1>24, InitFleetEffect
  <2> QED BY <2>1, <2>2, <2>3 DEF OfFleet, At
<1>25. ASSUME Killed PROVE Links'
  BY <1>25, OutsideEffect, FirstRun, UnitsApart, WritesLink, StrikesLink DEF OfFleet, Moves,
     Agrees, Fields, At
<1>26. ASSUME Sweep PROVE Links'
  BY <1>26, OutsideEffect, FirstRun, UnitsApart, WritesLink, StrikesLink DEF OfFleet, Moves,
     Agrees, Fields, At
<1>27. ASSUME NEW f \in Fleets, Work(f) PROVE Links'
  BY <1>27, OutsideEffect, FirstRun, UnitsApart, WritesLink, StrikesLink DEF OfFleet, Moves,
     Agrees, Fields, At
<1>28. ASSUME NEW f \in Fleets, SweepFleet(f) PROVE Links'
  BY <1>28, OutsideEffect, FirstRun, UnitsApart, WritesLink, StrikesLink DEF OfFleet, Moves,
     Agrees, Fields, At
<1>29. ASSUME NEW f \in Fleets, WatcherServes(f) PROVE Links'
  BY <1>29, OutsideEffect, FirstRun, UnitsApart, WritesLink, StrikesLink DEF OfFleet, Moves,
     Agrees, Fields, At
<1>30. CASE UNCHANGED uVars
  BY <1>30 DEF uVars, At
<1> QED
  BY <1>1, <1>2, <1>3, <1>4, <1>5, <1>6, <1>7, <1>8, <1>9, <1>10, <1>11, <1>12, <1>13, <1>14,
     <1>15, <1>16, <1>17, <1>18, <1>19, <1>20, <1>21, <1>22, <1>23, <1>24, <1>25, <1>26, <1>27,
     <1>28, <1>29, <1>30 DEF UpdateNext, UpdateStep

\* Every step leaves on record what the next ones rely on.
LEMMA JournalStep == UpdateInv /\ [UpdateNext]_uVars => Journal'
<1> SUFFICES ASSUME UpdateInv, [UpdateNext]_uVars PROVE Journal'
  OBVIOUS
<1> USE DEF UpdateInv, UpdateTypes, Journal
<1>1. ASSUME NEW auto \in BOOLEAN, NEW keep \in BOOLEAN, Begin(auto, keep) PROVE Journal'
  BY <1>1, BeginEffect, FirstRun, WritesLink, StrikesLink DEF OfFleet, Moves, Agrees, Fields,
     Edited, Entries, At, Links
<1>2. ASSUME Repair PROVE Journal'
  BY <1>2, RepairEffect, FirstRun, WritesLink, StrikesLink DEF OfFleet, Moves, Agrees, Fields,
     Edited, Entries, At, Links
<1>3. ASSUME Fetch PROVE Journal'
  BY <1>3, FetchEffect, FirstRun, WritesLink, StrikesLink DEF OfFleet, Moves, Agrees, Fields,
     Edited, Entries, At, Links
<1>4. ASSUME Pin PROVE Journal'
  BY <1>4, PinEffect, FirstRun, WritesLink, StrikesLink DEF OfFleet, Moves, Agrees, Fields, Edited,
     Entries, At, Links
<1>5. ASSUME Backup PROVE Journal'
  BY <1>5, BackupEffect, FirstRun, WritesLink, StrikesLink DEF OfFleet, Moves, Agrees, Fields,
     Edited, Entries, At, Links
<1>6. ASSUME Save PROVE Journal'
  BY <1>6, SaveEffect, FirstRun, WritesLink, StrikesLink DEF OfFleet, Moves, Agrees, Fields,
     Edited, Entries, At, Links
<1>7. ASSUME SwapIroh PROVE Journal'
  BY <1>7, SwapEffect, FirstRun, WritesLink, StrikesLink DEF OfFleet, Moves, Agrees, Fields,
     Edited, Entries, At, Links
<1>8. ASSUME SwapHand PROVE Journal'
  BY <1>8, SwapEffect, FirstRun, WritesLink, StrikesLink DEF OfFleet, Moves, Agrees, Fields,
     Edited, Entries, At, Links
<1>9. ASSUME MarkWatcher PROVE Journal'
  BY <1>9, MarkWatcherEffect, FirstRun, WritesLink, StrikesLink DEF OfFleet, Moves, Agrees, Fields,
     Edited, Entries, At, Links
<1>10. ASSUME KillWatcher PROVE Journal'
  BY <1>10, KillWatcherEffect, FirstRun, WritesLink, StrikesLink DEF OfFleet, Moves, Agrees,
     Fields, Edited, Entries, At, Links
<1>11. ASSUME Still PROVE Journal'
  BY <1>11, StillEffect, FirstRun, WritesLink, StrikesLink DEF OfFleet, Moves, Agrees, Fields,
     Edited, Entries, At, Links
<1>12. ASSUME StopSupervisor PROVE Journal'
  BY <1>12, SwitchEffect, FirstRun, WritesLink, StrikesLink DEF OfFleet, Moves, Agrees, Fields,
     Edited, Entries, At, Links
<1>13. ASSUME Quiet PROVE Journal'
  BY <1>13, SwitchEffect, FirstRun, WritesLink, StrikesLink DEF OfFleet, Moves, Agrees, Fields,
     Edited, Entries, At, Links
<1>14. ASSUME StopServer PROVE Journal'
  BY <1>14, SwitchEffect, FirstRun, WritesLink, StrikesLink DEF OfFleet, Moves, Agrees, Fields,
     Edited, Entries, At, Links
<1>15. ASSUME StartServer PROVE Journal'
  BY <1>15, SwitchEffect, FirstRun, WritesLink, StrikesLink DEF OfFleet, Moves, Agrees, Fields,
     Edited, Entries, At, Links
<1>16. ASSUME Restore PROVE Journal'
  BY <1>16, RestoreEffect, FirstRun, WritesLink, StrikesLink DEF OfFleet, Moves, Agrees, Fields,
     Edited, Entries, At, Links
<1>17. ASSUME Note PROVE Journal'
  BY <1>17, SwitchEffect, FirstRun, WritesLink, StrikesLink DEF OfFleet, Moves, Agrees, Fields,
     Edited, Entries, At, Links
<1>18. ASSUME StartWatcher PROVE Journal'
  BY <1>18, StartWatcherEffect, FirstRun, WritesLink, StrikesLink DEF OfFleet, Moves, Agrees,
     Fields, Edited, Entries, At, Links
<1>19. ASSUME StopBoard PROVE Journal'
  <2>1. CASE journal' = journal /\ run'.at = "init" /\ Moves({"at", "todo"})
    BY <2>1 DEF Moves, Agrees, Fields, OfFleet, At
  <2>2. CASE Writes("board", TRUE) /\ run'.at = "killBoard" /\ Moves({"at", "mine"})
    <3>1. journal'.found /\ run'.mine.board
      BY <2>2 DEF Writes, Edited
    <3> QED BY <2>2, <3>1 DEF OfFleet, At
  <2> QED BY <1>19, <2>1, <2>2, StopBoardEffect
<1>20. ASSUME KillBoard PROVE Journal'
  BY <1>20, KillBoardEffect, FirstRun, WritesLink, StrikesLink DEF OfFleet, Moves, Agrees, Fields,
     Edited, Entries, At, Links
<1>21. ASSUME StartBoard PROVE Journal'
  BY <1>21, StartBoardEffect, FirstRun, WritesLink, StrikesLink DEF OfFleet, Moves, Agrees, Fields,
     Edited, Entries, At, Links
<1>22. ASSUME Clear PROVE Journal'
  BY <1>22, ClearEffect, FirstRun, WritesLink, StrikesLink DEF OfFleet, Moves, Agrees, Fields,
     Edited, Entries, At, Links
<1>23. ASSUME NEW f \in Fleets, Visit(f) PROVE Journal'
  BY <1>23, VisitEffect, FirstRun, WritesLink, StrikesLink DEF OfFleet, Moves, Agrees, Fields,
     Edited, Entries, At, Links
<1>24. ASSUME NEW f \in Fleets, InitFleet(f) PROVE Journal'
  BY <1>24, InitFleetEffect, FirstRun, WritesLink, StrikesLink DEF OfFleet, Moves, Agrees, Fields,
     Edited, Entries, At, Links
<1>25. ASSUME Killed PROVE Journal'
  BY <1>25, OutsideEffect, FirstRun, WritesLink, StrikesLink DEF OfFleet, Moves, Agrees, Fields,
     Edited, Entries, At, Links
<1>26. ASSUME Sweep PROVE Journal'
  BY <1>26, OutsideEffect, FirstRun, WritesLink, StrikesLink DEF OfFleet, Moves, Agrees, Fields,
     Edited, Entries, At, Links
<1>27. ASSUME NEW f \in Fleets, Work(f) PROVE Journal'
  BY <1>27, OutsideEffect, FirstRun, WritesLink, StrikesLink DEF OfFleet, Moves, Agrees, Fields,
     Edited, Entries, At, Links
<1>28. ASSUME NEW f \in Fleets, SweepFleet(f) PROVE Journal'
  BY <1>28, OutsideEffect, FirstRun, WritesLink, StrikesLink DEF OfFleet, Moves, Agrees, Fields,
     Edited, Entries, At, Links
<1>29. ASSUME NEW f \in Fleets, WatcherServes(f) PROVE Journal'
  BY <1>29, OutsideEffect, FirstRun, WritesLink, StrikesLink DEF OfFleet, Moves, Agrees, Fields,
     Edited, Entries, At, Links
<1>30. CASE UNCHANGED uVars
  BY <1>30 DEF uVars, At
<1> QED
  BY <1>1, <1>2, <1>3, <1>4, <1>5, <1>6, <1>7, <1>8, <1>9, <1>10, <1>11, <1>12, <1>13, <1>14,
     <1>15, <1>16, <1>17, <1>18, <1>19, <1>20, <1>21, <1>22, <1>23, <1>24, <1>25, <1>26, <1>27,
     <1>28, <1>29, <1>30 DEF UpdateNext, UpdateStep

\* No step forgets what was taken down.
LEMMA OwingStep == UpdateInv /\ [UpdateNext]_uVars => Owing'
<1> SUFFICES ASSUME UpdateInv, [UpdateNext]_uVars PROVE Owing'
  OBVIOUS
<1> USE DEF UpdateInv, UpdateTypes, Owing
<1>1. ASSUME NEW auto \in BOOLEAN, NEW keep \in BOOLEAN, Begin(auto, keep) PROVE Owing'
  BY <1>1, BeginEffect, FirstRun, UnitsApart, WritesLink, StrikesLink DEF Open, OfFleet, Late,
     Moves, Agrees, Fields, Edited, Entries, At, Links, Journal
<1>2. ASSUME Repair PROVE Owing'
  BY <1>2, RepairEffect, FirstRun, UnitsApart, WritesLink, StrikesLink DEF Open, OfFleet, Late,
     Moves, Agrees, Fields, Edited, Entries, At, Links, Journal
<1>3. ASSUME Fetch PROVE Owing'
  BY <1>3, FetchEffect, FirstRun, UnitsApart, WritesLink, StrikesLink DEF Open, OfFleet, Late,
     Moves, Agrees, Fields, Edited, Entries, At, Links, Journal
<1>4. ASSUME Pin PROVE Owing'
  BY <1>4, PinEffect, FirstRun, UnitsApart, WritesLink, StrikesLink DEF Open, OfFleet, Late, Moves,
     Agrees, Fields, Edited, Entries, At, Links, Journal
<1>5. ASSUME Backup PROVE Owing'
  BY <1>5, BackupEffect, FirstRun, UnitsApart, WritesLink, StrikesLink DEF Open, OfFleet, Late,
     Moves, Agrees, Fields, Edited, Entries, At, Links, Journal
<1>6. ASSUME Save PROVE Owing'
  BY <1>6, SaveEffect, FirstRun, UnitsApart, WritesLink, StrikesLink DEF Open, OfFleet, Late,
     Moves, Agrees, Fields, Edited, Entries, At, Links, Journal
<1>7. ASSUME SwapIroh PROVE Owing'
  BY <1>7, SwapEffect, FirstRun, UnitsApart, WritesLink, StrikesLink DEF Open, OfFleet, Late,
     Moves, Agrees, Fields, Edited, Entries, At, Links, Journal
<1>8. ASSUME SwapHand PROVE Owing'
  BY <1>8, SwapEffect, FirstRun, UnitsApart, WritesLink, StrikesLink DEF Open, OfFleet, Late,
     Moves, Agrees, Fields, Edited, Entries, At, Links, Journal
<1>9. ASSUME MarkWatcher PROVE Owing'
  BY <1>9, MarkWatcherEffect, FirstRun, UnitsApart, WritesLink, StrikesLink DEF Open, OfFleet,
     Late, Moves, Agrees, Fields, Edited, Entries, At, Links, Journal
<1>10. ASSUME KillWatcher PROVE Owing'
  BY <1>10, KillWatcherEffect, FirstRun, UnitsApart, WritesLink, StrikesLink DEF Open, OfFleet,
     Late, Moves, Agrees, Fields, Edited, Entries, At, Links, Journal
<1>11. ASSUME Still PROVE Owing'
  BY <1>11, StillEffect, FirstRun, UnitsApart, WritesLink, StrikesLink DEF Open, OfFleet, Late,
     Moves, Agrees, Fields, Edited, Entries, At, Links, Journal
<1>12. ASSUME StopSupervisor PROVE Owing'
  BY <1>12, SwitchEffect, FirstRun, UnitsApart, WritesLink, StrikesLink DEF Open, OfFleet, Late,
     Moves, Agrees, Fields, Edited, Entries, At, Links, Journal
<1>13. ASSUME Quiet PROVE Owing'
  BY <1>13, SwitchEffect, FirstRun, UnitsApart, WritesLink, StrikesLink DEF Open, OfFleet, Late,
     Moves, Agrees, Fields, Edited, Entries, At, Links, Journal
<1>14. ASSUME StopServer PROVE Owing'
  BY <1>14, SwitchEffect, FirstRun, UnitsApart, WritesLink, StrikesLink DEF Open, OfFleet, Late,
     Moves, Agrees, Fields, Edited, Entries, At, Links, Journal
<1>15. ASSUME StartServer PROVE Owing'
  BY <1>15, SwitchEffect, FirstRun, UnitsApart, WritesLink, StrikesLink DEF Open, OfFleet, Late,
     Moves, Agrees, Fields, Edited, Entries, At, Links, Journal
<1>16. ASSUME Restore PROVE Owing'
  BY <1>16, RestoreEffect, FirstRun, UnitsApart, WritesLink, StrikesLink DEF Open, OfFleet, Late,
     Moves, Agrees, Fields, Edited, Entries, At, Links, Journal
<1>17. ASSUME Note PROVE Owing'
  BY <1>17, SwitchEffect, FirstRun, UnitsApart, WritesLink, StrikesLink DEF Open, OfFleet, Late,
     Moves, Agrees, Fields, Edited, Entries, At, Links, Journal
<1>18. ASSUME StartWatcher PROVE Owing'
  BY <1>18, StartWatcherEffect, FirstRun, UnitsApart, WritesLink, StrikesLink DEF Open, OfFleet,
     Late, Moves, Agrees, Fields, Edited, Entries, At, Links, Journal
<1>19. ASSUME StopBoard PROVE Owing'
  <2>1. CASE journal' = journal /\ run'.at = "init" /\ run'.todo = Fleets
    BY <1>19, <2>1, StopBoardEffect DEF OfFleet, At, Open, Late
  <2>2. CASE Writes("board", TRUE) /\ run'.at = "killBoard"
    <3>1. /\ journal'.list = run'.mine /\ run'.mine.board
          /\ \A y \in {"watcher", "supervisor", "init"} : run'.mine[y] = run.mine[y]
      BY <2>2 DEF Writes, Edited, Entries
    <3>2. journal.list = run.mine /\ At("visit") /\ owed' = owed /\ said \subseteq said'
      BY <1>19, StopBoardEffect DEF Links, At
    <3> QED BY <2>2, <3>1, <3>2 DEF OfFleet, At, Open, Late
  <2> QED BY <1>19, <2>1, <2>2, StopBoardEffect
<1>20. ASSUME KillBoard PROVE Owing'
  BY <1>20, KillBoardEffect, FirstRun, UnitsApart, WritesLink, StrikesLink DEF Open, OfFleet, Late,
     Moves, Agrees, Fields, Edited, Entries, At, Links, Journal
<1>21. ASSUME StartBoard PROVE Owing'
  <2>1. /\ Board \notin Open' /\ Open' \subseteq Open /\ run'.at = "init" /\ run'.todo = Fleets /\ At("startBoard")
    BY <1>21, StartBoardEffect DEF Open
  <2>2. /\ journal.list = run.mine
        /\ \A y \in {"watcher", "supervisor", "init"} : journal'.list[y] = journal.list[y]
    <3>1. journal.list = run.mine
      BY <2>1 DEF Links, At
    <3>2. CASE Writes("board", FALSE)
      BY <3>1, <3>2 DEF Writes, Edited, Entries
    <3>3. CASE journal' = journal
      BY <3>1, <3>3
    <3> QED BY <1>21, <3>1, <3>2, <3>3, StartBoardEffect DEF Strikes
  <2> QED BY <2>1, <2>2 DEF OfFleet, At, Late
<1>22. ASSUME Clear PROVE Owing'
  BY <1>22, ClearEffect, FirstRun, UnitsApart, WritesLink, StrikesLink DEF Open, OfFleet, Late,
     Moves, Agrees, Fields, Edited, Entries, At, Links, Journal
<1>23. ASSUME NEW f \in Fleets, Visit(f) PROVE Owing'
  BY <1>23, VisitEffect, FirstRun, UnitsApart, WritesLink, StrikesLink DEF Open, OfFleet, Late,
     Moves, Agrees, Fields, Edited, Entries, At, Links, Journal
<1>24. ASSUME NEW f \in Fleets, InitFleet(f) PROVE Owing'
  <2>1. Unit("init", f) \notin Open' /\ Open' \subseteq Open
    BY ZenonT(40), <1>24, InitFleetEffect DEF Open
  <2>2. run'.at = "init" /\ run'.todo = run.todo \ {f} /\ At("init")
    BY <1>24, InitFleetEffect DEF Moves, Agrees, Fields, At
  <2>3. /\ \A y \in {"watcher", "supervisor", "board"} : journal'.list[y] = journal.list[y]
        /\ journal.list.init \ {f} \subseteq journal'.list.init
    <3>1. journal.list = run.mine
      BY <2>2 DEF Links, At
    <3>2. CASE Writes("init", run.mine.init \ {f})
      BY <3>1, <3>2 DEF Writes, Edited, Entries
    <3>3. CASE journal' = journal
      BY <3>1, <3>3
    <3> QED BY <1>24, <3>2, <3>3, InitFleetEffect DEF Strikes
  <2> QED BY <2>1, <2>2, <2>3 DEF OfFleet, At, Late
<1>25. ASSUME Killed PROVE Owing'
  BY <1>25, OutsideEffect, FirstRun, UnitsApart, WritesLink, StrikesLink DEF Open, OfFleet, Late,
     Moves, Agrees, Fields, Edited, Entries, At, Links, Journal
<1>26. ASSUME Sweep PROVE Owing'
  BY <1>26, OutsideEffect, FirstRun, UnitsApart, WritesLink, StrikesLink DEF Open, OfFleet, Late,
     Moves, Agrees, Fields, Edited, Entries, At, Links, Journal
<1>27. ASSUME NEW f \in Fleets, Work(f) PROVE Owing'
  BY <1>27, OutsideEffect, FirstRun, UnitsApart, WritesLink, StrikesLink DEF Open, OfFleet, Late,
     Moves, Agrees, Fields, Edited, Entries, At, Links, Journal
<1>28. ASSUME NEW f \in Fleets, SweepFleet(f) PROVE Owing'
  BY <1>28, OutsideEffect, FirstRun, UnitsApart, WritesLink, StrikesLink DEF Open, OfFleet, Late,
     Moves, Agrees, Fields, Edited, Entries, At, Links, Journal
<1>29. ASSUME NEW f \in Fleets, WatcherServes(f) PROVE Owing'
  BY <1>29, OutsideEffect, FirstRun, UnitsApart, WritesLink, StrikesLink DEF Open, OfFleet, Late,
     Moves, Agrees, Fields, Edited, Entries, At, Links, Journal
<1>30. CASE UNCHANGED uVars
  BY <1>30 DEF uVars, Open, At
<1> QED
  BY <1>1, <1>2, <1>3, <1>4, <1>5, <1>6, <1>7, <1>8, <1>9, <1>10, <1>11, <1>12, <1>13, <1>14,
     <1>15, <1>16, <1>17, <1>18, <1>19, <1>20, <1>21, <1>22, <1>23, <1>24, <1>25, <1>26, <1>27,
     <1>28, <1>29, <1>30 DEF UpdateNext, UpdateStep

\* The binaries and the saved databases belong together.
LEMMA ReplacingStep == UpdateInv /\ [UpdateNext]_uVars => Replacing'
<1> SUFFICES ASSUME UpdateInv, [UpdateNext]_uVars PROVE Replacing'
  OBVIOUS
<1> USE DEF UpdateInv, UpdateTypes, VarTypes, FleetTypes, FileTypes, Replacing, MigratedSaved
<1>1. ASSUME NEW auto \in BOOLEAN, NEW keep \in BOOLEAN, Begin(auto, keep) PROVE Replacing'
  BY <1>1, BeginEffect, FirstRun DEF Begin, Moves, Agrees, Fields, At, Current, Works, Fails, Ends,
     SwapFails, binaries
<1>2. ASSUME Repair PROVE Replacing'
  BY <1>2, RepairEffect, FirstRun DEF Repair, Moves, Agrees, Fields, At, Current, Works, Fails,
     Ends, SwapFails, binaries
<1>3. ASSUME Fetch PROVE Replacing'
  BY <1>3, FetchEffect, FirstRun DEF Fetch, Moves, Agrees, Fields, At, Current, Works, Fails, Ends,
     SwapFails, binaries
<1>4. ASSUME Pin PROVE Replacing'
  BY <1>4, PinEffect, FirstRun DEF Pin, Moves, Agrees, Fields, At, Current, Works, Fails, Ends,
     SwapFails, binaries
<1>5. ASSUME Backup PROVE Replacing'
  BY <1>5, BackupEffect, FirstRun DEF Backup, Moves, Agrees, Fields, At, Current, Works, Fails,
     Ends, SwapFails, binaries
<1>6. ASSUME Save PROVE Replacing'
  BY <1>6, SaveEffect, FirstRun DEF Save, Moves, Agrees, Fields, At, Current, Works, Fails, Ends,
     SwapFails, binaries
<1>7. ASSUME SwapIroh PROVE Replacing'
  BY <1>7, SwapEffect, FirstRun DEF SwapIroh, Moves, Agrees, Fields, At, Current, Works, Fails,
     Ends, SwapFails, binaries
<1>8. ASSUME SwapHand PROVE Replacing'
  BY <1>8, SwapEffect, FirstRun DEF SwapHand, Moves, Agrees, Fields, At, Current, Works, Fails,
     Ends, SwapFails, binaries
<1>9. ASSUME MarkWatcher PROVE Replacing'
  BY <1>9, MarkWatcherEffect, FirstRun DEF MarkWatcher, Moves, Agrees, Fields, At, Current, Works,
     Fails, Ends, SwapFails, binaries
<1>10. ASSUME KillWatcher PROVE Replacing'
  BY <1>10, KillWatcherEffect, FirstRun DEF KillWatcher, Moves, Agrees, Fields, At, Current, Works,
     Fails, Ends, SwapFails, binaries
<1>11. ASSUME Still PROVE Replacing'
  BY <1>11, StillEffect, FirstRun DEF Still, Moves, Agrees, Fields, At, Current, Works, Fails,
     Ends, SwapFails, binaries
<1>12. ASSUME StopSupervisor PROVE Replacing'
  BY <1>12, SwitchEffect, FirstRun DEF StopSupervisor, Moves, Agrees, Fields, At, Current, Works,
     Fails, Ends, SwapFails, binaries
<1>13. ASSUME Quiet PROVE Replacing'
  BY <1>13, SwitchEffect, FirstRun DEF Quiet, Moves, Agrees, Fields, At, Current, Works, Fails,
     Ends, SwapFails, binaries
<1>14. ASSUME StopServer PROVE Replacing'
  BY <1>14, SwitchEffect, FirstRun DEF StopServer, Moves, Agrees, Fields, At, Current, Works,
     Fails, Ends, SwapFails, binaries
<1>15. ASSUME StartServer PROVE Replacing'
  BY <1>15, SwitchEffect, FirstRun DEF StartServer, Moves, Agrees, Fields, At, Current, Works,
     Fails, Ends, SwapFails, binaries
<1>16. ASSUME Restore PROVE Replacing'
  BY <1>16, RestoreEffect, FirstRun DEF Restore, Moves, Agrees, Fields, At, Current, Works, Fails,
     Ends, SwapFails, binaries
<1>17. ASSUME Note PROVE Replacing'
  BY <1>17, SwitchEffect, FirstRun DEF Note, Moves, Agrees, Fields, At, Current, Works, Fails,
     Ends, SwapFails, binaries
<1>18. ASSUME StartWatcher PROVE Replacing'
  BY <1>18, StartWatcherEffect, FirstRun DEF StartWatcher, Moves, Agrees, Fields, At, Current,
     Works, Fails, Ends, SwapFails, binaries
<1>19. ASSUME StopBoard PROVE Replacing'
  BY <1>19, StopBoardEffect, FirstRun DEF StopBoard, Moves, Agrees, Fields, At, Current, Works,
     Fails, Ends, SwapFails, binaries
<1>20. ASSUME KillBoard PROVE Replacing'
  BY <1>20, KillBoardEffect, FirstRun DEF KillBoard, Moves, Agrees, Fields, At, Current, Works,
     Fails, Ends, SwapFails, binaries
<1>21. ASSUME StartBoard PROVE Replacing'
  BY <1>21, StartBoardEffect, FirstRun DEF StartBoard, Moves, Agrees, Fields, At, Current, Works,
     Fails, Ends, SwapFails, binaries
<1>22. ASSUME Clear PROVE Replacing'
  BY <1>22, ClearEffect, FirstRun DEF Clear, Moves, Agrees, Fields, At, Current, Works, Fails,
     Ends, SwapFails, binaries
<1>23. ASSUME NEW f \in Fleets, Visit(f) PROVE Replacing'
  BY <1>23, VisitEffect, FirstRun DEF Visit, Moves, Agrees, Fields, At, Current, Works, Fails,
     Ends, SwapFails, binaries
<1>24. ASSUME NEW f \in Fleets, InitFleet(f) PROVE Replacing'
  BY <1>24, InitFleetEffect, FirstRun DEF InitFleet, Moves, Agrees, Fields, At, Current, Works,
     Fails, Ends, SwapFails, binaries
<1>25. ASSUME Killed PROVE Replacing'
  BY <1>25, OutsideEffect, FirstRun DEF Killed, Moves, Agrees, Fields, At, Current, Works, Fails,
     Ends, SwapFails, binaries
<1>26. ASSUME Sweep PROVE Replacing'
  BY <1>26, OutsideEffect, FirstRun DEF Sweep, Moves, Agrees, Fields, At, Current, Works, Fails,
     Ends, SwapFails, binaries
<1>27. ASSUME NEW f \in Fleets, Work(f) PROVE Replacing'
  BY <1>27, OutsideEffect, FirstRun DEF Work, Moves, Agrees, Fields, At, Current, Works, Fails,
     Ends, SwapFails, binaries
<1>28. ASSUME NEW f \in Fleets, SweepFleet(f) PROVE Replacing'
  BY <1>28, OutsideEffect, FirstRun DEF SweepFleet, Moves, Agrees, Fields, At, Current, Works,
     Fails, Ends, SwapFails, binaries
<1>29. ASSUME NEW f \in Fleets, WatcherServes(f) PROVE Replacing'
  BY <1>29, OutsideEffect, FirstRun DEF WatcherServes, Moves, Agrees, Fields, At, Current, Works,
     Fails, Ends, SwapFails, binaries
<1>30. CASE UNCHANGED uVars
  BY <1>30 DEF uVars, At
<1> QED
  BY <1>1, <1>2, <1>3, <1>4, <1>5, <1>6, <1>7, <1>8, <1>9, <1>10, <1>11, <1>12, <1>13, <1>14,
     <1>15, <1>16, <1>17, <1>18, <1>19, <1>20, <1>21, <1>22, <1>23, <1>24, <1>25, <1>26, <1>27,
     <1>28, <1>29, <1>30 DEF UpdateNext, UpdateStep

\* A fleet that is switched stays as it was found.
LEMMA SwitchingStep == UpdateInv /\ [UpdateNext]_uVars => Switching'
<1> SUFFICES ASSUME UpdateInv, [UpdateNext]_uVars PROVE Switching'
  OBVIOUS
<1> USE DEF UpdateInv, UpdateTypes, Switching
<1>1. ASSUME NEW auto \in BOOLEAN, NEW keep \in BOOLEAN, Begin(auto, keep) PROVE Switching'
  BY <1>1, BeginEffect, FirstRun DEF Begin, Moves, Agrees, Fields, At, Works, Fails, binaries,
     fleetVars, outside, OfFleet, VarTypes, FleetTypes
<1>2. ASSUME Repair PROVE Switching'
  BY <1>2, RepairEffect, FirstRun DEF Repair, Moves, Agrees, Fields, At, Works, Fails, binaries,
     fleetVars, outside, OfFleet, VarTypes, FleetTypes
<1>3. ASSUME Fetch PROVE Switching'
  BY <1>3, FetchEffect, FirstRun DEF Fetch, Moves, Agrees, Fields, At, Works, Fails, binaries,
     fleetVars, outside, OfFleet, VarTypes, FleetTypes
<1>4. ASSUME Pin PROVE Switching'
  BY <1>4, PinEffect, FirstRun DEF Pin, Moves, Agrees, Fields, At, Works, Fails, binaries,
     fleetVars, outside, OfFleet, VarTypes, FleetTypes
<1>5. ASSUME Backup PROVE Switching'
  BY <1>5, BackupEffect, FirstRun DEF Backup, Moves, Agrees, Fields, At, Works, Fails, binaries,
     fleetVars, outside, OfFleet, VarTypes, FleetTypes
<1>6. ASSUME Save PROVE Switching'
  BY <1>6, SaveEffect, FirstRun DEF Save, Moves, Agrees, Fields, At, Works, Fails, binaries,
     fleetVars, outside, OfFleet, VarTypes, FleetTypes
<1>7. ASSUME SwapIroh PROVE Switching'
  BY <1>7, SwapEffect, FirstRun DEF SwapIroh, Moves, Agrees, Fields, At, Works, Fails, binaries,
     fleetVars, outside, OfFleet, VarTypes, FleetTypes
<1>8. ASSUME SwapHand PROVE Switching'
  BY <1>8, SwapEffect, FirstRun DEF SwapHand, Moves, Agrees, Fields, At, Works, Fails, binaries,
     fleetVars, outside, OfFleet, VarTypes, FleetTypes
<1>9. ASSUME MarkWatcher PROVE Switching'
  BY <1>9, MarkWatcherEffect, FirstRun DEF MarkWatcher, Moves, Agrees, Fields, At, Works, Fails,
     binaries, fleetVars, outside, OfFleet, VarTypes, FleetTypes
<1>10. ASSUME KillWatcher PROVE Switching'
  <2>1. run'.stopped => watcher'[run.fleet] = "down"
    BY <1>10, KillWatcherEffect DEF VarTypes, FleetTypes, At
  <2>2. UNCHANGED <<sweep, board, sup, failed>>
    BY <1>10 DEF KillWatcher, outside
  <2> QED BY <1>10, <2>1, <2>2, KillWatcherEffect DEF Moves, Agrees, Fields, At
<1>11. ASSUME Still PROVE Switching'
  BY <1>11, StillEffect, FirstRun DEF Still, Moves, Agrees, Fields, At, Works, Fails, binaries,
     fleetVars, outside, OfFleet, VarTypes, FleetTypes
<1>12. ASSUME StopSupervisor PROVE Switching'
  <2>1. UNCHANGED <<sweep, board, watcher, failed>> /\ ((At("stopSupervisor") /\ ~sup'[run.fleet]) \/ run'.at # "quiet")
    BY ZenonT(40), <1>12 DEF StopSupervisor, outside, Goes, Links, VarTypes, FleetTypes, Runs, At, OfFleet
  <2> QED BY <1>12, <2>1, SwitchEffect DEF Moves, Agrees, Fields, At
<1>13. ASSUME Quiet PROVE Switching'
  BY <1>13, SwitchEffect, FirstRun DEF Quiet, Moves, Agrees, Fields, At, Works, Fails, binaries,
     fleetVars, outside, OfFleet, VarTypes, FleetTypes
<1>14. ASSUME StopServer PROVE Switching'
  BY <1>14, SwitchEffect, FirstRun DEF StopServer, Moves, Agrees, Fields, At, Works, Fails,
     binaries, fleetVars, outside, OfFleet, VarTypes, FleetTypes
<1>15. ASSUME StartServer PROVE Switching'
  BY <1>15, SwitchEffect, FirstRun DEF StartServer, Moves, Agrees, Fields, At, Works, Fails,
     binaries, fleetVars, outside, OfFleet, VarTypes, FleetTypes
<1>16. ASSUME Restore PROVE Switching'
  BY <1>16, RestoreEffect, FirstRun DEF Restore, Moves, Agrees, Fields, At, Works, Fails, binaries,
     fleetVars, outside, OfFleet, VarTypes, FleetTypes
<1>17. ASSUME Note PROVE Switching'
  BY <1>17, SwitchEffect, FirstRun DEF Note, Moves, Agrees, Fields, At, Works, Fails, binaries,
     fleetVars, outside, OfFleet, VarTypes, FleetTypes
<1>18. ASSUME StartWatcher PROVE Switching'
  BY <1>18, StartWatcherEffect, FirstRun DEF StartWatcher, Moves, Agrees, Fields, At, Works, Fails,
     binaries, fleetVars, outside, OfFleet, VarTypes, FleetTypes
<1>19. ASSUME StopBoard PROVE Switching'
  BY <1>19, StopBoardEffect, FirstRun DEF StopBoard, Moves, Agrees, Fields, At, Works, Fails,
     binaries, fleetVars, outside, OfFleet, VarTypes, FleetTypes
<1>20. ASSUME KillBoard PROVE Switching'
  BY <1>20, KillBoardEffect, FirstRun DEF KillBoard, Moves, Agrees, Fields, At, Works, Fails,
     binaries, fleetVars, outside, OfFleet, VarTypes, FleetTypes
<1>21. ASSUME StartBoard PROVE Switching'
  BY <1>21, StartBoardEffect, FirstRun DEF StartBoard, Moves, Agrees, Fields, At, Works, Fails,
     binaries, fleetVars, outside, OfFleet, VarTypes, FleetTypes
<1>22. ASSUME Clear PROVE Switching'
  BY <1>22, ClearEffect, FirstRun DEF Clear, Moves, Agrees, Fields, At, Works, Fails, binaries,
     fleetVars, outside, OfFleet, VarTypes, FleetTypes
<1>23. ASSUME NEW f \in Fleets, Visit(f) PROVE Switching'
  <2>1. UNCHANGED <<sweep, board, sup, failed>> /\ At("visit")
    BY <1>23 DEF Visit, outside, fleetVars
  <2> QED BY <1>23, <2>1, VisitEffect DEF Moves, Agrees, Fields, At
<1>24. ASSUME NEW f \in Fleets, InitFleet(f) PROVE Switching'
  BY <1>24, InitFleetEffect, FirstRun DEF InitFleet, Moves, Agrees, Fields, At, Works, Fails,
     binaries, fleetVars, outside, OfFleet, VarTypes, FleetTypes
<1>25. ASSUME Killed PROVE Switching'
  BY <1>25, OutsideEffect, FirstRun DEF Killed, Moves, Agrees, Fields, At, Works, Fails, binaries,
     fleetVars, outside, OfFleet, VarTypes, FleetTypes
<1>26. ASSUME Sweep PROVE Switching'
  BY <1>26, OutsideEffect, FirstRun DEF Sweep, Moves, Agrees, Fields, At, Works, Fails, binaries,
     fleetVars, outside, OfFleet, VarTypes, FleetTypes
<1>27. ASSUME NEW f \in Fleets, Work(f) PROVE Switching'
  BY <1>27, OutsideEffect, FirstRun DEF Work, Moves, Agrees, Fields, At, Works, Fails, binaries,
     fleetVars, outside, OfFleet, VarTypes, FleetTypes
<1>28. ASSUME NEW f \in Fleets, SweepFleet(f) PROVE Switching'
  BY <1>28, OutsideEffect, FirstRun DEF SweepFleet, Moves, Agrees, Fields, At, Works, Fails,
     binaries, fleetVars, outside, OfFleet, VarTypes, FleetTypes
<1>29. ASSUME NEW f \in Fleets, WatcherServes(f) PROVE Switching'
  BY <1>29, OutsideEffect, FirstRun DEF WatcherServes, Moves, Agrees, Fields, At, Works, Fails,
     binaries, fleetVars, outside, OfFleet, VarTypes, FleetTypes
<1>30. CASE UNCHANGED uVars
  BY <1>30 DEF uVars, At
<1> QED
  BY <1>1, <1>2, <1>3, <1>4, <1>5, <1>6, <1>7, <1>8, <1>9, <1>10, <1>11, <1>12, <1>13, <1>14,
     <1>15, <1>16, <1>17, <1>18, <1>19, <1>20, <1>21, <1>22, <1>23, <1>24, <1>25, <1>26, <1>27,
     <1>28, <1>29, <1>30 DEF UpdateNext, UpdateStep

\* Every step keeps the types of what the fleets run.
LEMMA FleetTypesStep == UpdateInv /\ [UpdateNext]_uVars => FleetTypes'
<1> SUFFICES ASSUME UpdateInv, [UpdateNext]_uVars PROVE FleetTypes'
  OBVIOUS
<1> USE DEF UpdateInv, UpdateTypes, VarTypes, FleetTypes, FileTypes, Served, binaries, fleetVars, outside
<1>1. ASSUME NEW auto \in BOOLEAN, NEW keep \in BOOLEAN, Begin(auto, keep) PROVE FleetTypes'
  BY <1>1 DEF Begin
<1>2. ASSUME Repair PROVE FleetTypes'
  <2>1. watcher' \in [Fleets -> {"up", "down", "other"}]
    BY <1>2 DEF Repair
  <2>2. sup' \in [Fleets -> BOOLEAN] /\ board' \in BOOLEAN /\ busy' \in [Fleets -> BOOLEAN]
    BY <1>2 DEF Repair
  <2>3. server' \in [Fleets -> {"old", "new", "down"}]
    <3>1. server' = server \/ \E f \in journal.list.supervisor : server' = Served(f)
      BY <1>2 DEF Repair
    <3> QED BY <3>1
  <2>4. schema' \in [Fleets -> {"old", "new"}]
    BY <1>2 DEF Repair
  <2> QED BY <2>1, <2>2, <2>3, <2>4
<1>3. ASSUME Fetch PROVE FleetTypes'
  BY <1>3 DEF Fetch
<1>4. ASSUME Pin PROVE FleetTypes'
  BY <1>4 DEF Pin
<1>5. ASSUME Backup PROVE FleetTypes'
  BY <1>5 DEF Backup
<1>6. ASSUME Save PROVE FleetTypes'
  BY <1>6 DEF Save
<1>7. ASSUME SwapIroh PROVE FleetTypes'
  BY <1>7 DEF SwapIroh
<1>8. ASSUME SwapHand PROVE FleetTypes'
  BY <1>8 DEF SwapHand
<1>9. ASSUME MarkWatcher PROVE FleetTypes'
  BY <1>9 DEF MarkWatcher
<1>10. ASSUME KillWatcher PROVE FleetTypes'
  <2>1. run.fleet \in Fleets
    BY <1>10 DEF KillWatcher, Links, At, OfFleet
  <2> QED BY <1>10, <2>1 DEF KillWatcher
<1>11. ASSUME Still PROVE FleetTypes'
  BY <1>11 DEF Still
<1>12. ASSUME StopSupervisor PROVE FleetTypes'
  <2>1. run.fleet \in Fleets
    BY <1>12 DEF StopSupervisor, Links, At, OfFleet
  <2> QED BY <1>12, <2>1 DEF StopSupervisor
<1>13. ASSUME Quiet PROVE FleetTypes'
  BY <1>13 DEF Quiet
<1>14. ASSUME StopServer PROVE FleetTypes'
  <2>1. run.fleet \in Fleets
    BY <1>14 DEF StopServer, Links, At, OfFleet
  <2> QED BY <1>14, <2>1 DEF StopServer
<1>15. ASSUME StartServer PROVE FleetTypes'
  <2>1. run.fleet \in Fleets
    BY <1>15 DEF StartServer, Links, At, OfFleet
  <2> QED BY <1>15, <2>1 DEF StartServer
<1>16. ASSUME Restore PROVE FleetTypes'
  <2>1. run.fleet \in Fleets
    BY <1>16 DEF Restore, Links, At, OfFleet
  <2> QED BY ZenonT(40), <1>16, <2>1 DEF Restore
<1>17. ASSUME Note PROVE FleetTypes'
  <2>1. run.fleet \in Fleets
    BY <1>17 DEF Note, Links, At, OfFleet
  <2> QED BY <1>17, <2>1 DEF Note
<1>18. ASSUME StartWatcher PROVE FleetTypes'
  <2>1. run.fleet \in Fleets
    BY <1>18 DEF StartWatcher, Links, At, OfFleet
  <2> QED BY <1>18, <2>1 DEF StartWatcher
<1>19. ASSUME StopBoard PROVE FleetTypes'
  BY <1>19 DEF StopBoard
<1>20. ASSUME KillBoard PROVE FleetTypes'
  BY <1>20 DEF KillBoard
<1>21. ASSUME StartBoard PROVE FleetTypes'
  BY <1>21 DEF StartBoard
<1>22. ASSUME Clear PROVE FleetTypes'
  BY <1>22 DEF Clear
<1>23. ASSUME NEW f \in Fleets, Visit(f) PROVE FleetTypes'
  BY <1>23 DEF Visit
<1>24. ASSUME NEW f \in Fleets, InitFleet(f) PROVE FleetTypes'
  BY <1>24 DEF InitFleet
<1>25. ASSUME Killed PROVE FleetTypes'
  BY <1>25 DEF Killed
<1>26. ASSUME Sweep PROVE FleetTypes'
  BY <1>26 DEF Sweep
<1>27. ASSUME NEW f \in Fleets, Work(f) PROVE FleetTypes'
  BY <1>27 DEF Work
<1>28. ASSUME NEW f \in Fleets, SweepFleet(f) PROVE FleetTypes'
  BY <1>28 DEF SweepFleet
<1>29. ASSUME NEW f \in Fleets, WatcherServes(f) PROVE FleetTypes'
  BY <1>29 DEF WatcherServes
<1>30. CASE UNCHANGED uVars
  BY <1>30 DEF uVars, At
<1> QED
  BY <1>1, <1>2, <1>3, <1>4, <1>5, <1>6, <1>7, <1>8, <1>9, <1>10, <1>11, <1>12, <1>13, <1>14,
     <1>15, <1>16, <1>17, <1>18, <1>19, <1>20, <1>21, <1>22, <1>23, <1>24, <1>25, <1>26, <1>27,
     <1>28, <1>29, <1>30 DEF UpdateNext, UpdateStep

\* Every step keeps the types of the files.
LEMMA FileTypesStep == UpdateInv /\ [UpdateNext]_uVars => FileTypes'
<1> SUFFICES ASSUME UpdateInv, [UpdateNext]_uVars PROVE FileTypes'
  OBVIOUS
<1> USE DEF UpdateInv, UpdateTypes, VarTypes, FleetTypes, FileTypes, binaries, outside
<1>1. ASSUME NEW auto \in BOOLEAN, NEW keep \in BOOLEAN, Begin(auto, keep) PROVE FileTypes'
  BY <1>1 DEF Begin
<1>2. ASSUME Repair PROVE FileTypes'
  BY <1>2 DEF Repair
<1>3. ASSUME Fetch PROVE FileTypes'
  BY <1>3 DEF Fetch
<1>4. ASSUME Pin PROVE FileTypes'
  BY <1>4 DEF Pin
<1>5. ASSUME Backup PROVE FileTypes'
  BY <1>5 DEF Backup
<1>6. ASSUME Save PROVE FileTypes'
  BY <1>6 DEF Save
<1>7. ASSUME SwapIroh PROVE FileTypes'
  BY <1>7 DEF SwapIroh
<1>8. ASSUME SwapHand PROVE FileTypes'
  BY <1>8 DEF SwapHand
<1>9. ASSUME MarkWatcher PROVE FileTypes'
  BY <1>9 DEF MarkWatcher
<1>10. ASSUME KillWatcher PROVE FileTypes'
  <2>1. run.fleet \in Fleets
    BY <1>10 DEF KillWatcher, Links, At, OfFleet
  <2> QED BY <1>10, <2>1 DEF KillWatcher
<1>11. ASSUME Still PROVE FileTypes'
  BY <1>11 DEF Still
<1>12. ASSUME StopSupervisor PROVE FileTypes'
  <2>1. run.fleet \in Fleets
    BY <1>12 DEF StopSupervisor, Links, At, OfFleet
  <2> QED BY <1>12, <2>1 DEF StopSupervisor
<1>13. ASSUME Quiet PROVE FileTypes'
  BY <1>13 DEF Quiet
<1>14. ASSUME StopServer PROVE FileTypes'
  <2>1. run.fleet \in Fleets
    BY <1>14 DEF StopServer, Links, At, OfFleet
  <2> QED BY <1>14, <2>1 DEF StopServer
<1>15. ASSUME StartServer PROVE FileTypes'
  <2>1. run.fleet \in Fleets
    BY <1>15 DEF StartServer, Links, At, OfFleet
  <2> QED BY <1>15, <2>1 DEF StartServer
<1>16. ASSUME Restore PROVE FileTypes'
  <2>1. run.fleet \in Fleets
    BY <1>16 DEF Restore, Links, At, OfFleet
  <2> QED BY <1>16, <2>1 DEF Restore
<1>17. ASSUME Note PROVE FileTypes'
  <2>1. run.fleet \in Fleets
    BY <1>17 DEF Note, Links, At, OfFleet
  <2> QED BY <1>17, <2>1 DEF Note
<1>18. ASSUME StartWatcher PROVE FileTypes'
  <2>1. run.fleet \in Fleets
    BY <1>18 DEF StartWatcher, Links, At, OfFleet
  <2> QED BY <1>18, <2>1 DEF StartWatcher
<1>19. ASSUME StopBoard PROVE FileTypes'
  BY <1>19 DEF StopBoard
<1>20. ASSUME KillBoard PROVE FileTypes'
  BY <1>20 DEF KillBoard
<1>21. ASSUME StartBoard PROVE FileTypes'
  BY <1>21 DEF StartBoard
<1>22. ASSUME Clear PROVE FileTypes'
  BY <1>22 DEF Clear
<1>23. ASSUME NEW f \in Fleets, Visit(f) PROVE FileTypes'
  BY <1>23 DEF Visit
<1>24. ASSUME NEW f \in Fleets, InitFleet(f) PROVE FileTypes'
  BY <1>24 DEF InitFleet
<1>25. ASSUME Killed PROVE FileTypes'
  BY <1>25 DEF Killed
<1>26. ASSUME Sweep PROVE FileTypes'
  BY <1>26 DEF Sweep
<1>27. ASSUME NEW f \in Fleets, Work(f) PROVE FileTypes'
  BY <1>27 DEF Work
<1>28. ASSUME NEW f \in Fleets, SweepFleet(f) PROVE FileTypes'
  BY <1>28 DEF SweepFleet
<1>29. ASSUME NEW f \in Fleets, WatcherServes(f) PROVE FileTypes'
  BY <1>29 DEF WatcherServes
<1>30. CASE UNCHANGED uVars
  BY <1>30 DEF uVars, At
<1> QED
  BY <1>1, <1>2, <1>3, <1>4, <1>5, <1>6, <1>7, <1>8, <1>9, <1>10, <1>11, <1>12, <1>13, <1>14,
     <1>15, <1>16, <1>17, <1>18, <1>19, <1>20, <1>21, <1>22, <1>23, <1>24, <1>25, <1>26, <1>27,
     <1>28, <1>29, <1>30 DEF UpdateNext, UpdateStep

\* Every step keeps the bounds.
LEMMA CountTypesStep == UpdateInv /\ [UpdateNext]_uVars => CountTypes'
<1> SUFFICES ASSUME UpdateInv, [UpdateNext]_uVars PROVE CountTypes'
  OBVIOUS
<1> USE DEF UpdateInv, UpdateTypes, VarTypes, FleetTypes, FileTypes, CountTypes, Works, Fails, Fetched, Refuses, SwapFails, Unrecorded, outside, counts
<1>1. ASSUME NEW auto \in BOOLEAN, NEW keep \in BOOLEAN, Begin(auto, keep) PROVE CountTypes'
  BY <1>1, UpdateBoundsAssumption DEF Begin
<1>2. ASSUME Repair PROVE CountTypes'
  BY <1>2, UpdateBoundsAssumption DEF Repair
<1>3. ASSUME Fetch PROVE CountTypes'
  BY <1>3, UpdateBoundsAssumption DEF Fetch
<1>4. ASSUME Pin PROVE CountTypes'
  BY <1>4, UpdateBoundsAssumption DEF Pin
<1>5. ASSUME Backup PROVE CountTypes'
  BY <1>5, UpdateBoundsAssumption DEF Backup
<1>6. ASSUME Save PROVE CountTypes'
  BY <1>6, UpdateBoundsAssumption DEF Save
<1>7. ASSUME SwapIroh PROVE CountTypes'
  BY <1>7, UpdateBoundsAssumption DEF SwapIroh
<1>8. ASSUME SwapHand PROVE CountTypes'
  BY <1>8, UpdateBoundsAssumption DEF SwapHand
<1>9. ASSUME MarkWatcher PROVE CountTypes'
  <2>1. (Works \/ Fails) /\ UNCHANGED <<kills, work>>
    BY <1>9 DEF MarkWatcher
  <2> QED BY <2>1, UpdateBoundsAssumption
<1>10. ASSUME KillWatcher PROVE CountTypes'
  <2>1. (Works \/ Fails) /\ UNCHANGED <<kills, work>>
    BY <1>10 DEF KillWatcher
  <2> QED BY <2>1, UpdateBoundsAssumption
<1>11. ASSUME Still PROVE CountTypes'
  BY <1>11, UpdateBoundsAssumption DEF Still
<1>12. ASSUME StopSupervisor PROVE CountTypes'
  BY <1>12, UpdateBoundsAssumption DEF StopSupervisor
<1>13. ASSUME Quiet PROVE CountTypes'
  BY <1>13, UpdateBoundsAssumption DEF Quiet
<1>14. ASSUME StopServer PROVE CountTypes'
  BY <1>14, UpdateBoundsAssumption DEF StopServer
<1>15. ASSUME StartServer PROVE CountTypes'
  BY <1>15, UpdateBoundsAssumption DEF StartServer
<1>16. ASSUME Restore PROVE CountTypes'
  BY <1>16, UpdateBoundsAssumption DEF Restore
<1>17. ASSUME Note PROVE CountTypes'
  BY <1>17, UpdateBoundsAssumption DEF Note
<1>18. ASSUME StartWatcher PROVE CountTypes'
  BY <1>18, UpdateBoundsAssumption DEF StartWatcher
<1>19. ASSUME StopBoard PROVE CountTypes'
  <2>1. (Works \/ Fails) /\ UNCHANGED <<kills, work>>
    BY <1>19 DEF StopBoard
  <2> QED BY <2>1, UpdateBoundsAssumption
<1>20. ASSUME KillBoard PROVE CountTypes'
  <2>1. (Works \/ Fails) /\ UNCHANGED <<kills, work>>
    BY <1>20 DEF KillBoard
  <2> QED BY <2>1, UpdateBoundsAssumption
<1>21. ASSUME StartBoard PROVE CountTypes'
  BY <1>21, UpdateBoundsAssumption DEF StartBoard
<1>22. ASSUME Clear PROVE CountTypes'
  BY <1>22, UpdateBoundsAssumption DEF Clear
<1>23. ASSUME NEW f \in Fleets, Visit(f) PROVE CountTypes'
  BY <1>23, UpdateBoundsAssumption DEF Visit
<1>24. ASSUME NEW f \in Fleets, InitFleet(f) PROVE CountTypes'
  BY <1>24, UpdateBoundsAssumption DEF InitFleet
<1>25. ASSUME Killed PROVE CountTypes'
  BY <1>25, UpdateBoundsAssumption DEF Killed
<1>26. ASSUME Sweep PROVE CountTypes'
  BY <1>26, UpdateBoundsAssumption DEF Sweep
<1>27. ASSUME NEW f \in Fleets, Work(f) PROVE CountTypes'
  BY <1>27, UpdateBoundsAssumption DEF Work
<1>28. ASSUME NEW f \in Fleets, SweepFleet(f) PROVE CountTypes'
  BY <1>28, UpdateBoundsAssumption DEF SweepFleet
<1>29. ASSUME NEW f \in Fleets, WatcherServes(f) PROVE CountTypes'
  BY <1>29, UpdateBoundsAssumption DEF WatcherServes
<1>30. CASE UNCHANGED uVars
  BY <1>30 DEF uVars, At
<1> QED
  BY <1>1, <1>2, <1>3, <1>4, <1>5, <1>6, <1>7, <1>8, <1>9, <1>10, <1>11, <1>12, <1>13, <1>14,
     <1>15, <1>16, <1>17, <1>18, <1>19, <1>20, <1>21, <1>22, <1>23, <1>24, <1>25, <1>26, <1>27,
     <1>28, <1>29, <1>30 DEF UpdateNext, UpdateStep

\* What a step that takes a fleet on to the stop of its server rests on.
SwitchStep ==
  /\ ~At("stopServer") /\ run'.at = "stopServer"
     => LET f == run.fleet IN ~busy[f] /\ ~sup[f] /\ (watcher[f] = "up" => board)
  /\ At("still") /\ run'.at \in {"stopSupervisor", "stopServer"} => ~(run.auto /\ run.fleet \in failed)

\* Only a look at a quiet fleet lets its server be stopped.
LEMMA SwitchStepHolds == UpdateInv /\ [UpdateNext]_uVars => SwitchStep
<1> SUFFICES ASSUME UpdateInv, [UpdateNext]_uVars PROVE SwitchStep
  OBVIOUS
<1> USE DEF UpdateInv, UpdateTypes, Switching, SwitchStep, At
<1>1. ASSUME NEW auto \in BOOLEAN, NEW keep \in BOOLEAN, Begin(auto, keep) PROVE SwitchStep
  BY <1>1, BeginEffect, FirstRun DEF Moves, Agrees, Fields
<1>2. ASSUME Repair PROVE SwitchStep
  BY <1>2, RepairEffect, FirstRun DEF Moves, Agrees, Fields
<1>3. ASSUME Fetch PROVE SwitchStep
  BY <1>3, FetchEffect, FirstRun DEF Moves, Agrees, Fields
<1>4. ASSUME Pin PROVE SwitchStep
  BY <1>4, PinEffect, FirstRun DEF Moves, Agrees, Fields
<1>5. ASSUME Backup PROVE SwitchStep
  BY <1>5, BackupEffect, FirstRun DEF Moves, Agrees, Fields
<1>6. ASSUME Save PROVE SwitchStep
  BY <1>6, SaveEffect, FirstRun DEF Moves, Agrees, Fields
<1>7. ASSUME SwapIroh PROVE SwitchStep
  BY <1>7, SwapEffect, FirstRun DEF Moves, Agrees, Fields
<1>8. ASSUME SwapHand PROVE SwitchStep
  BY <1>8, SwapEffect, FirstRun DEF Moves, Agrees, Fields
<1>9. ASSUME MarkWatcher PROVE SwitchStep
  BY <1>9, MarkWatcherEffect, FirstRun DEF Moves, Agrees, Fields
<1>10. ASSUME KillWatcher PROVE SwitchStep
  BY <1>10, KillWatcherEffect, FirstRun DEF Moves, Agrees, Fields
<1>11. ASSUME Still PROVE SwitchStep
  BY <1>11, StillEffect, FirstRun DEF Moves, Agrees, Fields
<1>12. ASSUME StopSupervisor PROVE SwitchStep
  BY <1>12, SwitchEffect, FirstRun DEF Moves, Agrees, Fields
<1>13. ASSUME Quiet PROVE SwitchStep
  BY <1>13, SwitchEffect, FirstRun DEF Moves, Agrees, Fields
<1>14. ASSUME StopServer PROVE SwitchStep
  BY <1>14, SwitchEffect, FirstRun DEF Moves, Agrees, Fields
<1>15. ASSUME StartServer PROVE SwitchStep
  BY <1>15, SwitchEffect, FirstRun DEF Moves, Agrees, Fields
<1>16. ASSUME Restore PROVE SwitchStep
  BY <1>16, RestoreEffect, FirstRun DEF Moves, Agrees, Fields
<1>17. ASSUME Note PROVE SwitchStep
  BY <1>17, SwitchEffect, FirstRun DEF Moves, Agrees, Fields
<1>18. ASSUME StartWatcher PROVE SwitchStep
  BY <1>18, StartWatcherEffect, FirstRun DEF Moves, Agrees, Fields
<1>19. ASSUME StopBoard PROVE SwitchStep
  BY <1>19, StopBoardEffect, FirstRun DEF Moves, Agrees, Fields
<1>20. ASSUME KillBoard PROVE SwitchStep
  BY <1>20, KillBoardEffect, FirstRun DEF Moves, Agrees, Fields
<1>21. ASSUME StartBoard PROVE SwitchStep
  BY <1>21, StartBoardEffect, FirstRun DEF Moves, Agrees, Fields
<1>22. ASSUME Clear PROVE SwitchStep
  BY <1>22, ClearEffect, FirstRun DEF Moves, Agrees, Fields
<1>23. ASSUME NEW f \in Fleets, Visit(f) PROVE SwitchStep
  BY <1>23, VisitEffect, FirstRun DEF Moves, Agrees, Fields
<1>24. ASSUME NEW f \in Fleets, InitFleet(f) PROVE SwitchStep
  BY <1>24, InitFleetEffect, FirstRun DEF Moves, Agrees, Fields
<1>25. ASSUME Killed PROVE SwitchStep
  BY <1>25, OutsideEffect, FirstRun DEF Moves, Agrees, Fields
<1>26. ASSUME Sweep PROVE SwitchStep
  BY <1>26, OutsideEffect, FirstRun DEF Moves, Agrees, Fields
<1>27. ASSUME NEW f \in Fleets, Work(f) PROVE SwitchStep
  BY <1>27, OutsideEffect, FirstRun DEF Moves, Agrees, Fields
<1>28. ASSUME NEW f \in Fleets, SweepFleet(f) PROVE SwitchStep
  BY <1>28, OutsideEffect, FirstRun DEF Moves, Agrees, Fields
<1>29. ASSUME NEW f \in Fleets, WatcherServes(f) PROVE SwitchStep
  BY <1>29, OutsideEffect, FirstRun DEF Moves, Agrees, Fields
<1>30. CASE UNCHANGED uVars
  BY <1>30 DEF uVars
<1> QED
  BY <1>1, <1>2, <1>3, <1>4, <1>5, <1>6, <1>7, <1>8, <1>9, <1>10, <1>11, <1>12, <1>13, <1>14,
     <1>15, <1>16, <1>17, <1>18, <1>19, <1>20, <1>21, <1>22, <1>23, <1>24, <1>25, <1>26, <1>27,
     <1>28, <1>29, <1>30 DEF UpdateNext, UpdateStep


\* An update has not begun: nothing is owed and nothing is on record.
LEMMA UpdateInitInv == UpdateInit => UpdateInv
<1> SUFFICES ASSUME UpdateInit PROVE UpdateInv
  OBVIOUS
<1> USE FirstRun DEF UpdateInit
<1>1. UpdateTypes
  BY UpdateBoundsAssumption DEF UpdateTypes, VarTypes, FleetTypes, FileTypes, CountTypes, Links,
     At, OfFleet
<1>2. Journal /\ Switching /\ Replacing
  BY DEF Journal, Switching, Replacing, MigratedSaved, At, OfFleet
<1>3. Owing
  BY DEF Owing, Open, At, Late, OfFleet
<1> QED BY <1>1, <1>2, <1>3 DEF UpdateInv

\* No step breaks the invariant.
LEMMA UpdateInvStep == UpdateInv /\ [UpdateNext]_uVars => UpdateInv'
  BY LinksStep, JournalStep, OwingStep, SwitchingStep, ReplacingStep, FleetTypesStep,
     FileTypesStep, CountTypesStep
     DEF UpdateInv, UpdateTypes, VarTypes

\* The invariant holds whatever an update does and wherever it is killed.
LEMMA AlwaysUpdateInv == UpdateSpec => []UpdateInv
  BY UpdateInitInv, UpdateInvStep, PTL DEF UpdateSpec

\* What is owed is a unit, and one that was not told is on record.
LEMMA UpdateInvSafe == UpdateInv => UpdateSafety
<1> SUFFICES ASSUME UpdateInv PROVE UpdateSafety
  OBVIOUS
<1>1. UpdateTypeOK
  BY DEF UpdateInv, UpdateTypes, VarTypes, FleetTypes, FileTypes, CountTypes, Links, UpdateTypeOK
<1>2. ASSUME NEW u \in owed, u \notin said PROVE OnRecord(u)
  <2>1. CASE u = Board
    BY <1>2, <2>1 DEF UpdateInv, Owing, Open, OnRecord, Board, Unit
  <2>2. CASE u # Board
    <3>1. PICK k \in {"watcher", "supervisor", "init"}, f \in Fleets : u = Unit(k, f)
      BY <2>2 DEF UpdateInv, UpdateTypes, Links, Units, Unit
    <3>2. u.kind = k /\ u.fleet = f /\ u \in Open
      BY <1>2, <3>1 DEF Unit, Open
    <3>3. CASE k = "watcher"
      BY <2>2, <3>1, <3>2, <3>3 DEF UpdateInv, Owing, OnRecord
    <3>4. CASE k = "supervisor"
      BY <2>2, <3>1, <3>2, <3>4 DEF UpdateInv, Owing, OnRecord
    <3>5. CASE k = "init"
      BY <2>2, <3>1, <3>2, <3>5 DEF UpdateInv, Owing, OnRecord
    <3> QED BY <3>1, <3>3, <3>4, <3>5
  <2> QED BY <2>1, <2>2
<1>3. NothingForgotten
  BY <1>2 DEF NothingForgotten
<1> QED BY <1>1, <1>3 DEF UpdateInv, Replacing, MigratedSaved, IrohMatches, UpdateSafety

\* Wherever an update stops or is killed, what it took down is up, on record or
\* told, no fleet is migrated that was not saved, and the binaries belong
\* together (update.go, journal.go).
THEOREM UpdateSafe == UpdateSpec => []UpdateSafety
  BY AlwaysUpdateInv, UpdateInvSafe, PTL

\* An update stops a server only of a fleet it found quiet with its watcher and
\* its supervisor down, and the timer's tries no switch again that failed
\* (update.go, switchLuvus and ready).
THEOREM UpdateSwitches == UpdateSpec => SwitchesRight
<1>1. UpdateInv /\ [UpdateNext]_uVars
      => [~At("stopServer") /\ run'.at = "stopServer"
          => LET f == run.fleet IN ~busy[f] /\ ~sup[f] /\ (watcher[f] = "up" => board)]_uVars
  BY SwitchStepHolds DEF SwitchStep
<1>2. UpdateInv /\ [UpdateNext]_uVars
      => [At("still") /\ run'.at \in {"stopSupervisor", "stopServer"} => ~(run.auto /\ run.fleet \in failed)]_uVars
  BY SwitchStepHolds DEF SwitchStep
<1> QED BY <1>1, <1>2, AlwaysUpdateInv, PTL DEF UpdateSpec, SwitchesRight, SwitchedQuiet,
   TimerTriesOnce

-----------------------------------------------------------------------------
(* HostFleets: the inductive invariant *)

Handle == [home : Homes \cup {Lost}, board : [token : Nat, stat : Nat], open : BOOLEAN, retired : BOOLEAN,
           cancelled : BOOLEAN]
Seeking == {"idle", "resolve", "cached", "open"}
Opening == {"again", "publish"}
AskRecord == [at : Seeking \cup Opening \cup {"stat", "secret", "after", "serve"}, home : Homes \cup {Lost}, handle : Nat,
          uses : BOOLEAN, try : Nat, before : Nat, token : Nat, homes : SUBSET (Homes \cup {Lost}), tokens : SUBSET Nat]

HostTypes ==
  /\ home \in Homes \cup {Lost} /\ secret \in Nat /\ newest \in Nat /\ secret <= newest
  /\ handles \in Seq(Handle) /\ ask \in [Requests -> AskRecord] /\ cached \in 0 .. Len(handles)
  /\ \A r \in Requests : ask[r].handle \in 0 .. Len(handles) /\ ask[r].before <= newest

\* The cached handle is open, and so is that of every request.
CachedOpen == cached # 0 => handles[cached].open /\ ~handles[cached].retired
HeldOpen == \A r \in Requests : ask[r].handle # 0 => handles[ask[r].handle].open

\* A request that opened a handle has it for itself until it is published.
OwnHandle ==
  \A r \in Requests : ask[r].handle # 0 /\ ~ask[r].uses =>
    /\ cached # ask[r].handle /\ ~handles[ask[r].handle].retired
    /\ \A q \in Requests \ {r} : ask[q].handle # ask[r].handle

\* Which requests have a handle and which use it.
Turn ==
  \A r \in Requests :
    /\ ask[r].at \in Seeking <=> ask[r].handle = 0
    /\ ask[r].at \in Seeking \cup Opening => ~ask[r].uses
    /\ ask[r].at = "serve" => ask[r].uses

\* A Board is for the version of the token it was made with.
BoardsTold == \A n \in 1 .. Len(handles) : handles[n].board.token = handles[n].board.stat

\* What a request saw while it went on, and what its handle was opened for.
SeesNow == \A r \in Requests : ask[r].at # "idle" => home \in ask[r].homes /\ secret \in ask[r].tokens
HomeSeen == \A r \in Requests : ask[r].at \notin {"idle", "resolve"} => ask[r].home \in ask[r].homes
HandleHome == \A r \in Requests : ask[r].handle # 0 => handles[ask[r].handle].home = ask[r].home

\* A version of the token that is replaced never comes back.
TokenRead == \A r \in Requests : ask[r].at = "after" /\ ask[r].before = secret /\ secret # 0 => ask[r].token = secret

Holding == CachedOpen /\ HeldOpen /\ OwnHandle
Seeing == BoardsTold /\ SeesNow /\ HomeSeen /\ HandleHome /\ TokenRead
HostInv == HostTypes /\ Turn /\ Holding /\ Seeing

-----------------------------------------------------------------------------
(* HostFleets: what the steps do to requests and to handles *)

AskFields == {"at", "home", "handle", "uses", "try", "before", "token", "homes", "tokens"}
HandleFields == {"home", "board", "open", "retired", "cancelled"}

\* Only request r changes, and of it only the fields in C.
Turns(r, C) ==
  /\ ask' \in [Requests -> AskRecord] /\ \A q \in Requests \ {r} : ask'[q] = ask[q]
  /\ \A x \in AskFields \ C : ask'[r][x] = ask[r][x]

\* It is over.
Ended(r) ==
  /\ ask' \in [Requests -> AskRecord] /\ \A q \in Requests \ {r} : ask'[q] = ask[q]
  /\ ask'[r].at = "idle" /\ ask'[r].handle = 0 /\ ~ask'[r].uses /\ ask'[r].before = 0

\* Every request that goes on has seen home h and token t, and nothing else changes of it.
Sees(h, t) ==
  /\ ask' \in [Requests -> AskRecord]
  /\ \A q \in Requests : /\ \A x \in AskFields \ {"homes", "tokens"} : ask'[q][x] = ask[q][x]
                         /\ ask[q].homes \subseteq ask'[q].homes /\ ask[q].tokens \subseteq ask'[q].tokens
                         /\ ask[q].at # "idle" => h \in ask'[q].homes /\ t \in ask'[q].tokens

\* No handle comes or goes, and only of handle n the fields in C change.
Handles(n, C) ==
  /\ handles' \in Seq(Handle) /\ Len(handles') = Len(handles)
  /\ \A m \in (1 .. Len(handles)) \ {n} : handles'[m] = handles[m]
  /\ \A x \in HandleFields \ C : handles'[n][x] = handles[n][x]

\* Handle n is closed.
ClosesHandle(n) == Handles(n, HandleFields) /\ ~handles'[n].open /\ handles'[n].board.token = handles'[n].board.stat

\* A request of Quiescent is one.
LEMMA QuiescentType == Quiescent \in AskRecord /\ Quiescent.at = "idle" /\ Quiescent.handle = 0 /\ ~Quiescent.uses /\ Quiescent.before = 0
  BY DEF Quiescent, AskRecord, Seeking

\* An edit of one handle leaves the others.
LEMMA EditHandle ==
  ASSUME HostTypes, NEW n \in 1 .. Len(handles), NEW e \in Handle, handles' = [handles EXCEPT ![n] = e]
  PROVE  /\ handles' \in Seq(Handle) /\ Len(handles') = Len(handles) /\ handles'[n] = e
         /\ \A m \in (1 .. Len(handles)) \ {n} : handles'[m] = handles[m]
  BY ExceptSeq DEF HostTypes

LEMMA CloseEffect ==
  ASSUME HostTypes, NEW n \in 1 .. Len(handles), handles' = Close(n)
  PROVE  ClosesHandle(n)
<1>1. ClosedStore \in Handle /\ ~ClosedStore.open /\ ClosedStore.board.token = ClosedStore.board.stat
  BY DEF ClosedStore, Handle, NoBoard
<1>2. handles' = [handles EXCEPT ![n] = ClosedStore]
  BY DEF Close
<1> QED BY <1>1, <1>2, EditHandle DEF ClosesHandle, Handles

LEMMA RetireEffect ==
  ASSUME HostTypes, handles' = Retire
  PROVE  IF cached = 0 THEN handles' = handles ELSE Handles(cached, {"retired"})
<1>1. CASE cached = 0
  BY <1>1 DEF Retire
<1>2. CASE cached # 0
  <2> DEFINE e == [handles[cached] EXCEPT !.retired = TRUE]
  <2>1. cached \in 1 .. Len(handles) /\ handles[cached] \in Handle
    BY <1>2 DEF HostTypes
  <2>2. e \in Handle /\ \A x \in HandleFields \ {"retired"} : e[x] = handles[cached][x]
    BY <2>1 DEF Handle, HandleFields
  <2>3. handles' = [handles EXCEPT ![cached] = e]
    BY <1>2 DEF Retire
  <2> HIDE DEF e
  <2> QED BY <1>2, <2>1, <2>2, <2>3, EditHandle DEF Handles
<1> QED BY <1>1, <1>2

\* A request that is answered.
LEMMA AnsweredEffect ==
  ASSUME HostTypes, NEW r \in Requests, Answered(r)
  PROVE  Ended(r)
  BY QuiescentType DEF HostTypes, Answered, Ended

\* A request that goes on to its next step.
LEMMA ToEffect ==
  ASSUME HostTypes, NEW r \in Requests, NEW p \in Seeking \cup Opening \cup {"stat", "secret", "after", "serve"}, To(r, p)
  PROVE  Turns(r, {"at"}) /\ ask'[r].at = p
  BY ZenonT(40) DEF HostTypes, To, Turns, AskRecord, AskFields

\* A request that goes on in another way: the fields in C become those of e.
LEMMA TurnsTo ==
  ASSUME HostTypes, NEW r \in Requests, NEW e \in AskRecord, NEW C, \A x \in AskFields \ C : e[x] = ask[r][x],
         ask' = [ask EXCEPT ![r] = e]
  PROVE  Turns(r, C) /\ ask'[r] = e
  BY DEF HostTypes, Turns

LEMMA SeenEffect ==
  ASSUME HostTypes, NEW h \in Homes \cup {Lost}, NEW t \in Nat, ask' = Seen(h, t)
  PROVE  Sees(h, t)
<1> DEFINE e(q) == IF ask[q].at = "idle" THEN ask[q] ELSE [ask[q] EXCEPT !.homes = @ \cup {h}, !.tokens = @ \cup {t}]
<1>1. ASSUME NEW q \in Requests
      PROVE  /\ e(q) \in AskRecord /\ \A x \in AskFields \ {"homes", "tokens"} : e(q)[x] = ask[q][x]
             /\ ask[q].homes \subseteq e(q).homes /\ ask[q].tokens \subseteq e(q).tokens
             /\ ask[q].at # "idle" => h \in e(q).homes /\ t \in e(q).tokens
  <2>1. ask[q] \in AskRecord
    BY DEF HostTypes
  <2> QED BY <2>1 DEF AskRecord, AskFields
<1>2. ask' = [q \in Requests |-> e(q)]
  BY DEF Seen
<1> HIDE DEF e
<1> QED BY <1>1, <1>2 DEF Sees

\* A request comes.
LEMMA AskEffect ==
  ASSUME HostTypes, NEW r \in Requests, Ask(r)
  PROVE  /\ ask[r].at = "idle" /\ Turns(r, AskFields) /\ ask'[r].at = "resolve" /\ ask'[r].handle = 0 /\ ~ask'[r].uses
         /\ ask'[r].before = 0 /\ ask'[r].homes = {home} /\ ask'[r].tokens = {secret}
         /\ UNCHANGED <<home, secret, newest, cached, handles>>
<1> DEFINE e == [Quiescent EXCEPT !.at = "resolve", !.try = 1, !.homes = {home}, !.tokens = {secret}]
<1>1. /\ e \in AskRecord /\ e.at = "resolve" /\ e.handle = 0 /\ ~e.uses /\ e.before = 0
      /\ e.homes = {home} /\ e.tokens = {secret}
  BY DEF Quiescent, AskRecord, Seeking, HostTypes
<1>2. ask[r].at = "idle" /\ ask' = [ask EXCEPT ![r] = e] /\ UNCHANGED <<home, secret, newest, cached, handles>>
  BY DEF Ask, World
<1> HIDE DEF e
<1> QED BY <1>1, <1>2, TurnsTo

\* It learns where the fleet is.
LEMMA ResolveEffect ==
  ASSUME HostTypes, NEW r \in Requests, Resolve(r)
  PROVE  /\ ask[r].at = "resolve" /\ Turns(r, {"at", "home"}) /\ ask'[r].at = "cached" /\ ask'[r].home = home
         /\ UNCHANGED <<home, secret, newest, cached, handles>>
<1> DEFINE e == [ask[r] EXCEPT !.at = "cached", !.home = home]
<1>1. e \in AskRecord /\ e.at = "cached" /\ e.home = home /\ \A x \in AskFields \ {"at", "home"} : e[x] = ask[r][x]
  BY DEF AskRecord, Seeking, HostTypes, AskFields
<1>2. ask[r].at = "resolve" /\ ask' = [ask EXCEPT ![r] = e] /\ UNCHANGED <<home, secret, newest, cached, handles>>
  BY DEF Resolve, World
<1> HIDE DEF e
<1> QED BY <1>1, <1>2, TurnsTo

\* It takes the cached handle, or retires one of another folder.
LEMMA CachedEffect ==
  ASSUME HostTypes, NEW r \in Requests, Cached(r)
  PROVE  /\ ask[r].at = "cached" /\ UNCHANGED <<home, secret, newest>>
         /\ \/ /\ cached # 0 /\ handles[cached].home = ask[r].home
               /\ Turns(r, {"at", "handle", "uses"}) /\ ask'[r].at = "stat" /\ ask'[r].handle = cached /\ ask'[r].uses
               /\ UNCHANGED <<cached, handles>>
            \/ /\ cached' = 0
               /\ IF cached = 0 THEN handles' = handles ELSE Handles(cached, {"retired"})
               /\ Ended(r) \/ (Turns(r, {"at"}) /\ ask'[r].at = "open")
<1> DEFINE e == [ask[r] EXCEPT !.at = "stat", !.handle = cached, !.uses = TRUE]
<1>1. /\ e \in AskRecord /\ e.at = "stat" /\ e.handle = cached /\ e.uses
      /\ \A x \in AskFields \ {"at", "handle", "uses"} : e[x] = ask[r][x]
  <2>1. ask[r] \in AskRecord /\ cached \in Nat
    BY LenProperties DEF HostTypes
  <2> QED BY <2>1 DEF AskRecord, AskFields
<1>2. /\ ask[r].at = "cached" /\ UNCHANGED <<home, secret, newest>>
      /\ \/ /\ cached # 0 /\ handles[cached].home = ask[r].home
            /\ ask' = [ask EXCEPT ![r] = e] /\ UNCHANGED <<cached, handles>>
         \/ /\ cached' = 0 /\ handles' = Retire
            /\ Answered(r) \/ To(r, "open")
  BY DEF Cached, World
<1> HIDE DEF e
<1>3. To(r, "open") => Turns(r, {"at"}) /\ ask'[r].at = "open"
  BY ToEffect DEF Seeking
<1> QED BY <1>1, <1>2, <1>3, TurnsTo, RetireEffect, AnsweredEffect

\* It opens the store where the fleet is.
LEMMA OpenEffect ==
  ASSUME HostTypes, NEW r \in Requests, OpenBoard(r)
  PROVE  /\ ask[r].at = "open" /\ UNCHANGED <<home, secret, newest, cached>>
         /\ \/ /\ handles' \in Seq(Handle) /\ Len(handles') = Len(handles) + 1
               /\ \A n \in 1 .. Len(handles) : handles'[n] = handles[n]
               /\ LET h == handles'[Len(handles) + 1] IN
                    h.home = ask[r].home /\ h.board = NoBoard /\ h.open /\ ~h.retired
               /\ Turns(r, {"at", "handle"}) /\ ask'[r].at = "stat" /\ ask'[r].handle = Len(handles) + 1
            \/ Ended(r) /\ handles' = handles
<1> DEFINE h == [home |-> home, board |-> NoBoard, open |-> TRUE, retired |-> FALSE, cancelled |-> FALSE]
           e == [ask[r] EXCEPT !.at = "stat", !.handle = Len(handles) + 1]
<1>1. h \in Handle /\ h.home = home /\ h.board = NoBoard /\ h.open /\ ~h.retired
  BY DEF Handle, NoBoard, HostTypes
<1>2. Len(handles) \in Nat
  BY LenProperties DEF HostTypes
<1>3. /\ e \in AskRecord /\ e.at = "stat" /\ e.handle = Len(handles) + 1
      /\ \A x \in AskFields \ {"at", "handle"} : e[x] = ask[r][x]
  <2>1. ask[r] \in AskRecord /\ Len(handles) + 1 \in Nat
    BY <1>2 DEF HostTypes
  <2> QED BY <2>1 DEF AskRecord, AskFields
<1>4. CASE ask[r].home = home
  <2>1. handles' = Append(handles, h)
    BY <1>4 DEF OpenBoard
  <2>2. /\ handles' \in Seq(Handle) /\ Len(handles') = Len(handles) + 1
        /\ \A n \in 1 .. Len(handles) : handles'[n] = handles[n]
        /\ handles'[Len(handles) + 1] = h
    BY <1>1, <2>1, AppendProperties DEF HostTypes
  <2>3. /\ ask' = [ask EXCEPT ![r].at = "stat", ![r].handle = Len(handles')]
        /\ ask[r].at = "open" /\ UNCHANGED <<home, secret, newest, cached>>
    BY <1>4 DEF OpenBoard, World
  <2>4. ask' = [ask EXCEPT ![r] = e]
    BY <2>2, <2>3
  <2> HIDE DEF e, h
  <2>5. Turns(r, {"at", "handle"}) /\ ask'[r] = e
    BY <1>3, <2>4, TurnsTo
  <2> QED BY <1>1, <1>3, <1>4, <2>2, <2>3, <2>5
<1>5. CASE ask[r].home # home
  <2>1. Answered(r) /\ handles' = handles /\ ask[r].at = "open" /\ UNCHANGED <<home, secret, newest, cached>>
    BY <1>5 DEF OpenBoard, World
  <2> QED BY <2>1, AnsweredEffect
<1> QED BY <1>4, <1>5

\* It looks again where the fleet is, and closes what it opened elsewhere.
LEMMA ResolveAgainEffect ==
  ASSUME HostTypes, NEW r \in Requests, ResolveAgain(r), ask[r].handle # 0
  PROVE  /\ ask[r].at = "again" /\ UNCHANGED <<home, secret, newest, cached>>
         /\ \/ handles' = handles /\ Turns(r, {"at"}) /\ ask'[r].at = "publish"
            \/ /\ ClosesHandle(ask[r].handle)
               /\ \/ Ended(r)
                  \/ /\ Turns(r, {"at", "home", "handle", "before", "token", "try"}) /\ ask'[r].at = "resolve"
                     /\ ask'[r].handle = 0 /\ ask'[r].before = 0
<1> DEFINE e == [ask[r] EXCEPT !.at = "resolve", !.handle = 0, !.home = Lost, !.before = 0, !.token = 0, !.try = ask[r].try + 1]
<1>1. /\ e \in AskRecord /\ e.at = "resolve" /\ e.handle = 0 /\ e.before = 0
      /\ \A x \in AskFields \ {"at", "home", "handle", "before", "token", "try"} : e[x] = ask[r][x]
  <2>1. ask[r] \in AskRecord /\ ask[r].try + 1 \in Nat
    BY DEF HostTypes, AskRecord
  <2> QED BY <2>1 DEF AskRecord, AskFields, Seeking
<1>2. /\ ask[r].at = "again" /\ UNCHANGED <<home, secret, newest, cached>>
      /\ \/ To(r, "publish") /\ handles' = handles
         \/ handles' = Close(ask[r].handle) /\ (Answered(r) \/ ask' = [ask EXCEPT ![r] = e])
  BY DEF ResolveAgain, World
<1> HIDE DEF e
<1>3. To(r, "publish") => Turns(r, {"at"}) /\ ask'[r].at = "publish"
  BY ToEffect DEF Opening
<1>4. ask[r].handle \in 1 .. Len(handles)
  BY DEF HostTypes
<1> QED BY <1>1, <1>2, <1>3, <1>4, TurnsTo, CloseEffect, AnsweredEffect

\* Its handle becomes the cached one, or it takes the one that is cached.
LEMMA PublishEffect ==
  ASSUME HostTypes, NEW r \in Requests, Publish(r), ask[r].handle # 0
  PROVE  /\ ask[r].at = "publish" /\ UNCHANGED <<home, secret, newest>> /\ ask'[r].at = "stat" /\ ask'[r].uses
         /\ \/ /\ cached # 0 /\ handles[cached].home = ask[r].home /\ ClosesHandle(ask[r].handle)
               /\ Turns(r, {"at", "handle", "uses"}) /\ ask'[r].handle = cached /\ cached' = cached
            \/ /\ IF cached = 0 THEN handles' = handles ELSE Handles(cached, {"retired"})
               /\ Turns(r, {"at", "uses"}) /\ cached' = ask[r].handle
<1> DEFINE e == [ask[r] EXCEPT !.at = "stat", !.handle = cached, !.uses = TRUE]
           u == [ask[r] EXCEPT !.at = "stat", !.uses = TRUE]
<1>1. /\ e \in AskRecord /\ e.at = "stat" /\ e.handle = cached /\ e.uses
      /\ \A x \in AskFields \ {"at", "handle", "uses"} : e[x] = ask[r][x]
  <2>1. ask[r] \in AskRecord /\ cached \in Nat
    BY LenProperties DEF HostTypes
  <2> QED BY <2>1 DEF AskRecord, AskFields
<1>2. u \in AskRecord /\ u.at = "stat" /\ u.uses /\ \A x \in AskFields \ {"at", "uses"} : u[x] = ask[r][x]
  BY DEF AskRecord, HostTypes, AskFields
<1>3. /\ ask[r].at = "publish" /\ UNCHANGED <<home, secret, newest>>
      /\ \/ /\ cached # 0 /\ handles[cached].home = ask[r].home /\ handles' = Close(ask[r].handle)
            /\ ask' = [ask EXCEPT ![r] = e] /\ cached' = cached
         \/ handles' = Retire /\ cached' = ask[r].handle /\ ask' = [ask EXCEPT ![r] = u]
  BY DEF Publish, World
<1> HIDE DEF e, u
<1>4. ask[r].handle \in 1 .. Len(handles)
  BY DEF HostTypes
<1>5. CASE cached # 0 /\ handles[cached].home = ask[r].home /\ handles' = Close(ask[r].handle)
            /\ ask' = [ask EXCEPT ![r] = e] /\ cached' = cached
  <2>1. Turns(r, {"at", "handle", "uses"}) /\ ask'[r] = e
    <3>1. ask' = [ask EXCEPT ![r] = e]
      BY <1>5
    <3> QED BY ZenonT(40), <1>1, <3>1, TurnsTo
  <2>2. ClosesHandle(ask[r].handle)
    BY <1>4, <1>5, CloseEffect
  <2> QED BY <1>1, <1>3, <1>5, <2>1, <2>2
<1>6. CASE handles' = Retire /\ cached' = ask[r].handle /\ ask' = [ask EXCEPT ![r] = u]
  <2>1. Turns(r, {"at", "uses"}) /\ ask'[r] = u
    BY ZenonT(40), <1>2, <1>6, TurnsTo
  <2> QED BY <1>2, <1>3, <1>6, <2>1, RetireEffect
<1> QED BY <1>3, <1>5, <1>6

\* The place a request goes on to when the Board is the one of the token.
Onward(r) == IF ask[r].uses THEN "serve" ELSE "again"

LEMMA PassedEffect ==
  ASSUME HostTypes, NEW r \in Requests, Passed(r)
  PROVE  Turns(r, {"at"}) /\ ask'[r].at = Onward(r)
<1>1. Onward(r) \in Opening \cup {"serve"} /\ To(r, Onward(r))
  BY DEF Passed, Onward, Opening
<1> QED BY <1>1, ToEffect

\* The file of the token is looked at.
LEMMA StatEffect ==
  ASSUME HostTypes, NEW r \in Requests, StatToken(r)
  PROVE  /\ ask[r].at = "stat" /\ UNCHANGED <<home, secret, newest, cached, handles>>
         /\ \/ secret # 0 /\ handles[ask[r].handle].board.stat = secret /\ Turns(r, {"at"}) /\ ask'[r].at = Onward(r)
            \/ Turns(r, {"at", "before"}) /\ ask'[r].at = "secret" /\ ask'[r].before = secret
<1> DEFINE e == [ask[r] EXCEPT !.at = "secret", !.before = secret]
<1>1. e \in AskRecord /\ e.at = "secret" /\ e.before = secret /\ \A x \in AskFields \ {"at", "before"} : e[x] = ask[r][x]
  BY DEF AskRecord, HostTypes, AskFields
<1>2. /\ ask[r].at = "stat" /\ UNCHANGED <<home, secret, newest, cached, handles>>
      /\ \/ secret # 0 /\ handles[ask[r].handle].board.stat = secret /\ Passed(r)
         \/ ask' = [ask EXCEPT ![r] = e]
  BY DEF StatToken, World
<1> HIDE DEF e
<1> QED BY <1>1, <1>2, TurnsTo, PassedEffect

\* The token is read, or made.
LEMMA ReadEffect ==
  ASSUME HostTypes, NEW r \in Requests, ReadToken(r)
  PROVE  /\ ask[r].at = "secret" /\ UNCHANGED <<home, cached, handles>>
         /\ secret' \in Nat /\ newest' \in Nat /\ secret' <= newest'
         /\ (secret' = secret /\ newest' = newest) \/ (secret' = newest + 1 /\ newest' = newest + 1)
         /\ ask' \in [Requests -> AskRecord] /\ ask'[r].at = "after" /\ ask'[r].token = secret'
         /\ \A q \in Requests :
              /\ \A x \in AskFields \ {"at", "token", "homes", "tokens"} : ask'[q][x] = ask[q][x]
              /\ q # r => ask'[q].at = ask[q].at /\ ask'[q].token = ask[q].token
              /\ ask[q].homes \subseteq ask'[q].homes /\ ask[q].tokens \subseteq ask'[q].tokens
              /\ ask[q].at # "idle" => home \in ask'[q].homes /\ secret' \in ask'[q].tokens
<1> DEFINE made == IF secret = 0 THEN newest + 1 ELSE secret
           s == Seen(home, made)
           e == [s[r] EXCEPT !.at = "after", !.token = made]
<1>1. made \in Nat /\ made # 0
  BY DEF HostTypes
<1>2. /\ ask[r].at = "secret" /\ UNCHANGED <<home, cached, handles>> /\ secret' = made
      /\ newest' = IF secret = 0 THEN made ELSE newest
  BY DEF ReadToken
<1>3. ask' = [s EXCEPT ![r] = e]
  BY DEF ReadToken
<1> HIDE DEF made
<1>4. /\ s \in [Requests -> AskRecord]
      /\ \A q \in Requests : /\ \A x \in AskFields \ {"homes", "tokens"} : s[q][x] = ask[q][x]
                             /\ ask[q].homes \subseteq s[q].homes /\ ask[q].tokens \subseteq s[q].tokens
                             /\ ask[q].at # "idle" => home \in s[q].homes /\ made \in s[q].tokens
  <2> DEFINE d(q) == IF ask[q].at = "idle" THEN ask[q] ELSE [ask[q] EXCEPT !.homes = @ \cup {home}, !.tokens = @ \cup {made}]
  <2>1. ASSUME NEW q \in Requests
        PROVE  /\ d(q) \in AskRecord /\ \A x \in AskFields \ {"homes", "tokens"} : d(q)[x] = ask[q][x]
               /\ ask[q].homes \subseteq d(q).homes /\ ask[q].tokens \subseteq d(q).tokens
               /\ ask[q].at # "idle" => home \in d(q).homes /\ made \in d(q).tokens
    <3>1. ask[q] \in AskRecord /\ home \in Homes \cup {Lost}
      BY DEF HostTypes
    <3> QED BY <1>1, <3>1 DEF AskRecord, AskFields
  <2>2. s = [q \in Requests |-> d(q)]
    BY DEF Seen
  <2> HIDE DEF d, s
  <2> QED BY <2>1, <2>2
<1> HIDE DEF s
<1>5. e \in AskRecord /\ e.at = "after" /\ e.token = made /\ \A x \in AskFields \ {"at", "token"} : e[x] = s[r][x]
  <2>1. s[r] \in AskRecord
    BY <1>4
  <2> QED BY <1>1, <2>1 DEF AskRecord, AskFields
<1> HIDE DEF e
<1>6. /\ ask' \in [Requests -> AskRecord] /\ ask'[r] = e /\ \A q \in Requests \ {r} : ask'[q] = s[q]
  BY <1>3, <1>4, <1>5
<1>7. /\ secret' \in Nat /\ newest' \in Nat /\ secret' <= newest'
      /\ (secret' = secret /\ newest' = newest) \/ (secret' = newest + 1 /\ newest' = newest + 1)
  BY <1>1, <1>2 DEF made, HostTypes
<1>8. ASSUME NEW q \in Requests
      PROVE  /\ \A x \in AskFields \ {"at", "token", "homes", "tokens"} : ask'[q][x] = ask[q][x]
             /\ q # r => ask'[q].at = ask[q].at /\ ask'[q].token = ask[q].token
             /\ ask[q].homes \subseteq ask'[q].homes /\ ask[q].tokens \subseteq ask'[q].tokens
             /\ ask[q].at # "idle" => home \in ask'[q].homes /\ made \in ask'[q].tokens
  BY <1>4, <1>5, <1>6 DEF AskFields
<1> QED BY <1>2, <1>5, <1>6, <1>7, <1>8

\* The file is looked at again: it stayed, it changed or it is gone.
LEMMA AfterEffect ==
  ASSUME HostTypes, NEW r \in Requests, StatAfter(r), ask[r].handle # 0
  PROVE  /\ ask[r].at = "after" /\ UNCHANGED <<home, secret, newest, cached>>
         /\ \/ Ended(r) /\ IF ask[r].uses THEN handles' = handles ELSE ClosesHandle(ask[r].handle)
            \/ /\ secret # 0 /\ ask[r].before = secret /\ Handles(ask[r].handle, {"board"})
               /\ handles'[ask[r].handle].board.token = ask[r].token /\ handles'[ask[r].handle].board.stat = secret
               /\ Turns(r, {"at"}) /\ ask'[r].at = Onward(r)
            \/ handles' = handles /\ Turns(r, {"at", "before"}) /\ ask'[r].at = "secret" /\ ask'[r].before = secret
<1> DEFINE n == ask[r].handle
           e == [ask[r] EXCEPT !.at = "secret", !.before = secret]
           b == [token |-> ask[r].token, stat |-> secret]
           h == [handles[n] EXCEPT !.board = b]
<1>1. e \in AskRecord /\ e.at = "secret" /\ e.before = secret /\ \A x \in AskFields \ {"at", "before"} : e[x] = ask[r][x]
  BY DEF AskRecord, HostTypes, AskFields
<1>2. n \in 1 .. Len(handles)
  BY DEF HostTypes
<1>3. h \in Handle /\ h.board = b /\ \A x \in HandleFields \ {"board"} : h[x] = handles[n][x]
  <2>1. handles[n] \in Handle /\ b \in [token : Nat, stat : Nat]
    BY <1>2 DEF HostTypes, AskRecord
  <2> HIDE DEF b, n
  <2> QED BY <2>1 DEF Handle, HandleFields
<1>4. /\ ask[r].at = "after" /\ UNCHANGED <<home, secret, newest, cached>>
      /\ \/ Answered(r) /\ handles' = IF ask[r].uses THEN handles ELSE Close(n)
         \/ secret # 0 /\ ask[r].before = secret /\ handles' = [handles EXCEPT ![n] = h] /\ Passed(r)
         \/ ask' = [ask EXCEPT ![r] = e] /\ handles' = handles
  BY DEF StatAfter, World
<1> HIDE DEF e, h, b
<1>5. handles' = [handles EXCEPT ![n] = h] => Handles(n, {"board"}) /\ handles'[n].board = b
  BY <1>2, <1>3, EditHandle DEF Handles
<1>6. ~ask[r].uses /\ handles' = (IF ask[r].uses THEN handles ELSE Close(n)) => ClosesHandle(n)
  BY <1>2, CloseEffect
<1> QED BY <1>1, <1>4, <1>5, <1>6, TurnsTo, PassedEffect, AnsweredEffect DEF b

\* The goroutine of a retired handle cancels who uses it, or closes it.
LEMMA GraceEffect ==
  ASSUME HostTypes, NEW n, Grace(n)
  PROVE  n \in 1 .. Len(handles) /\ Handles(n, {"cancelled"}) /\ UNCHANGED <<home, secret, newest, cached, ask>>
<1> DEFINE h == [handles[n] EXCEPT !.cancelled = TRUE]
<1>1. n \in 1 .. Len(handles) /\ handles[n] \in Handle
  BY DEF Grace, HostTypes
<1>2. h \in Handle /\ \A x \in HandleFields \ {"cancelled"} : h[x] = handles[n][x]
  BY <1>1 DEF Handle, HandleFields
<1>3. handles' = [handles EXCEPT ![n] = h] /\ UNCHANGED <<home, secret, newest, cached, ask>>
  BY DEF Grace, World
<1> HIDE DEF h
<1> QED BY <1>1, <1>2, <1>3, EditHandle DEF Handles

LEMMA CloseRetiredEffect ==
  ASSUME HostTypes, NEW n, CloseRetired(n)
  PROVE  /\ n \in 1 .. Len(handles) /\ handles[n].retired /\ ClosesHandle(n)
         /\ \A r \in Requests : ask[r].uses => ask[r].handle # n
         /\ UNCHANGED <<home, secret, newest, cached, ask>>
<1>1. n \in 1 .. Len(handles)
  BY DEF CloseRetired, HostTypes
<1> QED BY <1>1, CloseEffect DEF CloseRetired, World, Users

\* The fleet moves, or its token is replaced or deleted.
LEMMA ChangeEffect ==
  ASSUME HostTypes, MoveFleet \/ ChangeToken
  PROVE  /\ home' \in Homes \cup {Lost} /\ secret' \in Nat /\ newest' \in Nat /\ secret' <= newest' /\ Sees(home', secret')
         /\ \/ secret' = secret /\ newest' = newest
            \/ secret' = 0 /\ newest' = newest
            \/ secret' = newest + 1 /\ newest' = newest + 1
         /\ UNCHANGED <<cached, handles>>
<1>1. /\ home' \in Homes \cup {Lost} /\ ask' = Seen(home', secret') /\ UNCHANGED <<cached, handles>>
      /\ \/ secret' = secret /\ newest' = newest
         \/ secret' = 0 /\ newest' = newest
         \/ secret' = newest + 1 /\ newest' = newest + 1
  BY DEF MoveFleet, ChangeToken, HostTypes
<1>2. secret' \in Nat /\ newest' \in Nat /\ secret' <= newest'
  BY <1>1 DEF HostTypes
<1> QED BY <1>1, <1>2, SeenEffect


\* An answer is complete.
LEMMA FinishEffect ==
  ASSUME HostTypes, NEW r \in Requests, Finish(r)
  PROVE  ask[r].at = "serve" /\ Ended(r) /\ UNCHANGED <<home, secret, newest, cached, handles>>
  BY AnsweredEffect DEF Finish, World

\* A request that is to be looked at again, published or told has a handle.
LEMMA HandleHeld ==
  ASSUME HostTypes, Turn, NEW r \in Requests, ResolveAgain(r) \/ Publish(r) \/ StatAfter(r)
  PROVE  ask[r].handle # 0
  BY DEF Turn, ResolveAgain, Publish, StatAfter, Seeking

\* Nobody else has a handle that was not published.
LEMMA Unpublished ==
  ASSUME HostInv, NEW r \in Requests, ResolveAgain(r) \/ Publish(r)
  PROVE  /\ ask[r].handle \in 1 .. Len(handles) /\ ask[r].handle # cached /\ ~ask[r].uses
         /\ handles[ask[r].handle].open /\ ~handles[ask[r].handle].retired
         /\ \A q \in Requests \ {r} : ask[q].handle # ask[r].handle
<1>1. ask[r].at \in Opening
  BY DEF ResolveAgain, Publish, Opening
<1>2. ask[r].handle # 0 /\ ~ask[r].uses
  BY <1>1 DEF HostInv, Turn, Opening, Seeking
<1>3. ask[r].handle \in 1 .. Len(handles)
  BY <1>2 DEF HostTypes, HostInv
<1> QED BY <1>2, <1>3 DEF Holding, HeldOpen, OwnHandle, HostInv

\* Every step keeps the types.
LEMMA HostTypesStep == HostInv /\ [HostNext]_hVars => HostTypes'
<1> SUFFICES ASSUME HostInv, [HostNext]_hVars PROVE HostTypes'
  OBVIOUS
<1> USE DEF HostInv
<1>1. ASSUME NEW r \in Requests, Ask(r) PROVE HostTypes'
  BY <1>1, AskEffect, HandleHeld, LenProperties DEF HostTypes, Turns, Ended, AskFields, Handles,
     ClosesHandle, Sees
<1>2. ASSUME NEW r \in Requests, Resolve(r) PROVE HostTypes'
  BY <1>2, ResolveEffect, HandleHeld, LenProperties DEF HostTypes, Turns, Ended, AskFields,
     Handles, ClosesHandle, Sees
<1>3. ASSUME NEW r \in Requests, Cached(r) PROVE HostTypes'
  BY <1>3, CachedEffect, HandleHeld, LenProperties DEF HostTypes, Turns, Ended, AskFields, Handles,
     ClosesHandle, Sees
<1>4. ASSUME NEW r \in Requests, OpenBoard(r) PROVE HostTypes'
  BY <1>4, OpenEffect, HandleHeld, LenProperties DEF HostTypes, Turns, Ended, AskFields, Handles,
     ClosesHandle, Sees
<1>5. ASSUME NEW r \in Requests, ResolveAgain(r) PROVE HostTypes'
  BY <1>5, ResolveAgainEffect, HandleHeld, LenProperties DEF HostTypes, Turns, Ended, AskFields,
     Handles, ClosesHandle, Sees
<1>6. ASSUME NEW r \in Requests, Publish(r) PROVE HostTypes'
  BY <1>6, PublishEffect, HandleHeld, LenProperties DEF HostTypes, Turns, Ended, AskFields,
     Handles, ClosesHandle, Sees
<1>7. ASSUME NEW r \in Requests, StatToken(r) PROVE HostTypes'
  BY <1>7, StatEffect, HandleHeld, LenProperties DEF HostTypes, Turns, Ended, AskFields, Handles,
     ClosesHandle, Sees
<1>8. ASSUME NEW r \in Requests, ReadToken(r) PROVE HostTypes'
  <2>1. \A q \in Requests : ask'[q].handle = ask[q].handle /\ ask'[q].before = ask[q].before
    BY <1>8, ReadEffect DEF AskFields
  <2>2. \A q \in Requests : ask[q].before \in Nat /\ ask[q].before <= newest
    BY DEF HostTypes, AskRecord
  <2>3. newest <= newest'
    BY <1>8, ReadEffect DEF HostTypes
  <2> QED BY <1>8, <2>1, <2>2, <2>3, ReadEffect DEF HostTypes
<1>9. ASSUME NEW r \in Requests, StatAfter(r) PROVE HostTypes'
  BY <1>9, AfterEffect, HandleHeld, LenProperties DEF HostTypes, Turns, Ended, AskFields, Handles,
     ClosesHandle, Sees
<1>10. ASSUME NEW r \in Requests, Finish(r) PROVE HostTypes'
  BY <1>10, FinishEffect, HandleHeld, LenProperties DEF HostTypes, Turns, Ended, AskFields,
     Handles, ClosesHandle, Sees
<1>11. ASSUME NEW n \in 1 .. Tries * MaxAsks, Grace(n) PROVE HostTypes'
  BY <1>11, GraceEffect, HandleHeld, LenProperties DEF HostTypes, Turns, Ended, AskFields, Handles,
     ClosesHandle, Sees
<1>12. ASSUME NEW n \in 1 .. Tries * MaxAsks, CloseRetired(n) PROVE HostTypes'
  BY <1>12, CloseRetiredEffect, HandleHeld, LenProperties DEF HostTypes, Turns, Ended, AskFields,
     Handles, ClosesHandle, Sees
<1>13. ASSUME MoveFleet \/ ChangeToken PROVE HostTypes'
  <2>1. \A q \in Requests : ask'[q].handle = ask[q].handle /\ ask'[q].before = ask[q].before
    BY <1>13, ChangeEffect DEF Sees, AskFields
  <2>2. \A q \in Requests : ask[q].before \in Nat /\ ask[q].before <= newest
    BY DEF HostTypes, AskRecord
  <2>3. newest <= newest'
    BY <1>13, ChangeEffect DEF HostTypes
  <2> QED BY <1>13, <2>1, <2>2, <2>3, ChangeEffect DEF HostTypes, Sees
<1>14. CASE UNCHANGED hVars
  BY <1>14 DEF hVars, HostTypes, Turns, Ended, AskFields, Handles, ClosesHandle, Sees
<1> QED
  BY <1>1, <1>2, <1>3, <1>4, <1>5, <1>6, <1>7, <1>8, <1>9, <1>10, <1>11, <1>12, <1>13, <1>14
     DEF HostNext, Serve

\* Every step of a request leaves it with what the next one needs.
LEMMA TurnStep == HostInv /\ [HostNext]_hVars => Turn'
<1> SUFFICES ASSUME HostInv, [HostNext]_hVars PROVE Turn'
  OBVIOUS
<1> USE DEF HostInv
<1>1. ASSUME NEW r \in Requests, Ask(r) PROVE Turn'
  BY <1>1, AskEffect, HandleHeld, LenProperties DEF HostTypes, Turn, Seeking, Opening, Turns,
     Ended, AskFields, Sees, Onward
<1>2. ASSUME NEW r \in Requests, Resolve(r) PROVE Turn'
  BY <1>2, ResolveEffect, HandleHeld, LenProperties DEF HostTypes, Turn, Seeking, Opening, Turns,
     Ended, AskFields, Sees, Onward
<1>3. ASSUME NEW r \in Requests, Cached(r) PROVE Turn'
  BY <1>3, CachedEffect, HandleHeld, LenProperties DEF HostTypes, Turn, Seeking, Opening, Turns,
     Ended, AskFields, Sees, Onward
<1>4. ASSUME NEW r \in Requests, OpenBoard(r) PROVE Turn'
  BY <1>4, OpenEffect, HandleHeld, LenProperties DEF HostTypes, Turn, Seeking, Opening, Turns,
     Ended, AskFields, Sees, Onward
<1>5. ASSUME NEW r \in Requests, ResolveAgain(r) PROVE Turn'
  BY SMTT(40), <1>5, ResolveAgainEffect, HandleHeld, LenProperties DEF HostTypes, Turn, Seeking, Opening,
     Turns, Ended, AskFields, Sees, Onward
<1>6. ASSUME NEW r \in Requests, Publish(r) PROVE Turn'
  BY <1>6, PublishEffect, HandleHeld, LenProperties DEF HostTypes, Turn, Seeking, Opening, Turns,
     Ended, AskFields, Sees, Onward
<1>7. ASSUME NEW r \in Requests, StatToken(r) PROVE Turn'
  BY <1>7, StatEffect, HandleHeld, LenProperties DEF HostTypes, Turn, Seeking, Opening, Turns,
     Ended, AskFields, Sees, Onward
<1>8. ASSUME NEW r \in Requests, ReadToken(r) PROVE Turn'
  BY <1>8, ReadEffect, HandleHeld, LenProperties DEF HostTypes, Turn, Seeking, Opening, Turns,
     Ended, AskFields, Sees, Onward
<1>9. ASSUME NEW r \in Requests, StatAfter(r) PROVE Turn'
  BY <1>9, AfterEffect, HandleHeld, LenProperties DEF HostTypes, Turn, Seeking, Opening, Turns,
     Ended, AskFields, Sees, Onward
<1>10. ASSUME NEW r \in Requests, Finish(r) PROVE Turn'
  BY <1>10, FinishEffect, HandleHeld, LenProperties DEF HostTypes, Turn, Seeking, Opening, Turns,
     Ended, AskFields, Sees, Onward
<1>11. ASSUME NEW n \in 1 .. Tries * MaxAsks, Grace(n) PROVE Turn'
  BY <1>11, GraceEffect, HandleHeld, LenProperties DEF HostTypes, Turn, Seeking, Opening, Turns,
     Ended, AskFields, Sees, Onward
<1>12. ASSUME NEW n \in 1 .. Tries * MaxAsks, CloseRetired(n) PROVE Turn'
  BY <1>12, CloseRetiredEffect, HandleHeld, LenProperties DEF HostTypes, Turn, Seeking, Opening,
     Turns, Ended, AskFields, Sees, Onward
<1>13. ASSUME MoveFleet \/ ChangeToken PROVE Turn'
  BY <1>13, ChangeEffect, HandleHeld, LenProperties DEF HostTypes, Turn, Seeking, Opening, Turns,
     Ended, AskFields, Sees, Onward
<1>14. CASE UNCHANGED hVars
  BY <1>14 DEF hVars, HostTypes, Turn, Seeking, Opening, Turns, Ended, AskFields, Sees, Onward
<1> QED
  BY <1>1, <1>2, <1>3, <1>4, <1>5, <1>6, <1>7, <1>8, <1>9, <1>10, <1>11, <1>12, <1>13, <1>14
     DEF HostNext, Serve

\* No step closes or keeps a closed store in the cache.
LEMMA CachedOpenStep == HostInv /\ [HostNext]_hVars => CachedOpen'
<1> SUFFICES ASSUME HostInv, [HostNext]_hVars PROVE CachedOpen'
  OBVIOUS
<1> USE DEF HostInv
<1>1. ASSUME NEW r \in Requests, Ask(r) PROVE CachedOpen'
  BY <1>1, AskEffect, HandleHeld, LenProperties DEF HostTypes, Turn, Seeking, Opening, Turns,
     Ended, AskFields, Handles, ClosesHandle, HandleFields, Sees, Onward, Holding, Seeing,
     CachedOpen, OwnHandle
<1>2. ASSUME NEW r \in Requests, Resolve(r) PROVE CachedOpen'
  BY <1>2, ResolveEffect, HandleHeld, LenProperties DEF HostTypes, Turn, Seeking, Opening, Turns,
     Ended, AskFields, Handles, ClosesHandle, HandleFields, Sees, Onward, Holding, Seeing,
     CachedOpen, OwnHandle
<1>3. ASSUME NEW r \in Requests, Cached(r) PROVE CachedOpen'
  BY <1>3, CachedEffect, HandleHeld, LenProperties DEF HostTypes, Turn, Seeking, Opening, Turns,
     Ended, AskFields, Handles, ClosesHandle, HandleFields, Sees, Onward, Holding, Seeing,
     CachedOpen, OwnHandle
<1>4. ASSUME NEW r \in Requests, OpenBoard(r) PROVE CachedOpen'
  BY <1>4, OpenEffect, HandleHeld, LenProperties DEF HostTypes, Turn, Seeking, Opening, Turns,
     Ended, AskFields, Handles, ClosesHandle, HandleFields, Sees, Onward, Holding, Seeing,
     CachedOpen, OwnHandle
<1>5. ASSUME NEW r \in Requests, ResolveAgain(r) PROVE CachedOpen'
  BY <1>5, ResolveAgainEffect, HandleHeld, LenProperties DEF HostTypes, Turn, Seeking, Opening,
     Turns, Ended, AskFields, Handles, ClosesHandle, HandleFields, Sees, Onward, Holding, Seeing,
     CachedOpen, OwnHandle
<1>6. ASSUME NEW r \in Requests, Publish(r) PROVE CachedOpen'
  <2>1. ask[r].handle \in 1 .. Len(handles) /\ ask[r].handle # cached /\ handles[ask[r].handle].open /\ ~handles[ask[r].handle].retired
    BY <1>6, Unpublished
  <2>2. CASE cached' = cached /\ ClosesHandle(ask[r].handle)
    BY <2>1, <2>2 DEF CachedOpen, Holding, ClosesHandle, Handles, HostTypes
  <2>3. CASE cached' = ask[r].handle /\ IF cached = 0 THEN handles' = handles ELSE Handles(cached, {"retired"})
    BY <2>1, <2>3 DEF CachedOpen, Handles
  <2> QED BY <1>6, <2>1, <2>2, <2>3, PublishEffect
<1>7. ASSUME NEW r \in Requests, StatToken(r) PROVE CachedOpen'
  BY <1>7, StatEffect, HandleHeld, LenProperties DEF HostTypes, Turn, Seeking, Opening, Turns,
     Ended, AskFields, Handles, ClosesHandle, HandleFields, Sees, Onward, Holding, Seeing,
     CachedOpen, OwnHandle
<1>8. ASSUME NEW r \in Requests, ReadToken(r) PROVE CachedOpen'
  BY <1>8, ReadEffect, HandleHeld, LenProperties DEF HostTypes, Turn, Seeking, Opening, Turns,
     Ended, AskFields, Handles, ClosesHandle, HandleFields, Sees, Onward, Holding, Seeing,
     CachedOpen, OwnHandle
<1>9. ASSUME NEW r \in Requests, StatAfter(r) PROVE CachedOpen'
  BY <1>9, AfterEffect, HandleHeld, LenProperties DEF HostTypes, Turn, Seeking, Opening, Turns,
     Ended, AskFields, Handles, ClosesHandle, HandleFields, Sees, Onward, Holding, Seeing,
     CachedOpen, OwnHandle
<1>10. ASSUME NEW r \in Requests, Finish(r) PROVE CachedOpen'
  BY <1>10, FinishEffect, HandleHeld, LenProperties DEF HostTypes, Turn, Seeking, Opening, Turns,
     Ended, AskFields, Handles, ClosesHandle, HandleFields, Sees, Onward, Holding, Seeing,
     CachedOpen, OwnHandle
<1>11. ASSUME NEW n \in 1 .. Tries * MaxAsks, Grace(n) PROVE CachedOpen'
  BY <1>11, GraceEffect, HandleHeld, LenProperties DEF HostTypes, Turn, Seeking, Opening, Turns,
     Ended, AskFields, Handles, ClosesHandle, HandleFields, Sees, Onward, Holding, Seeing,
     CachedOpen, OwnHandle
<1>12. ASSUME NEW n \in 1 .. Tries * MaxAsks, CloseRetired(n) PROVE CachedOpen'
  BY <1>12, CloseRetiredEffect, HandleHeld, LenProperties DEF HostTypes, Turn, Seeking, Opening,
     Turns, Ended, AskFields, Handles, ClosesHandle, HandleFields, Sees, Onward, Holding, Seeing,
     CachedOpen, OwnHandle
<1>13. ASSUME MoveFleet \/ ChangeToken PROVE CachedOpen'
  BY <1>13, ChangeEffect, HandleHeld, LenProperties DEF HostTypes, Turn, Seeking, Opening, Turns,
     Ended, AskFields, Handles, ClosesHandle, HandleFields, Sees, Onward, Holding, Seeing,
     CachedOpen, OwnHandle
<1>14. CASE UNCHANGED hVars
  BY <1>14 DEF hVars, HostTypes, Turn, Seeking, Opening, Turns, Ended, AskFields, Handles,
     ClosesHandle, HandleFields, Sees, Onward, Holding, Seeing, CachedOpen, OwnHandle
<1> QED
  BY <1>1, <1>2, <1>3, <1>4, <1>5, <1>6, <1>7, <1>8, <1>9, <1>10, <1>11, <1>12, <1>13, <1>14
     DEF HostNext, Serve

\* No step closes a store that a request has.
LEMMA HeldOpenStep == HostInv /\ [HostNext]_hVars => HeldOpen'
<1> SUFFICES ASSUME HostInv, [HostNext]_hVars PROVE HeldOpen'
  OBVIOUS
<1> USE DEF HostInv
<1>1. ASSUME NEW r \in Requests, Ask(r) PROVE HeldOpen'
  BY <1>1, AskEffect, HandleHeld, LenProperties DEF HostTypes, Turn, Seeking, Opening, Turns,
     Ended, AskFields, Handles, ClosesHandle, HandleFields, Sees, Onward, Holding, Seeing,
     CachedOpen, HeldOpen, OwnHandle
<1>2. ASSUME NEW r \in Requests, Resolve(r) PROVE HeldOpen'
  BY <1>2, ResolveEffect, HandleHeld, LenProperties DEF HostTypes, Turn, Seeking, Opening, Turns,
     Ended, AskFields, Handles, ClosesHandle, HandleFields, Sees, Onward, Holding, Seeing,
     CachedOpen, HeldOpen, OwnHandle
<1>3. ASSUME NEW r \in Requests, Cached(r) PROVE HeldOpen'
  BY <1>3, CachedEffect, HandleHeld, LenProperties DEF HostTypes, Turn, Seeking, Opening, Turns,
     Ended, AskFields, Handles, ClosesHandle, HandleFields, Sees, Onward, Holding, Seeing,
     CachedOpen, HeldOpen, OwnHandle
<1>4. ASSUME NEW r \in Requests, OpenBoard(r) PROVE HeldOpen'
  BY <1>4, OpenEffect, HandleHeld, LenProperties DEF HostTypes, Turn, Seeking, Opening, Turns,
     Ended, AskFields, Handles, ClosesHandle, HandleFields, Sees, Onward, Holding, Seeing,
     CachedOpen, HeldOpen, OwnHandle
<1>5. ASSUME NEW r \in Requests, ResolveAgain(r) PROVE HeldOpen'
  <2>1. ask[r].handle \in 1 .. Len(handles) /\ \A q \in Requests \ {r} : ask[q].handle # ask[r].handle
    BY <1>5, Unpublished
  <2>2. \A q \in Requests : ask[q].handle \in 0 .. Len(handles) /\ (ask[q].handle # 0 => handles[ask[q].handle].open)
    BY DEF HostTypes, Holding, HeldOpen
  <2>3. CASE handles' = handles /\ Turns(r, {"at"})
    BY <2>2, <2>3 DEF HeldOpen, Turns, AskFields
  <2>4. CASE ClosesHandle(ask[r].handle) /\ ask'[r].handle = 0 /\ \A q \in Requests \ {r} : ask'[q] = ask[q]
    BY <2>1, <2>2, <2>4 DEF HeldOpen, ClosesHandle, Handles
  <2> QED BY <1>5, <2>1, <2>3, <2>4, ResolveAgainEffect DEF Turns, Ended
<1>6. ASSUME NEW r \in Requests, Publish(r) PROVE HeldOpen'
  <2>1. ask[r].handle \in 1 .. Len(handles) /\ ask[r].handle # cached /\ \A q \in Requests \ {r} : ask[q].handle # ask[r].handle
    BY <1>6, Unpublished
  <2>2. \A q \in Requests : ask[q].handle \in 0 .. Len(handles) /\ (ask[q].handle # 0 => handles[ask[q].handle].open)
    BY DEF HostTypes, Holding, HeldOpen
  <2>3. cached \in 0 .. Len(handles) /\ (cached # 0 => handles[cached].open)
    BY DEF HostTypes, Holding, CachedOpen
  <2>4. CASE cached # 0 /\ ClosesHandle(ask[r].handle) /\ Turns(r, {"at", "handle", "uses"}) /\ ask'[r].handle = cached
    BY <2>1, <2>2, <2>3, <2>4 DEF HeldOpen, ClosesHandle, Handles, Turns
  <2>5. CASE Turns(r, {"at", "uses"}) /\ IF cached = 0 THEN handles' = handles ELSE Handles(cached, {"retired"})
    <3>1. \A q \in Requests : ask'[q].handle = ask[q].handle
      BY <2>5 DEF Turns, AskFields
    <3>2. \A n \in 1 .. Len(handles) : handles'[n].open = handles[n].open
      BY <2>3, <2>5 DEF Handles, HandleFields
    <3> QED BY <2>2, <3>1, <3>2 DEF HeldOpen
  <2> QED BY <1>6, <2>1, <2>4, <2>5, PublishEffect
<1>7. ASSUME NEW r \in Requests, StatToken(r) PROVE HeldOpen'
  BY <1>7, StatEffect, HandleHeld, LenProperties DEF HostTypes, Turn, Seeking, Opening, Turns,
     Ended, AskFields, Handles, ClosesHandle, HandleFields, Sees, Onward, Holding, Seeing,
     CachedOpen, HeldOpen, OwnHandle
<1>8. ASSUME NEW r \in Requests, ReadToken(r) PROVE HeldOpen'
  BY <1>8, ReadEffect, HandleHeld, LenProperties DEF HostTypes, Turn, Seeking, Opening, Turns,
     Ended, AskFields, Handles, ClosesHandle, HandleFields, Sees, Onward, Holding, Seeing,
     CachedOpen, HeldOpen, OwnHandle
<1>9. ASSUME NEW r \in Requests, StatAfter(r) PROVE HeldOpen'
  BY SMTT(40), <1>9, AfterEffect, HandleHeld, LenProperties DEF HostTypes, Turn, Seeking, Opening, Turns,
     Ended, AskFields, Handles, ClosesHandle, HandleFields, Sees, Onward, Holding, Seeing,
     CachedOpen, HeldOpen, OwnHandle
<1>10. ASSUME NEW r \in Requests, Finish(r) PROVE HeldOpen'
  BY <1>10, FinishEffect, HandleHeld, LenProperties DEF HostTypes, Turn, Seeking, Opening, Turns,
     Ended, AskFields, Handles, ClosesHandle, HandleFields, Sees, Onward, Holding, Seeing,
     CachedOpen, HeldOpen, OwnHandle
<1>11. ASSUME NEW n \in 1 .. Tries * MaxAsks, Grace(n) PROVE HeldOpen'
  BY SMTT(40), <1>11, GraceEffect, HandleHeld, LenProperties DEF HostTypes, Turn, Seeking, Opening, Turns,
     Ended, AskFields, Handles, ClosesHandle, HandleFields, Sees, Onward, Holding, Seeing,
     CachedOpen, HeldOpen, OwnHandle
<1>12. ASSUME NEW n \in 1 .. Tries * MaxAsks, CloseRetired(n) PROVE HeldOpen'
  BY <1>12, CloseRetiredEffect, HandleHeld, LenProperties DEF HostTypes, Turn, Seeking, Opening,
     Turns, Ended, AskFields, Handles, ClosesHandle, HandleFields, Sees, Onward, Holding, Seeing,
     CachedOpen, HeldOpen, OwnHandle
<1>13. ASSUME MoveFleet \/ ChangeToken PROVE HeldOpen'
  BY <1>13, ChangeEffect, HandleHeld, LenProperties DEF HostTypes, Turn, Seeking, Opening, Turns,
     Ended, AskFields, Handles, ClosesHandle, HandleFields, Sees, Onward, Holding, Seeing,
     CachedOpen, HeldOpen, OwnHandle
<1>14. CASE UNCHANGED hVars
  BY <1>14 DEF hVars, HostTypes, Turn, Seeking, Opening, Turns, Ended, AskFields, Handles,
     ClosesHandle, HandleFields, Sees, Onward, Holding, Seeing, CachedOpen, HeldOpen, OwnHandle
<1> QED
  BY <1>1, <1>2, <1>3, <1>4, <1>5, <1>6, <1>7, <1>8, <1>9, <1>10, <1>11, <1>12, <1>13, <1>14
     DEF HostNext, Serve

\* No step takes a handle that was not published.
LEMMA OwnHandleStep == HostInv /\ [HostNext]_hVars => OwnHandle'
<1> SUFFICES ASSUME HostInv, [HostNext]_hVars PROVE OwnHandle'
  OBVIOUS
<1> USE DEF HostInv
<1>1. ASSUME NEW r \in Requests, Ask(r) PROVE OwnHandle'
  BY <1>1, AskEffect, HandleHeld, LenProperties DEF HostTypes, Turn, Seeking, Opening, Turns,
     Ended, AskFields, Handles, ClosesHandle, HandleFields, Sees, Onward, Holding, Seeing, OwnHandle
<1>2. ASSUME NEW r \in Requests, Resolve(r) PROVE OwnHandle'
  BY SMTT(40), <1>2, ResolveEffect, HandleHeld, LenProperties DEF HostTypes, Turn, Seeking, Opening, Turns,
     Ended, AskFields, Handles, ClosesHandle, HandleFields, Sees, Onward, Holding, Seeing, OwnHandle
<1>3. ASSUME NEW r \in Requests, Cached(r) PROVE OwnHandle'
  <2>1. \A q \in Requests : ask[q].handle # 0 /\ ~ask[q].uses =>
          /\ ask[q].handle \in 1 .. Len(handles) /\ cached # ask[q].handle /\ ~handles[ask[q].handle].retired
          /\ \A p \in Requests \ {q} : ask[p].handle # ask[q].handle
    BY DEF Holding, OwnHandle, HostTypes
  <2>2. ask[r].handle = 0
    BY <1>3, CachedEffect DEF Turn, Seeking
  <2>3. CASE ask'[r].uses /\ ask'[r].handle = cached /\ Turns(r, {"at", "handle", "uses"}) /\ UNCHANGED <<cached, handles>>
    BY <2>1, <2>3 DEF OwnHandle, Turns
  <2>4. CASE /\ cached' = 0 /\ (Ended(r) \/ Turns(r, {"at"}))
             /\ IF cached = 0 THEN handles' = handles ELSE Handles(cached, {"retired"})
    <3>1. \A n \in 1 .. Len(handles) : n # cached => handles'[n] = handles[n]
      BY <2>4 DEF Handles
    <3>2. ask'[r].handle = 0 /\ \A q \in Requests \ {r} : ask'[q] = ask[q]
      BY <2>2, <2>4 DEF Turns, Ended, AskFields
    <3> QED BY <2>1, <2>4, <3>1, <3>2 DEF OwnHandle
  <2> QED BY <1>3, <2>3, <2>4, CachedEffect
<1>4. ASSUME NEW r \in Requests, OpenBoard(r) PROVE OwnHandle'
  <2>1. Len(handles) \in Nat /\ cached' \in 0 .. Len(handles) /\ \A q \in Requests : ask[q].handle \in 0 .. Len(handles)
    BY <1>4, OpenEffect, LenProperties DEF HostTypes
  <2>2. \A q \in Requests : ask[q].handle # 0 /\ ~ask[q].uses =>
          /\ cached' # ask[q].handle /\ ~handles[ask[q].handle].retired
          /\ \A p \in Requests \ {q} : ask[p].handle # ask[q].handle
    BY <1>4, OpenEffect DEF Holding, OwnHandle
  <2>3. CASE Ended(r) /\ handles' = handles
    BY <2>2, <2>3 DEF OwnHandle, Ended
  <2>4. CASE ask'[r].handle = Len(handles) + 1 /\ Turns(r, {"at", "handle"})
             /\ (\A n \in 1 .. Len(handles) : handles'[n] = handles[n]) /\ ~handles'[Len(handles) + 1].retired
    <3>1. \A q \in Requests \ {r} : ask'[q] = ask[q]
      BY <2>4 DEF Turns
    <3>2. /\ ask'[r].handle # 0 /\ cached' # ask'[r].handle /\ ~handles'[ask'[r].handle].retired
          /\ \A q \in Requests \ {r} : ask'[q].handle # ask'[r].handle
      BY <2>1, <2>4, <3>1
    <3>3. ASSUME NEW q \in Requests \ {r}, ask'[q].handle # 0, ~ask'[q].uses
          PROVE  /\ cached' # ask'[q].handle /\ ~handles'[ask'[q].handle].retired
                 /\ \A p \in Requests \ {q} : ask'[p].handle # ask'[q].handle
      <4>1. ask'[q] = ask[q] /\ ask[q].handle \in 1 .. Len(handles)
        BY <2>1, <3>1, <3>3
      <4>2. handles'[ask[q].handle] = handles[ask[q].handle]
        BY <2>4, <4>1
      <4> QED BY <2>2, <3>1, <3>2, <3>3, <4>1, <4>2
    <3> QED BY <3>2, <3>3 DEF OwnHandle
  <2> QED BY <1>4, <2>3, <2>4, OpenEffect
<1>5. ASSUME NEW r \in Requests, ResolveAgain(r) PROVE OwnHandle'
  <2>1. ask[r].handle \in 1 .. Len(handles) /\ ~ask[r].uses
    BY <1>5, Unpublished
  <2>2. \A q \in Requests : ask[q].handle # 0 /\ ~ask[q].uses =>
          /\ ask[q].handle \in 1 .. Len(handles) /\ cached' # ask[q].handle /\ ~handles[ask[q].handle].retired
          /\ \A p \in Requests \ {q} : ask[p].handle # ask[q].handle
    BY <1>5, <2>1, ResolveAgainEffect DEF Holding, OwnHandle, HostTypes
  <2>3. CASE handles' = handles /\ Turns(r, {"at"})
    <3>1. \A q \in Requests : ask'[q].handle = ask[q].handle /\ ask'[q].uses = ask[q].uses
      BY <2>3 DEF Turns, AskFields
    <3> QED BY <2>2, <2>3, <3>1 DEF OwnHandle
  <2>4. CASE ClosesHandle(ask[r].handle) /\ ask'[r].handle = 0 /\ \A q \in Requests \ {r} : ask'[q] = ask[q]
    BY <2>1, <2>2, <2>4 DEF OwnHandle, ClosesHandle, Handles
  <2> QED BY <1>5, <2>1, <2>3, <2>4, ResolveAgainEffect DEF Turns, Ended
<1>6. ASSUME NEW r \in Requests, Publish(r) PROVE OwnHandle'
  <2>1. ask[r].handle \in 1 .. Len(handles) /\ ~ask[r].uses /\ ask'[r].uses
    BY <1>6, Unpublished, PublishEffect
  <2>2. \A q \in Requests : ask[q].handle # 0 /\ ~ask[q].uses =>
          /\ ask[q].handle \in 1 .. Len(handles) /\ cached # ask[q].handle /\ ~handles[ask[q].handle].retired
          /\ \A p \in Requests \ {q} : ask[p].handle # ask[q].handle
    BY DEF Holding, OwnHandle, HostTypes
  <2>3. \A q \in Requests \ {r} : ask'[q] = ask[q]
    BY <1>6, <2>1, PublishEffect DEF Turns
  <2>4. CASE cached # 0 /\ ClosesHandle(ask[r].handle) /\ ask'[r].handle = cached /\ cached' = cached
    <3>1. \A n \in 1 .. Len(handles) : n # ask[r].handle => handles'[n] = handles[n]
      BY <2>4 DEF ClosesHandle, Handles
    <3> QED BY <2>1, <2>2, <2>3, <2>4, <3>1 DEF OwnHandle
  <2>5. CASE Turns(r, {"at", "uses"}) /\ cached' = ask[r].handle /\ IF cached = 0 THEN handles' = handles ELSE Handles(cached, {"retired"})
    <3>1. ask'[r].handle = ask[r].handle
      BY <2>5 DEF Turns, AskFields
    <3>2. \A n \in 1 .. Len(handles) : n # cached => handles'[n] = handles[n]
      BY <2>5 DEF Handles
    <3> QED BY <2>1, <2>2, <2>3, <2>5, <3>1, <3>2 DEF OwnHandle
  <2> QED BY <1>6, <2>1, <2>4, <2>5, PublishEffect
<1>7. ASSUME NEW r \in Requests, StatToken(r) PROVE OwnHandle'
  BY SMTT(40), <1>7, StatEffect, HandleHeld, LenProperties DEF HostTypes, Turn, Seeking, Opening, Turns,
     Ended, AskFields, Handles, ClosesHandle, HandleFields, Sees, Onward, Holding, Seeing, OwnHandle
<1>8. ASSUME NEW r \in Requests, ReadToken(r) PROVE OwnHandle'
  BY <1>8, ReadEffect, HandleHeld, LenProperties DEF HostTypes, Turn, Seeking, Opening, Turns,
     Ended, AskFields, Handles, ClosesHandle, HandleFields, Sees, Onward, Holding, Seeing, OwnHandle
<1>9. ASSUME NEW r \in Requests, StatAfter(r) PROVE OwnHandle'
  <2>1. ask[r].handle \in 1 .. Len(handles)
    BY <1>9, HandleHeld DEF HostTypes
  <2>2. \A q \in Requests : ask[q].handle # 0 /\ ~ask[q].uses =>
          /\ ask[q].handle \in 1 .. Len(handles) /\ cached' # ask[q].handle /\ ~handles[ask[q].handle].retired
          /\ \A p \in Requests \ {q} : ask[p].handle # ask[q].handle
    BY <1>9, <2>1, AfterEffect DEF Holding, OwnHandle, HostTypes
  <2>3. CASE Ended(r) /\ (IF ask[r].uses THEN handles' = handles ELSE ClosesHandle(ask[r].handle))
    <3>1. CASE ask[r].uses
      BY <2>2, <2>3, <3>1 DEF OwnHandle, Ended
    <3>2. CASE ~ask[r].uses
      BY SMTT(40), <2>1, <2>2, <2>3, <3>2 DEF OwnHandle, Ended, ClosesHandle, Handles
    <3> QED BY <3>1, <3>2
  <2>4. CASE (Turns(r, {"at"}) \/ Turns(r, {"at", "before"})) /\ (handles' = handles \/ Handles(ask[r].handle, {"board"}))
    <3>1. \A q \in Requests : ask'[q].handle = ask[q].handle /\ ask'[q].uses = ask[q].uses
      BY <2>4 DEF Turns, AskFields
    <3>2. \A n \in 1 .. Len(handles) : handles'[n].retired = handles[n].retired
      BY <2>4 DEF Handles, HandleFields
    <3> QED BY <2>2, <3>1, <3>2 DEF OwnHandle
  <2> QED BY <1>9, <2>1, <2>3, <2>4, AfterEffect
<1>10. ASSUME NEW r \in Requests, Finish(r) PROVE OwnHandle'
  BY <1>10, FinishEffect, HandleHeld, LenProperties DEF HostTypes, Turn, Seeking, Opening, Turns,
     Ended, AskFields, Handles, ClosesHandle, HandleFields, Sees, Onward, Holding, Seeing, OwnHandle
<1>11. ASSUME NEW n \in 1 .. Tries * MaxAsks, Grace(n) PROVE OwnHandle'
  BY <1>11, GraceEffect, HandleHeld, LenProperties DEF HostTypes, Turn, Seeking, Opening, Turns,
     Ended, AskFields, Handles, ClosesHandle, HandleFields, Sees, Onward, Holding, Seeing, OwnHandle
<1>12. ASSUME NEW n \in 1 .. Tries * MaxAsks, CloseRetired(n) PROVE OwnHandle'
  BY SMTT(40), <1>12, CloseRetiredEffect, HandleHeld, LenProperties DEF HostTypes, Turn, Seeking, Opening,
     Turns, Ended, AskFields, Handles, ClosesHandle, HandleFields, Sees, Onward, Holding, Seeing,
     OwnHandle
<1>13. ASSUME MoveFleet \/ ChangeToken PROVE OwnHandle'
  BY <1>13, ChangeEffect, HandleHeld, LenProperties DEF HostTypes, Turn, Seeking, Opening, Turns,
     Ended, AskFields, Handles, ClosesHandle, HandleFields, Sees, Onward, Holding, Seeing, OwnHandle
<1>14. CASE UNCHANGED hVars
  BY <1>14 DEF hVars, HostTypes, Turn, Seeking, Opening, Turns, Ended, AskFields, Handles,
     ClosesHandle, HandleFields, Sees, Onward, Holding, Seeing, OwnHandle
<1> QED
  BY <1>1, <1>2, <1>3, <1>4, <1>5, <1>6, <1>7, <1>8, <1>9, <1>10, <1>11, <1>12, <1>13, <1>14
     DEF HostNext, Serve

\* Every Board a step makes is for the token it read.
LEMMA BoardsToldStep == HostInv /\ [HostNext]_hVars => BoardsTold'
<1> SUFFICES ASSUME HostInv, [HostNext]_hVars PROVE BoardsTold'
  OBVIOUS
<1> USE DEF HostInv
<1>1. ASSUME NEW r \in Requests, Ask(r) PROVE BoardsTold'
  BY <1>1, AskEffect, HandleHeld, LenProperties DEF HostTypes, Turn, Seeking, Opening, Turns,
     Ended, AskFields, Handles, ClosesHandle, HandleFields, Sees, Onward, Holding, Seeing,
     BoardsTold, TokenRead, NoBoard
<1>2. ASSUME NEW r \in Requests, Resolve(r) PROVE BoardsTold'
  BY <1>2, ResolveEffect, HandleHeld, LenProperties DEF HostTypes, Turn, Seeking, Opening, Turns,
     Ended, AskFields, Handles, ClosesHandle, HandleFields, Sees, Onward, Holding, Seeing,
     BoardsTold, TokenRead, NoBoard
<1>3. ASSUME NEW r \in Requests, Cached(r) PROVE BoardsTold'
  BY <1>3, CachedEffect, HandleHeld, LenProperties DEF HostTypes, Turn, Seeking, Opening, Turns,
     Ended, AskFields, Handles, ClosesHandle, HandleFields, Sees, Onward, Holding, Seeing,
     BoardsTold, TokenRead, NoBoard
<1>4. ASSUME NEW r \in Requests, OpenBoard(r) PROVE BoardsTold'
  BY <1>4, OpenEffect, HandleHeld, LenProperties DEF HostTypes, Turn, Seeking, Opening, Turns,
     Ended, AskFields, Handles, ClosesHandle, HandleFields, Sees, Onward, Holding, Seeing,
     BoardsTold, TokenRead, NoBoard
<1>5. ASSUME NEW r \in Requests, ResolveAgain(r) PROVE BoardsTold'
  <2>1. ask[r].handle \in 1 .. Len(handles)
    BY <1>5, Unpublished
  <2>2. handles' = handles \/ ClosesHandle(ask[r].handle)
    BY <1>5, <2>1, ResolveAgainEffect
  <2> QED BY <2>1, <2>2 DEF Seeing, BoardsTold, ClosesHandle, Handles
<1>6. ASSUME NEW r \in Requests, Publish(r) PROVE BoardsTold'
  BY SMTT(40), <1>6, PublishEffect, HandleHeld, LenProperties DEF HostTypes, Turn, Seeking, Opening, Turns,
     Ended, AskFields, Handles, ClosesHandle, HandleFields, Sees, Onward, Holding, Seeing,
     BoardsTold, TokenRead, NoBoard
<1>7. ASSUME NEW r \in Requests, StatToken(r) PROVE BoardsTold'
  BY <1>7, StatEffect, HandleHeld, LenProperties DEF HostTypes, Turn, Seeking, Opening, Turns,
     Ended, AskFields, Handles, ClosesHandle, HandleFields, Sees, Onward, Holding, Seeing,
     BoardsTold, TokenRead, NoBoard
<1>8. ASSUME NEW r \in Requests, ReadToken(r) PROVE BoardsTold'
  BY <1>8, ReadEffect, HandleHeld, LenProperties DEF HostTypes, Turn, Seeking, Opening, Turns,
     Ended, AskFields, Handles, ClosesHandle, HandleFields, Sees, Onward, Holding, Seeing,
     BoardsTold, TokenRead, NoBoard
<1>9. ASSUME NEW r \in Requests, StatAfter(r) PROVE BoardsTold'
  BY <1>9, AfterEffect, HandleHeld, LenProperties DEF HostTypes, Turn, Seeking, Opening, Turns,
     Ended, AskFields, Handles, ClosesHandle, HandleFields, Sees, Onward, Holding, Seeing,
     BoardsTold, TokenRead, NoBoard
<1>10. ASSUME NEW r \in Requests, Finish(r) PROVE BoardsTold'
  BY <1>10, FinishEffect, HandleHeld, LenProperties DEF HostTypes, Turn, Seeking, Opening, Turns,
     Ended, AskFields, Handles, ClosesHandle, HandleFields, Sees, Onward, Holding, Seeing,
     BoardsTold, TokenRead, NoBoard
<1>11. ASSUME NEW n \in 1 .. Tries * MaxAsks, Grace(n) PROVE BoardsTold'
  BY <1>11, GraceEffect, HandleHeld, LenProperties DEF HostTypes, Turn, Seeking, Opening, Turns,
     Ended, AskFields, Handles, ClosesHandle, HandleFields, Sees, Onward, Holding, Seeing,
     BoardsTold, TokenRead, NoBoard
<1>12. ASSUME NEW n \in 1 .. Tries * MaxAsks, CloseRetired(n) PROVE BoardsTold'
  BY <1>12, CloseRetiredEffect, HandleHeld, LenProperties DEF HostTypes, Turn, Seeking, Opening,
     Turns, Ended, AskFields, Handles, ClosesHandle, HandleFields, Sees, Onward, Holding, Seeing,
     BoardsTold, TokenRead, NoBoard
<1>13. ASSUME MoveFleet \/ ChangeToken PROVE BoardsTold'
  BY <1>13, ChangeEffect, HandleHeld, LenProperties DEF HostTypes, Turn, Seeking, Opening, Turns,
     Ended, AskFields, Handles, ClosesHandle, HandleFields, Sees, Onward, Holding, Seeing,
     BoardsTold, TokenRead, NoBoard
<1>14. CASE UNCHANGED hVars
  BY <1>14 DEF hVars, HostTypes, Turn, Seeking, Opening, Turns, Ended, AskFields, Handles,
     ClosesHandle, HandleFields, Sees, Onward, Holding, Seeing, BoardsTold, TokenRead, NoBoard
<1> QED
  BY <1>1, <1>2, <1>3, <1>4, <1>5, <1>6, <1>7, <1>8, <1>9, <1>10, <1>11, <1>12, <1>13, <1>14
     DEF HostNext, Serve

\* A request that goes on sees every change.
LEMMA SeesNowStep == HostInv /\ [HostNext]_hVars => SeesNow'
<1> SUFFICES ASSUME HostInv, [HostNext]_hVars PROVE SeesNow'
  OBVIOUS
<1> USE DEF HostInv
<1>1. ASSUME NEW r \in Requests, Ask(r) PROVE SeesNow'
  BY <1>1, AskEffect, HandleHeld, LenProperties DEF HostTypes, Turn, Seeking, Opening, Turns,
     Ended, AskFields, Handles, ClosesHandle, HandleFields, Sees, Onward, Holding, Seeing, SeesNow
<1>2. ASSUME NEW r \in Requests, Resolve(r) PROVE SeesNow'
  BY <1>2, ResolveEffect, HandleHeld, LenProperties DEF HostTypes, Turn, Seeking, Opening, Turns,
     Ended, AskFields, Handles, ClosesHandle, HandleFields, Sees, Onward, Holding, Seeing, SeesNow
<1>3. ASSUME NEW r \in Requests, Cached(r) PROVE SeesNow'
  BY <1>3, CachedEffect, HandleHeld, LenProperties DEF HostTypes, Turn, Seeking, Opening, Turns,
     Ended, AskFields, Handles, ClosesHandle, HandleFields, Sees, Onward, Holding, Seeing, SeesNow
<1>4. ASSUME NEW r \in Requests, OpenBoard(r) PROVE SeesNow'
  BY <1>4, OpenEffect, HandleHeld, LenProperties DEF HostTypes, Turn, Seeking, Opening, Turns,
     Ended, AskFields, Handles, ClosesHandle, HandleFields, Sees, Onward, Holding, Seeing, SeesNow
<1>5. ASSUME NEW r \in Requests, ResolveAgain(r) PROVE SeesNow'
  BY <1>5, ResolveAgainEffect, HandleHeld, LenProperties DEF HostTypes, Turn, Seeking, Opening,
     Turns, Ended, AskFields, Handles, ClosesHandle, HandleFields, Sees, Onward, Holding, Seeing,
     SeesNow
<1>6. ASSUME NEW r \in Requests, Publish(r) PROVE SeesNow'
  BY <1>6, PublishEffect, HandleHeld, LenProperties DEF HostTypes, Turn, Seeking, Opening, Turns,
     Ended, AskFields, Handles, ClosesHandle, HandleFields, Sees, Onward, Holding, Seeing, SeesNow
<1>7. ASSUME NEW r \in Requests, StatToken(r) PROVE SeesNow'
  BY <1>7, StatEffect, HandleHeld, LenProperties DEF HostTypes, Turn, Seeking, Opening, Turns,
     Ended, AskFields, Handles, ClosesHandle, HandleFields, Sees, Onward, Holding, Seeing, SeesNow
<1>8. ASSUME NEW r \in Requests, ReadToken(r) PROVE SeesNow'
  BY <1>8, ReadEffect, HandleHeld, LenProperties DEF HostTypes, Turn, Seeking, Opening, Turns,
     Ended, AskFields, Handles, ClosesHandle, HandleFields, Sees, Onward, Holding, Seeing, SeesNow
<1>9. ASSUME NEW r \in Requests, StatAfter(r) PROVE SeesNow'
  BY <1>9, AfterEffect, HandleHeld, LenProperties DEF HostTypes, Turn, Seeking, Opening, Turns,
     Ended, AskFields, Handles, ClosesHandle, HandleFields, Sees, Onward, Holding, Seeing, SeesNow
<1>10. ASSUME NEW r \in Requests, Finish(r) PROVE SeesNow'
  BY <1>10, FinishEffect, HandleHeld, LenProperties DEF HostTypes, Turn, Seeking, Opening, Turns,
     Ended, AskFields, Handles, ClosesHandle, HandleFields, Sees, Onward, Holding, Seeing, SeesNow
<1>11. ASSUME NEW n \in 1 .. Tries * MaxAsks, Grace(n) PROVE SeesNow'
  BY <1>11, GraceEffect, HandleHeld, LenProperties DEF HostTypes, Turn, Seeking, Opening, Turns,
     Ended, AskFields, Handles, ClosesHandle, HandleFields, Sees, Onward, Holding, Seeing, SeesNow
<1>12. ASSUME NEW n \in 1 .. Tries * MaxAsks, CloseRetired(n) PROVE SeesNow'
  BY <1>12, CloseRetiredEffect, HandleHeld, LenProperties DEF HostTypes, Turn, Seeking, Opening,
     Turns, Ended, AskFields, Handles, ClosesHandle, HandleFields, Sees, Onward, Holding, Seeing,
     SeesNow
<1>13. ASSUME MoveFleet \/ ChangeToken PROVE SeesNow'
  BY <1>13, ChangeEffect, HandleHeld, LenProperties DEF HostTypes, Turn, Seeking, Opening, Turns,
     Ended, AskFields, Handles, ClosesHandle, HandleFields, Sees, Onward, Holding, Seeing, SeesNow
<1>14. CASE UNCHANGED hVars
  BY <1>14 DEF hVars, HostTypes, Turn, Seeking, Opening, Turns, Ended, AskFields, Handles,
     ClosesHandle, HandleFields, Sees, Onward, Holding, Seeing, SeesNow
<1> QED
  BY <1>1, <1>2, <1>3, <1>4, <1>5, <1>6, <1>7, <1>8, <1>9, <1>10, <1>11, <1>12, <1>13, <1>14
     DEF HostNext, Serve

\* A request looks only in folders it saw.
LEMMA HomeSeenStep == HostInv /\ [HostNext]_hVars => HomeSeen'
<1> SUFFICES ASSUME HostInv, [HostNext]_hVars PROVE HomeSeen'
  OBVIOUS
<1> USE DEF HostInv
<1>1. ASSUME NEW r \in Requests, Ask(r) PROVE HomeSeen'
  BY <1>1, AskEffect, HandleHeld, LenProperties DEF HostTypes, Turn, Seeking, Opening, Turns,
     Ended, AskFields, Handles, ClosesHandle, HandleFields, Sees, Onward, Holding, Seeing,
     HomeSeen, SeesNow
<1>2. ASSUME NEW r \in Requests, Resolve(r) PROVE HomeSeen'
  BY <1>2, ResolveEffect, HandleHeld, LenProperties DEF HostTypes, Turn, Seeking, Opening, Turns,
     Ended, AskFields, Handles, ClosesHandle, HandleFields, Sees, Onward, Holding, Seeing,
     HomeSeen, SeesNow
<1>3. ASSUME NEW r \in Requests, Cached(r) PROVE HomeSeen'
  BY <1>3, CachedEffect, HandleHeld, LenProperties DEF HostTypes, Turn, Seeking, Opening, Turns,
     Ended, AskFields, Handles, ClosesHandle, HandleFields, Sees, Onward, Holding, Seeing,
     HomeSeen, SeesNow
<1>4. ASSUME NEW r \in Requests, OpenBoard(r) PROVE HomeSeen'
  BY <1>4, OpenEffect, HandleHeld, LenProperties DEF HostTypes, Turn, Seeking, Opening, Turns,
     Ended, AskFields, Handles, ClosesHandle, HandleFields, Sees, Onward, Holding, Seeing,
     HomeSeen, SeesNow
<1>5. ASSUME NEW r \in Requests, ResolveAgain(r) PROVE HomeSeen'
  BY <1>5, ResolveAgainEffect, HandleHeld, LenProperties DEF HostTypes, Turn, Seeking, Opening,
     Turns, Ended, AskFields, Handles, ClosesHandle, HandleFields, Sees, Onward, Holding, Seeing,
     HomeSeen, SeesNow
<1>6. ASSUME NEW r \in Requests, Publish(r) PROVE HomeSeen'
  BY <1>6, PublishEffect, HandleHeld, LenProperties DEF HostTypes, Turn, Seeking, Opening, Turns,
     Ended, AskFields, Handles, ClosesHandle, HandleFields, Sees, Onward, Holding, Seeing,
     HomeSeen, SeesNow
<1>7. ASSUME NEW r \in Requests, StatToken(r) PROVE HomeSeen'
  BY <1>7, StatEffect, HandleHeld, LenProperties DEF HostTypes, Turn, Seeking, Opening, Turns,
     Ended, AskFields, Handles, ClosesHandle, HandleFields, Sees, Onward, Holding, Seeing,
     HomeSeen, SeesNow
<1>8. ASSUME NEW r \in Requests, ReadToken(r) PROVE HomeSeen'
  BY <1>8, ReadEffect, HandleHeld, LenProperties DEF HostTypes, Turn, Seeking, Opening, Turns,
     Ended, AskFields, Handles, ClosesHandle, HandleFields, Sees, Onward, Holding, Seeing,
     HomeSeen, SeesNow
<1>9. ASSUME NEW r \in Requests, StatAfter(r) PROVE HomeSeen'
  BY <1>9, AfterEffect, HandleHeld, LenProperties DEF HostTypes, Turn, Seeking, Opening, Turns,
     Ended, AskFields, Handles, ClosesHandle, HandleFields, Sees, Onward, Holding, Seeing,
     HomeSeen, SeesNow
<1>10. ASSUME NEW r \in Requests, Finish(r) PROVE HomeSeen'
  BY <1>10, FinishEffect, HandleHeld, LenProperties DEF HostTypes, Turn, Seeking, Opening, Turns,
     Ended, AskFields, Handles, ClosesHandle, HandleFields, Sees, Onward, Holding, Seeing,
     HomeSeen, SeesNow
<1>11. ASSUME NEW n \in 1 .. Tries * MaxAsks, Grace(n) PROVE HomeSeen'
  BY <1>11, GraceEffect, HandleHeld, LenProperties DEF HostTypes, Turn, Seeking, Opening, Turns,
     Ended, AskFields, Handles, ClosesHandle, HandleFields, Sees, Onward, Holding, Seeing,
     HomeSeen, SeesNow
<1>12. ASSUME NEW n \in 1 .. Tries * MaxAsks, CloseRetired(n) PROVE HomeSeen'
  BY <1>12, CloseRetiredEffect, HandleHeld, LenProperties DEF HostTypes, Turn, Seeking, Opening,
     Turns, Ended, AskFields, Handles, ClosesHandle, HandleFields, Sees, Onward, Holding, Seeing,
     HomeSeen, SeesNow
<1>13. ASSUME MoveFleet \/ ChangeToken PROVE HomeSeen'
  BY <1>13, ChangeEffect, HandleHeld, LenProperties DEF HostTypes, Turn, Seeking, Opening, Turns,
     Ended, AskFields, Handles, ClosesHandle, HandleFields, Sees, Onward, Holding, Seeing,
     HomeSeen, SeesNow
<1>14. CASE UNCHANGED hVars
  BY <1>14 DEF hVars, HostTypes, Turn, Seeking, Opening, Turns, Ended, AskFields, Handles,
     ClosesHandle, HandleFields, Sees, Onward, Holding, Seeing, HomeSeen, SeesNow
<1> QED
  BY <1>1, <1>2, <1>3, <1>4, <1>5, <1>6, <1>7, <1>8, <1>9, <1>10, <1>11, <1>12, <1>13, <1>14
     DEF HostNext, Serve

\* A handle stays the one of its folder.
LEMMA HandleHomeStep == HostInv /\ [HostNext]_hVars => HandleHome'
<1> SUFFICES ASSUME HostInv, [HostNext]_hVars PROVE HandleHome'
  OBVIOUS
<1> USE DEF HostInv
<1>1. ASSUME NEW r \in Requests, Ask(r) PROVE HandleHome'
  BY <1>1, AskEffect, HandleHeld, LenProperties DEF HostTypes, Turn, Seeking, Opening, Turns,
     Ended, AskFields, Handles, ClosesHandle, HandleFields, Sees, Onward, Holding, Seeing,
     HandleHome, OwnHandle, HeldOpen
<1>2. ASSUME NEW r \in Requests, Resolve(r) PROVE HandleHome'
  BY <1>2, ResolveEffect, HandleHeld, LenProperties DEF HostTypes, Turn, Seeking, Opening, Turns,
     Ended, AskFields, Handles, ClosesHandle, HandleFields, Sees, Onward, Holding, Seeing,
     HandleHome, OwnHandle, HeldOpen
<1>3. ASSUME NEW r \in Requests, Cached(r) PROVE HandleHome'
  <2>1. \A q \in Requests : ask[q].handle \in 0 .. Len(handles) /\ (ask[q].handle # 0 => handles[ask[q].handle].home = ask[q].home)
    BY DEF HostTypes, Seeing, HandleHome
  <2>2. CASE handles[cached].home = ask[r].home /\ Turns(r, {"at", "handle", "uses"}) /\ ask'[r].handle = cached /\ handles' = handles
    <3>1. ask'[r].home = ask[r].home /\ \A q \in Requests \ {r} : ask'[q] = ask[q]
      BY <2>2 DEF Turns, AskFields
    <3> QED BY <2>1, <2>2, <3>1 DEF HandleHome
  <2>3. CASE (Ended(r) \/ Turns(r, {"at"})) /\ IF cached = 0 THEN handles' = handles ELSE Handles(cached, {"retired"})
    <3>1. \A n \in 1 .. Len(handles) : handles'[n].home = handles[n].home
      BY <2>3 DEF Handles, HandleFields
    <3>2. \A q \in Requests : ask'[q].handle # 0 => ask'[q].handle = ask[q].handle /\ ask'[q].home = ask[q].home
      BY <2>3 DEF Turns, Ended, AskFields
    <3> QED BY <2>1, <3>1, <3>2 DEF HandleHome
  <2> QED BY <1>3, <2>2, <2>3, CachedEffect
<1>4. ASSUME NEW r \in Requests, OpenBoard(r) PROVE HandleHome'
  <2>1. Len(handles) \in Nat /\ \A q \in Requests : ask[q].handle \in 0 .. Len(handles) /\ (ask[q].handle # 0 => handles[ask[q].handle].home = ask[q].home)
    BY LenProperties DEF HostTypes, Seeing, HandleHome
  <2>2. CASE Ended(r) /\ handles' = handles
    BY <2>1, <2>2 DEF HandleHome, Ended
  <2>3. CASE ask'[r].handle = Len(handles) + 1 /\ Turns(r, {"at", "handle"})
             /\ (\A n \in 1 .. Len(handles) : handles'[n] = handles[n]) /\ handles'[Len(handles) + 1].home = ask[r].home
    <3>1. ask'[r].home = ask[r].home /\ \A q \in Requests \ {r} : ask'[q] = ask[q]
      BY <2>3 DEF Turns, AskFields
    <3> QED BY <2>1, <2>3, <3>1 DEF HandleHome
  <2> QED BY <1>4, <2>2, <2>3, OpenEffect
<1>5. ASSUME NEW r \in Requests, ResolveAgain(r) PROVE HandleHome'
  BY SMTT(40), <1>5, ResolveAgainEffect, HandleHeld, LenProperties DEF HostTypes, Turn, Seeking, Opening,
     Turns, Ended, AskFields, Handles, ClosesHandle, HandleFields, Sees, Onward, Holding, Seeing,
     HandleHome, OwnHandle, HeldOpen
<1>6. ASSUME NEW r \in Requests, Publish(r) PROVE HandleHome'
  BY SMTT(40), <1>6, PublishEffect, HandleHeld, LenProperties DEF HostTypes, Turn, Seeking, Opening, Turns,
     Ended, AskFields, Handles, ClosesHandle, HandleFields, Sees, Onward, Holding, Seeing,
     HandleHome, OwnHandle, HeldOpen
<1>7. ASSUME NEW r \in Requests, StatToken(r) PROVE HandleHome'
  BY SMTT(40), <1>7, StatEffect, HandleHeld, LenProperties DEF Seeing, HandleHome, HostTypes, Turns, AskFields
<1>8. ASSUME NEW r \in Requests, ReadToken(r) PROVE HandleHome'
  BY <1>8, ReadEffect, HandleHeld, LenProperties DEF HostTypes, Turn, Seeking, Opening, Turns,
     Ended, AskFields, Handles, ClosesHandle, HandleFields, Sees, Onward, Holding, Seeing,
     HandleHome, OwnHandle, HeldOpen
<1>9. ASSUME NEW r \in Requests, StatAfter(r) PROVE HandleHome'
  <2>1. ask[r].handle \in 1 .. Len(handles)
    BY <1>9, HandleHeld DEF HostTypes
  <2>2. \A q \in Requests : ask[q].handle \in 0 .. Len(handles) /\ (ask[q].handle # 0 => handles[ask[q].handle].home = ask[q].home)
    BY DEF HostTypes, Seeing, HandleHome
  <2>3. CASE Ended(r) /\ (IF ask[r].uses THEN handles' = handles ELSE ClosesHandle(ask[r].handle))
    <3>1. CASE ask[r].uses
      BY <2>2, <2>3, <3>1 DEF HandleHome, Ended
    <3>2. CASE ~ask[r].uses
      <4>1. \A q \in Requests \ {r} : ask[q].handle # ask[r].handle
        BY <2>1, <3>2 DEF Holding, OwnHandle
      <4> QED BY <2>1, <2>2, <2>3, <3>2, <4>1 DEF HandleHome, Ended, ClosesHandle, Handles
    <3> QED BY <3>1, <3>2
  <2>4. CASE (Turns(r, {"at"}) \/ Turns(r, {"at", "before"})) /\ (handles' = handles \/ Handles(ask[r].handle, {"board"}))
    <3>1. \A q \in Requests : ask'[q].handle = ask[q].handle /\ ask'[q].home = ask[q].home
      BY <2>4 DEF Turns, AskFields
    <3>2. \A n \in 1 .. Len(handles) : handles'[n].home = handles[n].home
      BY <2>4 DEF Handles, HandleFields
    <3> QED BY <2>2, <3>1, <3>2 DEF HandleHome
  <2> QED BY <1>9, <2>1, <2>3, <2>4, AfterEffect
<1>10. ASSUME NEW r \in Requests, Finish(r) PROVE HandleHome'
  BY <1>10, FinishEffect, HandleHeld, LenProperties DEF HostTypes, Turn, Seeking, Opening, Turns,
     Ended, AskFields, Handles, ClosesHandle, HandleFields, Sees, Onward, Holding, Seeing,
     HandleHome, OwnHandle, HeldOpen
<1>11. ASSUME NEW n \in 1 .. Tries * MaxAsks, Grace(n) PROVE HandleHome'
  BY SMTT(40), <1>11, GraceEffect, HandleHeld, LenProperties DEF HostTypes, Turn, Seeking, Opening, Turns,
     Ended, AskFields, Handles, ClosesHandle, HandleFields, Sees, Onward, Holding, Seeing,
     HandleHome, OwnHandle, HeldOpen
<1>12. ASSUME NEW n \in 1 .. Tries * MaxAsks, CloseRetired(n) PROVE HandleHome'
  BY <1>12, CloseRetiredEffect, HandleHeld, LenProperties DEF HostTypes, Turn, Seeking, Opening,
     Turns, Ended, AskFields, Handles, ClosesHandle, HandleFields, Sees, Onward, Holding, Seeing,
     HandleHome, OwnHandle, HeldOpen
<1>13. ASSUME MoveFleet \/ ChangeToken PROVE HandleHome'
  BY <1>13, ChangeEffect, HandleHeld, LenProperties DEF HostTypes, Turn, Seeking, Opening, Turns,
     Ended, AskFields, Handles, ClosesHandle, HandleFields, Sees, Onward, Holding, Seeing,
     HandleHome, OwnHandle, HeldOpen
<1>14. CASE UNCHANGED hVars
  BY <1>14 DEF hVars, HostTypes, Turn, Seeking, Opening, Turns, Ended, AskFields, Handles,
     ClosesHandle, HandleFields, Sees, Onward, Holding, Seeing, HandleHome, OwnHandle, HeldOpen
<1> QED
  BY <1>1, <1>2, <1>3, <1>4, <1>5, <1>6, <1>7, <1>8, <1>9, <1>10, <1>11, <1>12, <1>13, <1>14
     DEF HostNext, Serve

\* What was read between two equal looks is what the file holds.
LEMMA TokenReadStep == HostInv /\ [HostNext]_hVars => TokenRead'
<1> SUFFICES ASSUME HostInv, [HostNext]_hVars PROVE TokenRead'
  OBVIOUS
<1> USE DEF HostInv
<1>1. ASSUME NEW r \in Requests, Ask(r) PROVE TokenRead'
  BY <1>1, AskEffect, HandleHeld, LenProperties DEF HostTypes, Turn, Seeking, Opening, Turns,
     Ended, AskFields, Handles, ClosesHandle, HandleFields, Sees, Onward, Holding, Seeing, TokenRead
<1>2. ASSUME NEW r \in Requests, Resolve(r) PROVE TokenRead'
  BY <1>2, ResolveEffect, HandleHeld, LenProperties DEF HostTypes, Turn, Seeking, Opening, Turns,
     Ended, AskFields, Handles, ClosesHandle, HandleFields, Sees, Onward, Holding, Seeing, TokenRead
<1>3. ASSUME NEW r \in Requests, Cached(r) PROVE TokenRead'
  BY SMTT(40), <1>3, CachedEffect, HandleHeld, LenProperties DEF HostTypes, Turn, Seeking, Opening, Turns,
     Ended, AskFields, Handles, ClosesHandle, HandleFields, Sees, Onward, Holding, Seeing, TokenRead
<1>4. ASSUME NEW r \in Requests, OpenBoard(r) PROVE TokenRead'
  BY <1>4, OpenEffect, HandleHeld, LenProperties DEF HostTypes, Turn, Seeking, Opening, Turns,
     Ended, AskFields, Handles, ClosesHandle, HandleFields, Sees, Onward, Holding, Seeing, TokenRead
<1>5. ASSUME NEW r \in Requests, ResolveAgain(r) PROVE TokenRead'
  BY <1>5, ResolveAgainEffect, HandleHeld, LenProperties DEF HostTypes, Turn, Seeking, Opening,
     Turns, Ended, AskFields, Handles, ClosesHandle, HandleFields, Sees, Onward, Holding, Seeing,
     TokenRead
<1>6. ASSUME NEW r \in Requests, Publish(r) PROVE TokenRead'
  BY SMTT(40), <1>6, PublishEffect, HandleHeld, LenProperties DEF HostTypes, Turn, Seeking, Opening, Turns,
     Ended, AskFields, Handles, ClosesHandle, HandleFields, Sees, Onward, Holding, Seeing, TokenRead
<1>7. ASSUME NEW r \in Requests, StatToken(r) PROVE TokenRead'
  BY SMTT(40), <1>7, StatEffect, HandleHeld, LenProperties DEF HostTypes, Turn, Seeking, Opening, Turns,
     Ended, AskFields, Handles, ClosesHandle, HandleFields, Sees, Onward, Holding, Seeing, TokenRead
<1>8. ASSUME NEW r \in Requests, ReadToken(r) PROVE TokenRead'
  BY <1>8, ReadEffect, HandleHeld, LenProperties DEF HostTypes, Turn, Seeking, Opening, Turns,
     Ended, AskFields, Handles, ClosesHandle, HandleFields, Sees, Onward, Holding, Seeing, TokenRead
<1>9. ASSUME NEW r \in Requests, StatAfter(r) PROVE TokenRead'
  BY SMTT(40), <1>9, AfterEffect, HandleHeld, LenProperties DEF HostTypes, Turn, Seeking, Opening, Turns,
     Ended, AskFields, Handles, ClosesHandle, HandleFields, Sees, Onward, Holding, Seeing, TokenRead
<1>10. ASSUME NEW r \in Requests, Finish(r) PROVE TokenRead'
  BY <1>10, FinishEffect, HandleHeld, LenProperties DEF HostTypes, Turn, Seeking, Opening, Turns,
     Ended, AskFields, Handles, ClosesHandle, HandleFields, Sees, Onward, Holding, Seeing, TokenRead
<1>11. ASSUME NEW n \in 1 .. Tries * MaxAsks, Grace(n) PROVE TokenRead'
  BY <1>11, GraceEffect, HandleHeld, LenProperties DEF HostTypes, Turn, Seeking, Opening, Turns,
     Ended, AskFields, Handles, ClosesHandle, HandleFields, Sees, Onward, Holding, Seeing, TokenRead
<1>12. ASSUME NEW n \in 1 .. Tries * MaxAsks, CloseRetired(n) PROVE TokenRead'
  BY <1>12, CloseRetiredEffect, HandleHeld, LenProperties DEF HostTypes, Turn, Seeking, Opening,
     Turns, Ended, AskFields, Handles, ClosesHandle, HandleFields, Sees, Onward, Holding, Seeing,
     TokenRead
<1>13. ASSUME MoveFleet \/ ChangeToken PROVE TokenRead'
  BY <1>13, ChangeEffect, HandleHeld, LenProperties DEF HostTypes, Turn, Seeking, Opening, Turns,
     Ended, AskFields, Handles, ClosesHandle, HandleFields, Sees, Onward, Holding, Seeing, TokenRead
<1>14. CASE UNCHANGED hVars
  BY <1>14 DEF hVars, HostTypes, Turn, Seeking, Opening, Turns, Ended, AskFields, Handles,
     ClosesHandle, HandleFields, Sees, Onward, Holding, Seeing, TokenRead
<1> QED
  BY <1>1, <1>2, <1>3, <1>4, <1>5, <1>6, <1>7, <1>8, <1>9, <1>10, <1>11, <1>12, <1>13, <1>14
     DEF HostNext, Serve

\* The inductive invariant of HostFleets holds at the start and after every step.
LEMMA HostInitInv == HostInit => HostInv
<1> SUFFICES ASSUME HostInit PROVE HostInv
  OBVIOUS
<1>1. handles = <<>> /\ Len(handles) = 0 /\ handles \in Seq(Handle)
  BY DEF HostInit
<1>2. \A r \in Requests : ask[r] = Quiescent
  BY DEF HostInit
<1>3. HostTypes
  BY <1>1, QuiescentType DEF HostTypes, HostInit
<1>4. Turn
  BY <1>2 DEF Turn, Quiescent, Seeking, Opening
<1>5. Holding
  BY <1>2, QuiescentType DEF Holding, CachedOpen, HeldOpen, OwnHandle, HostInit
<1>6. Seeing
  BY <1>1, <1>2, QuiescentType DEF Seeing, BoardsTold, SeesNow, HomeSeen, HandleHome, TokenRead
<1> QED BY <1>3, <1>4, <1>5, <1>6 DEF HostInv

LEMMA HostInvStep == HostInv /\ [HostNext]_hVars => HostInv'
  BY HostTypesStep, TurnStep, CachedOpenStep, HeldOpenStep, OwnHandleStep, BoardsToldStep,
     SeesNowStep, HomeSeenStep,
     HandleHomeStep, TokenReadStep DEF HostInv, Holding, Seeing

LEMMA AlwaysHostInv == HostSpec => []HostInv
  BY HostInitInv, HostInvStep, PTL DEF HostSpec

LEMMA HostInvSafe == HostInv => HostSafety
  BY DEF HostInv, HostTypes, Holding, CachedOpen, HeldOpen, HostSafety, HostTypeOK, NeverClosedInUse

\* The host's cache never holds a store that was retired or closed, and no store is closed while a request has it,
\* however the fleet moves and its token changes (board/host.go, retire and release).
THEOREM HostSafe == HostSpec => []HostSafety
  BY AlwaysHostInv, HostInvSafe, PTL

\* What a step that starts an answer answers with.
ServedAsAsked ==
  \A r \in Requests : ask[r].at # "serve" /\ ask'[r].at = "serve" =>
    LET h == handles'[ask[r].handle] IN
    h.open => h.home \in ask[r].homes /\ h.board.token \in ask[r].tokens

\* A request that looks at the token has a handle of a folder it saw, with a Board for one version.
LEMMA LookedAt ==
  ASSUME HostInv, NEW r \in Requests, ask[r].at \in {"stat", "after"}
  PROVE  /\ ask[r].handle \in 1 .. Len(handles) /\ handles[ask[r].handle].home \in ask[r].homes
         /\ secret \in ask[r].tokens
         /\ handles[ask[r].handle].board.token = handles[ask[r].handle].board.stat
<1>1. ask[r].handle \in 1 .. Len(handles)
  BY DEF HostInv, HostTypes, Turn, Seeking
<1> QED BY <1>1 DEF HostInv, Seeing, SeesNow, HomeSeen, HandleHome, BoardsTold

LEMMA ServedStep == HostInv /\ [HostNext]_hVars => ServedAsAsked
<1> SUFFICES ASSUME HostInv, [HostNext]_hVars PROVE ServedAsAsked
  OBVIOUS
<1>0. HostTypes /\ Turn
  BY DEF HostInv
<1>1. ASSUME NEW r \in Requests, Ask(r) PROVE ServedAsAsked
  BY <1>0, <1>1, AskEffect DEF ServedAsAsked, Turns, Ended, AskFields, Sees
<1>2. ASSUME NEW r \in Requests, Resolve(r) PROVE ServedAsAsked
  BY <1>0, <1>2, ResolveEffect DEF ServedAsAsked, Turns, Ended, AskFields, Sees
<1>3. ASSUME NEW r \in Requests, Cached(r) PROVE ServedAsAsked
  BY <1>0, <1>3, CachedEffect DEF ServedAsAsked, Turns, Ended, AskFields, Sees
<1>4. ASSUME NEW r \in Requests, OpenBoard(r) PROVE ServedAsAsked
  BY <1>0, <1>4, OpenEffect DEF ServedAsAsked, Turns, Ended, AskFields, Sees
<1>5. ASSUME NEW r \in Requests, ResolveAgain(r) PROVE ServedAsAsked
  BY <1>0, <1>5, ResolveAgainEffect, HandleHeld DEF ServedAsAsked, Turns, Ended, AskFields, Sees
<1>6. ASSUME NEW r \in Requests, Publish(r) PROVE ServedAsAsked
  BY <1>0, <1>6, PublishEffect, HandleHeld DEF ServedAsAsked, Turns, Ended, AskFields, Sees
<1>7. ASSUME NEW r \in Requests, StatToken(r) PROVE ServedAsAsked
  <2>1. ask[r].handle \in 1 .. Len(handles) /\ \A q \in Requests \ {r} : ask'[q].at = ask[q].at
    BY <1>0, <1>7, StatEffect, LookedAt DEF Turns
  <2>2. ask'[r].at = "serve" => handles[ask[r].handle].board.stat = secret
    BY <1>0, <1>7, StatEffect
  <2> QED BY <1>0, <1>7, <2>1, <2>2, StatEffect, LookedAt DEF ServedAsAsked
<1>8. ASSUME NEW r \in Requests, ReadToken(r) PROVE ServedAsAsked
  BY <1>0, <1>8, ReadEffect DEF ServedAsAsked, Turns, Ended, AskFields, Sees
<1>9. ASSUME NEW r \in Requests, StatAfter(r) PROVE ServedAsAsked
  <2>1. ask[r].at = "after" /\ ask[r].handle \in 1 .. Len(handles) /\ ask[r].handle # 0
    BY <1>0, <1>9, HandleHeld, LookedAt DEF HostTypes, StatAfter
  <2>2. \A q \in Requests \ {r} : ask'[q].at = ask[q].at
    BY <1>0, <1>9, <2>1, AfterEffect DEF Turns, Ended
  <2>3. ask'[r].at = "serve" =>
          /\ secret # 0 /\ ask[r].before = secret /\ Handles(ask[r].handle, {"board"})
          /\ handles'[ask[r].handle].board.token = ask[r].token
    BY <1>0, <1>9, <2>1, AfterEffect DEF Ended
  <2>4. ask'[r].at = "serve" => ask[r].token = secret /\ handles'[ask[r].handle].home = handles[ask[r].handle].home
    BY <2>1, <2>3 DEF HostInv, Seeing, TokenRead, Handles, HandleFields
  <2> QED BY <2>1, <2>2, <2>3, <2>4, LookedAt DEF ServedAsAsked
<1>10. ASSUME NEW r \in Requests, Finish(r) PROVE ServedAsAsked
  BY <1>0, <1>10, FinishEffect DEF ServedAsAsked, Turns, Ended, AskFields, Sees
<1>11. ASSUME NEW n \in 1 .. Tries * MaxAsks, Grace(n) PROVE ServedAsAsked
  BY <1>0, <1>11, GraceEffect DEF ServedAsAsked, Turns, Ended, AskFields, Sees
<1>12. ASSUME NEW n \in 1 .. Tries * MaxAsks, CloseRetired(n) PROVE ServedAsAsked
  BY <1>0, <1>12, CloseRetiredEffect DEF ServedAsAsked, Turns, Ended, AskFields, Sees
<1>13. ASSUME MoveFleet \/ ChangeToken PROVE ServedAsAsked
  BY <1>0, <1>13, ChangeEffect DEF ServedAsAsked, Turns, Ended, AskFields, Sees
<1>14. CASE UNCHANGED hVars
  BY <1>14 DEF hVars, ServedAsAsked
<1> QED
  BY <1>1, <1>2, <1>3, <1>4, <1>5, <1>6, <1>7, <1>8, <1>9, <1>10, <1>11, <1>12, <1>13, <1>14
     DEF HostNext, Serve

\* A request is answered from a folder the fleet was in while the request went on and with a token that board.token
\* held meanwhile, whatever moved or changed between the looks (board/host.go handler, cli/board.go current).
THEOREM HostServes == HostSpec => ServedCurrent
<1>1. HostInv /\ [HostNext]_hVars => [ServedAsAsked]_hVars
  BY ServedStep
<1>2. HostSpec => [][ServedAsAsked]_hVars
  BY <1>1, AlwaysHostInv, PTL DEF HostSpec
<1> QED BY <1>2 DEF ServedCurrent, ServedAsAsked

-----------------------------------------------------------------------------
(* BoardPage: the inductive invariant *)

Agents == {"working", "idle", "limited", "blocked"}
CommandAts == {"idle", "asked", "keys", "again", "recheck", "note"}
Pane == [agent : Agents, dialog : Nat, revision : Nat]
ScreenRecord == [of : Targets, revision : Nat, dialog : Nat, after : Nat, raced : BOOLEAN]
CommandRecord == [at : CommandAts, of : Targets, revision : Nat, dialog : Nat, after : Nat, raced : BOOLEAN]

\* What a page shows or is about to show, and a page.
Shaped(d) == d = [f \in {"status", "needs", "tasks", "screens"} |-> d[f]] /\ d.screens \subseteq ScreenRecord
PageShaped(x) ==
  /\ x = [f \in {"at", "last", "first", "read", "draft", "shows"} |-> x[f]]
  /\ x.at \in {"closed", "tick", "read", "queue"} /\ Shaped(x.draft) /\ Shaped(x.shows)
  /\ \A s \in x.draft.screens : ~s.raced

RowTypes ==
  /\ rows \in [Targets -> SupRows \cup WorkerRows] /\ rows["sup"] \in SupRows /\ \A w \in Attempts : rows[w] \in WorkerRows
  /\ signal \in [Attempts -> [kind : Kinds, old : BOOLEAN]]
KeyTypes ==
  /\ pane \in [Targets -> Pane] /\ cmd \in [Pages -> CommandRecord]
  /\ seq \in Nat /\ losses \in Nat /\ pressed \in [Targets -> Nat] /\ answered \in [Targets -> SUBSET Nat]
  /\ \A t \in Targets : pressed[t] <= seq
Shapes == page = [p \in Pages |-> page[p]] /\ \A p \in Pages : PageShaped(page[p])

\* A dialog has the number of the revision it came with; keys were pressed on earlier ones only.
Dialogs ==
  \A t \in Targets :
    /\ pane[t].dialog <= pane[t].revision /\ (Agent(t) = "blocked" => pane[t].dialog > 0)
    /\ answered[t] \subseteq 0 .. pane[t].revision
    /\ pane[t].dialog > 0 => pane[t].dialog \notin answered[t]

\* One command at a time presses keys on an attempt; the supervisor has no lock.
Pressing(p) == cmd[p].at \in {"keys", "again", "recheck", "note"}
OnePresses ==
  \A p, q \in Pages : p # q /\ Pressing(p) /\ Pressing(q) /\ cmd[p].of \in Attempts => cmd[p].of # cmd[q].of

\* A screen whose dialog was answered since, by a press that is recorded, can be told by the last press.
Tells(s) ==
  /\ s.after <= seq
  /\ ~s.raced /\ losses = 0 /\ s.dialog \in Noted(s.of) => s.after < pressed[s.of]

Known(p) == page[p].draft.screens \cup page[p].shows.screens
KnownTold == \A p \in Pages : \A s \in Known(p) : Tells(s)
AskedTold == \A p \in Pages : cmd[p].at = "asked" => Tells(cmd[p])

\* A command that goes on to press keys on an attempt does so for a dialog that was not answered.
Unanswered ==
  \A p \in Pages :
    cmd[p].at \in {"keys", "again", "recheck"} /\ cmd[p].of \in Attempts /\ ~cmd[p].raced /\ losses = 0
    => cmd[p].dialog \notin answered[cmd[p].of]

PageInv == RowTypes /\ KeyTypes /\ Shapes /\ Dialogs /\ OnePresses /\ KnownTold /\ AskedTold /\ Unanswered
-----------------------------------------------------------------------------
(* BoardPage: what the steps do *)

\* Nothing that is about keys changes, but that a newer event may be there.
Untouched == UNCHANGED <<pressed, page, cmd, losses, answered>> /\ seq' \in {seq, seq + 1}

\* Of the agents of all targets only that of t changes; it shows no dialog, the same one or a new one.
Redraws(t) ==
  /\ pane' \in [Targets -> Pane] /\ \A u \in Targets \ {t} : pane'[u] = pane[u]
  /\ pane'[t].revision = pane[t].revision + 1
  /\ pane'[t].dialog \in {0, pane[t].dialog, pane[t].revision + 1}
  /\ pane'[t].agent = "blocked" => pane'[t].dialog > 0

\* Only the command of page p changes, and it gets to a place in S.
CommandGoes(p, S) ==
  /\ cmd' \in [Pages -> CommandRecord] /\ \A q \in Pages \ {p} : cmd'[q] = cmd[q]
  /\ cmd'[p].at \in S

\* The supervisor is none of the attempts; every target is one of them or it.
LEMMA SupTarget == "sup" \in Targets /\ "sup" \notin Attempts /\ Attempts \subseteq Targets
  BY PageAssumption DEF Targets

\* A page reads or shows more: the screens it knows are of what it knew, or S.
Reads(p, S) ==
  /\ page' = [page EXCEPT ![p] = page'[p]] /\ PageShaped(page'[p])
  /\ \A s \in Known(p)' : s \in Known(p) \/ s \in S

LEMMA StirEffect ==
  ASSUME KeyTypes, NEW t \in Targets, Stir(t)
  PROVE  Redraws(t) /\ Untouched /\ UNCHANGED <<rows, signal>>
<1>1. PICK agent \in Agents :
        pane' = [pane EXCEPT ![t] = [agent |-> agent, revision |-> @.revision + 1,
                                     dialog |-> IF agent # "blocked" THEN 0
                                                ELSE IF @.dialog > 0 THEN @.dialog ELSE @.revision + 1]]
  BY DEF Stir, Agents
<1> DEFINE e == [agent |-> agent, revision |-> pane[t].revision + 1,
                 dialog |-> IF agent # "blocked" THEN 0
                            ELSE IF pane[t].dialog > 0 THEN pane[t].dialog ELSE pane[t].revision + 1]
<1>2. /\ e \in Pane /\ e.revision = pane[t].revision + 1 /\ e.dialog \in {0, pane[t].dialog, pane[t].revision + 1}
      /\ e.agent = "blocked" => e.dialog > 0
  <2>1. pane[t] \in Pane
    BY DEF KeyTypes
  <2> QED BY <2>1 DEF Pane
<1>3. pane' = [pane EXCEPT ![t] = e]
  BY <1>1
<1> HIDE DEF e
<1> QED BY <1>2, <1>3 DEF Redraws, KeyTypes, Stir, Silent, PageUntold, Untouched

LEMMA RowsEffect ==
  ASSUME RowTypes, NEW t \in Targets, Rows(t)
  PROVE  RowTypes' /\ Untouched /\ UNCHANGED pane
<1>1. PICK to \in IF t = "sup" THEN SupRows \ {"none", rows[t]} ELSE WorkerRows \ {rows[t]} : rows' = [rows EXCEPT ![t] = to]
  BY DEF Rows
<1>2. t # "sup" => t \in Attempts
  BY DEF Targets
<1>3. RowTypes'
  BY <1>1, <1>2, SupTarget DEF RowTypes, Rows
<1> QED BY <1>3 DEF Rows, EmitSeq, PageUntold, Untouched

LEMMA SignalEffect ==
  ASSUME RowTypes, NEW w \in Attempts, Signal(w) \/ Age(w)
  PROVE  RowTypes' /\ Untouched /\ UNCHANGED pane
<1>1. CASE Signal(w)
  <2>1. PICK kind \in Kinds : signal' = [signal EXCEPT ![w] = [kind |-> kind, old |-> FALSE]]
    BY <1>1 DEF Signal
  <2>2. signal' \in [Attempts -> [kind : Kinds, old : BOOLEAN]]
    BY <2>1 DEF RowTypes
  <2> QED BY <1>1, <2>2 DEF RowTypes, Signal, EmitSeq, PageUntold, Untouched
<1>2. CASE Age(w)
  <2>1. signal' = [signal EXCEPT ![w].old = TRUE]
    BY <1>2 DEF Age
  <2>2. signal' \in [Attempts -> [kind : Kinds, old : BOOLEAN]]
    BY <2>1 DEF RowTypes
  <2> QED BY <1>2, <2>2 DEF RowTypes, Age, Silent, PageUntold, Untouched
<1> QED BY <1>1, <1>2

LEMMA WorkEffect ==
  ASSUME RecordWork \/ ServerRestart
  PROVE  UNCHANGED <<rows, signal, pane>> /\ Untouched
<1>1. CASE RecordWork
  BY <1>1 DEF RecordWork, EmitSeq, PageUntold, Untouched
<1>2. CASE ServerRestart
  BY <1>2 DEF ServerRestart, Silent, PageUntold, Untouched
<1> QED BY <1>1, <1>2

\* Every screen of the queue that is asked has a dialog, which was not answered.
LEMMA ScreenTold ==
  ASSUME KeyTypes, Dialogs, NEW t \in Screens
  PROVE  Screen(t) \in ScreenRecord /\ Tells(Screen(t)) /\ ~Screen(t).raced
<1>1. t \in Targets /\ pane[t].dialog > 0
  <2>1. CASE t = "sup"
    BY <2>1, SupTarget DEF Screens, SupBlocked, Dialogs, WorkerWaits, LiveWorkers
  <2>2. CASE t # "sup"
    BY <2>2 DEF Screens
  <2> QED BY <2>1, <2>2
<1>2. pane[t] \in Pane /\ pressed[t] \in Nat /\ pressed[t] <= seq
  BY <1>1 DEF KeyTypes
<1>3. Screen(t) \in ScreenRecord /\ Screen(t).of = t /\ Screen(t).dialog = pane[t].dialog
      /\ Screen(t).after = pressed[t] /\ ~Screen(t).raced
  BY <1>1, <1>2 DEF Screen, ScreenRecord, Pane
<1>4. pane[t].dialog \notin answered[t]
  BY <1>1 DEF Dialogs
<1> HIDE DEF Screen
<1> QED BY <1>2, <1>3, <1>4 DEF Tells, Noted

LEMMA ConnectEffect ==
  ASSUME Shapes, NEW p \in Pages, Connect(p) \/ ReadVersion(p)
  PROVE  Reads(p, {}) /\ UNCHANGED <<rows, signal, pane, seq, pressed, cmd, losses, answered>>
<1> DEFINE x == page[p]
           e == [x EXCEPT !.at = "tick", !.first = TRUE]
           d == [x EXCEPT !.at = "read", !.read = Version]
<1>1. PageShaped(x)
  BY DEF Shapes
<1>2. PageShaped(e) /\ e.draft = x.draft /\ e.shows = x.shows
  BY <1>1 DEF PageShaped
<1>3. PageShaped(d) /\ d.draft = x.draft /\ d.shows = x.shows
  BY <1>1 DEF PageShaped
<1>4. page' = [page EXCEPT ![p] = e] \/ page' = [page EXCEPT ![p] = d]
  BY DEF Connect, ReadVersion, PageStep
<1>5. UNCHANGED <<rows, signal, pane, seq, pressed, cmd, losses, answered>>
  BY DEF Connect, ReadVersion, Unstirred, bfleet
<1> HIDE DEF e, d
<1>6. page'[p] \in {e, d} /\ page' = [page EXCEPT ![p] = page'[p]]
  BY <1>4 DEF Shapes
<1> QED BY <1>2, <1>3, <1>5, <1>6 DEF Reads, Known

LEMMA StatusEffect ==
  ASSUME Shapes, KeyTypes, Dialogs, NEW p \in Pages, ReadStatus(p)
  PROVE  Reads(p, {Screen(t) : t \in Screens}) /\ UNCHANGED <<rows, signal, pane, seq, pressed, cmd, losses, answered>>
<1> DEFINE x == page[p]
           D == [NoPage EXCEPT !.status = Status, !.tasks = {Check(w) : w \in Attempts}, !.screens = {Screen(t) : t \in Screens}]
           e == [x EXCEPT !.at = "queue", !.draft = D]
<1>1. PageShaped(x)
  BY DEF Shapes
<1>2. Shaped(D) /\ D.screens = {Screen(t) : t \in Screens} /\ \A s \in D.screens : ~s.raced
  BY ScreenTold DEF Shaped, NoPage
<1>3. page' = [page EXCEPT ![p] = e] /\ UNCHANGED <<rows, signal, pane, seq, pressed, cmd, losses, answered>>
  BY DEF ReadStatus, PageStep, Unstirred, bfleet
<1> HIDE DEF D
<1>4. PageShaped(e) /\ e.draft = D /\ e.shows = x.shows
  BY <1>1, <1>2 DEF PageShaped
<1> HIDE DEF e
<1>5. page'[p] = e /\ page' = [page EXCEPT ![p] = page'[p]]
  BY <1>3 DEF Shapes
<1> QED BY <1>2, <1>3, <1>4, <1>5 DEF Reads, Known

\* The screens that are sent: those that were read, with the last press on each.
Sent(p) == {[s EXCEPT !.after = pressed[s.of], !.raced = pressed[s.of] # s.after] : s \in page[p].draft.screens}

LEMMA SentTold ==
  ASSUME KeyTypes, Shapes, KnownTold, NEW p \in Pages, NEW v \in Sent(p)
  PROVE  v \in ScreenRecord /\ Tells(v)
<1>1. PICK s \in page[p].draft.screens : v = [s EXCEPT !.after = pressed[s.of], !.raced = pressed[s.of] # s.after]
  BY DEF Sent
<1>2. s \in ScreenRecord /\ Tells(s)
  BY DEF Shapes, PageShaped, Shaped, KnownTold, Known
<1>3. pressed[s.of] \in Nat /\ pressed[s.of] <= seq
  BY <1>2 DEF KeyTypes, ScreenRecord
<1>4. (pressed[s.of] # s.after) \in BOOLEAN
  OBVIOUS
<1>5. /\ v \in ScreenRecord /\ v.of = s.of /\ v.dialog = s.dialog /\ v.after = pressed[s.of]
      /\ v.raced = (pressed[s.of] # s.after)
  BY <1>1, <1>2, <1>3, <1>4 DEF ScreenRecord
<1>6. CASE v.raced
  BY <1>3, <1>5, <1>6 DEF Tells
<1>7. CASE ~v.raced
  <2>1. v.after = s.after
    BY <1>5, <1>7
  <2>2. ~s.raced
    BY <1>1 DEF Shapes, PageShaped
  <2> QED BY <1>2, <1>3, <1>5, <2>1, <2>2 DEF Tells
<1> QED BY <1>5, <1>6, <1>7

LEMMA SendEffect ==
  ASSUME Shapes, KeyTypes, KnownTold, NEW p \in Pages, SendRegions(p)
  PROVE  Reads(p, Sent(p)) /\ UNCHANGED <<rows, signal, pane, seq, pressed, cmd, losses, answered>>
<1> DEFINE x == page[p]
           D == [x.draft EXCEPT !.needs = Needs, !.screens = Sent(p)]
           e == [x EXCEPT !.at = "tick", !.first = FALSE, !.last = x.read, !.draft = NoPage, !.shows = D]
<1>1. PageShaped(x) /\ Shaped(x.draft)
  BY DEF Shapes, PageShaped
<1>2. Shaped(D) /\ D.screens = Sent(p)
  BY <1>1, SentTold DEF Shaped
<1>3. page' = [page EXCEPT ![p] = e] /\ UNCHANGED <<rows, signal, pane, seq, pressed, cmd, losses, answered>>
  BY DEF SendRegions, PageStep, Unstirred, bfleet, Sent
<1> HIDE DEF D
<1>4. Shaped(NoPage) /\ NoPage.screens = {}
  BY DEF Shaped, NoPage
<1>5. PageShaped(e) /\ e.draft = NoPage /\ e.shows = D
  BY <1>1, <1>2, <1>4 DEF PageShaped
<1> HIDE DEF e
<1>6. page'[p] = e /\ page' = [page EXCEPT ![p] = page'[p]]
  BY <1>3 DEF Shapes
<1> QED BY <1>2, <1>3, <1>4, <1>5, <1>6 DEF Reads, Known

LEMMA DropEffect ==
  ASSUME Shapes, KeyTypes, NEW p \in Pages, DropStream(p)
  PROVE  Reads(p, {}) /\ losses' = losses + 1 /\ UNCHANGED <<rows, signal, pane, seq, pressed, cmd, answered>>
<1> DEFINE x == page[p]
           e == [x EXCEPT !.at = "closed", !.draft = NoPage]
<1>1. PageShaped(x)
  BY DEF Shapes
<1>2. Shaped(NoPage) /\ NoPage.screens = {}
  BY DEF Shaped, NoPage
<1>3. PageShaped(e) /\ e.draft = NoPage /\ e.shows = x.shows
  BY <1>1, <1>2 DEF PageShaped
<1>4. page' = [page EXCEPT ![p] = e] /\ losses' = losses + 1 /\ UNCHANGED <<rows, signal, pane, seq, pressed, cmd, answered>>
  BY DEF DropStream, PageStep, Unstirred, bfleet
<1> HIDE DEF e
<1>5. page'[p] = e /\ page' = [page EXCEPT ![p] = page'[p]]
  BY <1>4 DEF Shapes
<1> QED BY <1>2, <1>3, <1>4, <1>5 DEF Reads, Known

\* A page that runs no command.
LEMMA NoCommandType == NoCommand \in CommandRecord /\ NoCommand.at = "idle"
  BY SupTarget DEF NoCommand, CommandRecord, CommandAts

\* The operator answers a screen the page shows.
LEMMA PressEffect ==
  ASSUME Shapes, KeyTypes, NEW p \in Pages, Press(p)
  PROVE  /\ Reads(p, {}) /\ CommandGoes(p, {"asked"}) /\ UNCHANGED <<rows, signal, pane, seq, pressed, losses, answered>>
         /\ cmd[p].at = "idle"
         /\ \E s \in Known(p) : /\ cmd'[p].of = s.of /\ cmd'[p].dialog = s.dialog /\ cmd'[p].after = s.after
                                /\ cmd'[p].raced = s.raced
<1> DEFINE x == page[p]
           D == [x.shows EXCEPT !.screens = {}]
           e == [x EXCEPT !.shows = D]
<1>1. PageShaped(x) /\ Shaped(x.shows)
  BY DEF Shapes, PageShaped
<1>2. Shaped(D) /\ D.screens = {}
  BY <1>1 DEF Shaped
<1>3. page' = [page EXCEPT ![p] = e]
  BY DEF Press
<1> HIDE DEF D
<1>4. PageShaped(e) /\ e.draft = x.draft /\ e.shows = D
  BY <1>1, <1>2 DEF PageShaped
<1> HIDE DEF e
<1>5. page'[p] = e /\ page' = [page EXCEPT ![p] = page'[p]]
  BY <1>3 DEF Shapes
<1>6. Reads(p, {})
  BY <1>2, <1>4, <1>5 DEF Reads, Known
<1>7. PICK s \in page[p].shows.screens :
        cmd' = [cmd EXCEPT ![p] = [at |-> "asked", of |-> s.of, revision |-> s.revision,
                                   dialog |-> s.dialog, after |-> s.after, raced |-> s.raced]]
  BY DEF Press
<1> DEFINE c == [at |-> "asked", of |-> s.of, revision |-> s.revision, dialog |-> s.dialog, after |-> s.after, raced |-> s.raced]
<1>8. s \in ScreenRecord /\ s \in Known(p)
  BY <1>1, <1>7 DEF Shaped, Known
<1>9. /\ c \in CommandRecord /\ c.at = "asked" /\ c.of = s.of /\ c.dialog = s.dialog /\ c.after = s.after /\ c.raced = s.raced
  BY <1>8 DEF ScreenRecord, CommandRecord, CommandAts
<1>10. cmd' = [cmd EXCEPT ![p] = c] /\ cmd[p].at = "idle" /\ UNCHANGED <<rows, signal, pane, seq, pressed, losses, answered>>
  <2>1. cmd' = [cmd EXCEPT ![p] = c]
    BY <1>7
  <2>2. cmd[p].at = "idle" /\ UNCHANGED <<rows, signal, pane, seq, pressed, losses, answered>>
    BY NoCommandType DEF Press, bfleet
  <2> QED BY <2>1, <2>2
<1> HIDE DEF c
<1>11. CommandGoes(p, {"asked"}) /\ cmd'[p] = c
  BY <1>9, <1>10 DEF CommandGoes, KeyTypes
<1> QED BY <1>6, <1>8, <1>9, <1>10, <1>11

LEMMA RefusedEffect ==
  ASSUME KeyTypes, NEW p \in Pages, Refused(p)
  PROVE  CommandGoes(p, {"idle"})
  BY NoCommandType DEF Refused, CommandGoes, KeyTypes

\* A command keeps what it presses keys for.
SameTarget(p) == cmd'[p].of = cmd[p].of /\ cmd'[p].dialog = cmd[p].dialog /\ cmd'[p].after = cmd[p].after /\ cmd'[p].raced = cmd[p].raced

LEMMA CommandAtEffect ==
  ASSUME KeyTypes, NEW p \in Pages, NEW a \in CommandAts, CommandAt(p, a)
  PROVE  CommandGoes(p, {a}) /\ SameTarget(p)
<1>1. cmd[p] \in CommandRecord
  BY DEF KeyTypes
<1>2. cmd' = [cmd EXCEPT ![p] = [cmd[p] EXCEPT !.at = a]]
  BY DEF CommandAt
<1> DEFINE e == [cmd[p] EXCEPT !.at = a]
<1>3. e \in CommandRecord /\ e.at = a /\ e.of = cmd[p].of /\ e.dialog = cmd[p].dialog /\ e.after = cmd[p].after /\ e.raced = cmd[p].raced
  BY <1>1 DEF CommandRecord
<1> HIDE DEF e
<1>4. cmd'[p] = e /\ CommandGoes(p, {a})
  BY <1>2, <1>3 DEF e, KeyTypes, CommandGoes
<1> QED BY <1>3, <1>4 DEF SameTarget

\* The look; on an attempt the command has its lock alone.
LEMMA LookEffect ==
  ASSUME KeyTypes, NEW p \in Pages, PressedSince(p)
  PROVE  /\ cmd[p].at = "asked" /\ UNCHANGED <<rows, signal, pane, seq, pressed, page, losses, answered>>
         /\ \/ CommandGoes(p, {"idle"})
            \/ /\ CommandGoes(p, {"keys"}) /\ SameTarget(p) /\ pressed[cmd[p].of] <= cmd[p].after
               /\ cmd[p].of \in Attempts => \A q \in Pages : cmd[q].at \in {"idle", "asked"} \/ cmd[q].of # cmd[p].of
<1>1. "keys" \in CommandAts
  BY DEF CommandAts
<1> QED BY <1>1, RefusedEffect, CommandAtEffect DEF PressedSince, Free, bfleet

\* Luvus took the keys.
Keyed(p) ==
  LET t == cmd[p].of IN
  /\ answered' = [answered EXCEPT ![t] = @ \cup {pane[t].dialog}]
  /\ Redraws(t) /\ pane'[t].dialog \in {0, pane[t].revision + 1}
  /\ CommandGoes(p, {"note"}) /\ cmd'[p].of = t /\ cmd'[p].dialog = pane[t].dialog

LEMMA TakenEffect ==
  ASSUME KeyTypes, Dialogs, NEW p \in Pages, Taken(p)
  PROVE  Keyed(p)
<1> DEFINE t == cmd[p].of
<1>1. t \in Targets /\ pane[t] \in Pane
  BY DEF KeyTypes, CommandRecord
<1>2. PICK next \in {0, pane[t].revision + 1} :
        pane' = [pane EXCEPT ![t].revision = @ + 1, ![t].dialog = next, ![t].agent = IF next = 0 THEN "working" ELSE @]
  BY DEF Taken
<1> DEFINE e == [pane[t] EXCEPT !.revision = @ + 1, !.dialog = next, !.agent = IF next = 0 THEN "working" ELSE @]
<1>3. pane' = [pane EXCEPT ![t] = e]
  BY <1>1, <1>2 DEF KeyTypes
<1>4. e \in Pane /\ e.revision = pane[t].revision + 1 /\ e.dialog = next /\ (e.agent = "blocked" => e.dialog > 0)
  <2>1. next \in {0, pane[t].revision + 1} /\ pane[t].revision + 1 \in Nat /\ next \in Nat /\ pane[t].agent \in Agents
    BY <1>1 DEF Pane
  <2>2. e.revision = pane[t].revision + 1 /\ e.dialog = next /\ e.agent = IF next = 0 THEN "working" ELSE pane[t].agent
    BY <1>1 DEF Pane
  <2>3. e \in Pane
    BY <1>1, <2>1 DEF Pane, Agents
  <2> HIDE DEF e
  <2> QED BY <1>1, <2>1, <2>2, <2>3 DEF Pane
<1> HIDE DEF e
<1>5. Redraws(t) /\ pane'[t].dialog \in {0, pane[t].revision + 1}
  <2>1. next \in {0, pane[t].revision + 1}
    OBVIOUS
  <2>2. pane' \in [Targets -> Pane] /\ pane'[t] = e /\ \A u \in Targets \ {t} : pane'[u] = pane[u]
    BY <1>1, <1>3, <1>4 DEF KeyTypes
  <2> HIDE DEF t
  <2> QED BY <1>4, <2>1, <2>2 DEF Redraws
<1> DEFINE c == [cmd[p] EXCEPT !.at = "note", !.dialog = pane[t].dialog]
<1>6. c \in CommandRecord /\ c.at = "note" /\ c.of = t /\ c.dialog = pane[t].dialog
  BY <1>1 DEF KeyTypes, CommandRecord, CommandAts, Pane
<1>7. cmd' = [cmd EXCEPT ![p] = c]
  BY DEF Taken, KeyTypes
<1> HIDE DEF c
<1>8. CommandGoes(p, {"note"}) /\ cmd'[p] = c
  BY <1>6, <1>7 DEF CommandGoes, KeyTypes
<1> QED BY <1>5, <1>6, <1>8 DEF Taken, Keyed

LEMMA KeysEffect ==
  ASSUME KeyTypes, Dialogs, NEW p \in Pages, PressKeys(p) \/ Recheck(p)
  PROVE  /\ cmd[p].at \in {"keys", "recheck"} /\ UNCHANGED <<rows, signal, seq, pressed, page, losses>>
         /\ \/ Keyed(p)
            \/ /\ UNCHANGED <<pane, answered>>
               /\ CommandGoes(p, {"idle"}) \/ (CommandGoes(p, {"again"}) /\ SameTarget(p))
<1>1. "again" \in CommandAts
  BY DEF CommandAts
<1> QED BY <1>1, TakenEffect, RefusedEffect, CommandAtEffect DEF PressKeys, Recheck

LEMMA AgainEffect ==
  ASSUME KeyTypes, NEW p \in Pages, PressAgain(p)
  PROVE  /\ cmd[p].at = "again" /\ UNCHANGED <<rows, signal, pane, seq, pressed, page, losses, answered>>
         /\ CommandGoes(p, {"idle"}) \/ (CommandGoes(p, {"recheck"}) /\ SameTarget(p))
<1> DEFINE e == [cmd[p] EXCEPT !.at = "recheck", !.revision = pane[cmd[p].of].revision]
<1>1. cmd[p] \in CommandRecord /\ pane[cmd[p].of] \in Pane
  BY DEF KeyTypes, CommandRecord
<1>2. e \in CommandRecord /\ e.at = "recheck" /\ e.of = cmd[p].of /\ e.dialog = cmd[p].dialog /\ e.after = cmd[p].after /\ e.raced = cmd[p].raced
  BY <1>1 DEF CommandRecord, CommandAts, Pane
<1>3. cmd' = [cmd EXCEPT ![p] = e] \/ Refused(p)
  BY DEF PressAgain
<1>4. cmd[p].at = "again" /\ UNCHANGED <<rows, signal, pane, seq, pressed, page, losses, answered>>
  BY DEF PressAgain, bfleet
<1> HIDE DEF e
<1>5. cmd' = [cmd EXCEPT ![p] = e] => CommandGoes(p, {"recheck"}) /\ SameTarget(p)
  BY <1>2 DEF CommandGoes, SameTarget, KeyTypes
<1> QED BY <1>3, <1>4, <1>5, RefusedEffect

LEMMA NoteEffect ==
  ASSUME KeyTypes, RowTypes, NEW p \in Pages, NotePress(p)
  PROVE  /\ cmd[p].at = "note" /\ cmd[p].of \in Targets /\ CommandGoes(p, {"idle"}) /\ seq' = seq + 1
         /\ pressed' = [pressed EXCEPT ![cmd[p].of] = seq + 1]
         /\ RowTypes' /\ UNCHANGED <<pane, page, losses, answered>>
<1>1. cmd[p].of \in Targets
  BY DEF KeyTypes, CommandRecord
<1>2. signal' \in [Attempts -> [kind : Kinds, old : BOOLEAN]]
  BY DEF NotePress, RowTypes, Kinds
<1> QED BY <1>1, <1>2, RefusedEffect DEF NotePress, EmitSeq, RowTypes

LEMMA KilledEffect ==
  ASSUME KeyTypes, NEW p \in Pages, CommandKilled(p)
  PROVE  cmd[p].at = "note" /\ CommandGoes(p, {"idle"}) /\ losses' = losses + 1 /\ UNCHANGED <<rows, signal, pane, seq, pressed, page, answered>>
  BY RefusedEffect DEF CommandKilled, bfleet
-----------------------------------------------------------------------------
(* BoardPage: every step keeps the invariant *)

\* Every row keeps its type.
LEMMA RowTypesStep == PageInv /\ [PageNext]_bvars => RowTypes'
<1> SUFFICES ASSUME PageInv, [PageNext]_bvars PROVE RowTypes'
  OBVIOUS
<1> USE DEF PageInv
<1>1. ASSUME NEW t \in Targets, Stir(t) PROVE RowTypes'
  BY <1>1, StirEffect DEF RowTypes, Untouched, Redraws, Reads, CommandGoes, Keyed, SameTarget
<1>2. ASSUME NEW t \in Targets, Rows(t) PROVE RowTypes'
  BY <1>2, RowsEffect DEF RowTypes, Untouched, Redraws, Reads, CommandGoes, Keyed, SameTarget
<1>3. ASSUME NEW w \in Attempts, Signal(w) \/ Age(w) PROVE RowTypes'
  BY <1>3, SignalEffect DEF RowTypes, Untouched, Redraws, Reads, CommandGoes, Keyed, SameTarget
<1>4. ASSUME RecordWork \/ ServerRestart PROVE RowTypes'
  BY <1>4, WorkEffect DEF RowTypes, Untouched, Redraws, Reads, CommandGoes, Keyed, SameTarget
<1>5. ASSUME NEW p \in Pages, Connect(p) \/ ReadVersion(p) PROVE RowTypes'
  BY <1>5, ConnectEffect DEF RowTypes, Untouched, Redraws, Reads, CommandGoes, Keyed, SameTarget
<1>6. ASSUME NEW p \in Pages, ReadStatus(p) PROVE RowTypes'
  BY <1>6, StatusEffect DEF RowTypes, Untouched, Redraws, Reads, CommandGoes, Keyed, SameTarget
<1>7. ASSUME NEW p \in Pages, SendRegions(p) PROVE RowTypes'
  BY <1>7, SendEffect DEF RowTypes, Untouched, Redraws, Reads, CommandGoes, Keyed, SameTarget
<1>8. ASSUME NEW p \in Pages, DropStream(p) PROVE RowTypes'
  BY <1>8, DropEffect DEF RowTypes, Untouched, Redraws, Reads, CommandGoes, Keyed, SameTarget
<1>9. ASSUME NEW p \in Pages, Press(p) PROVE RowTypes'
  BY <1>9, PressEffect DEF RowTypes, Untouched, Redraws, Reads, CommandGoes, Keyed, SameTarget
<1>10. ASSUME NEW p \in Pages, PressedSince(p) PROVE RowTypes'
  BY <1>10, LookEffect DEF RowTypes, Untouched, Redraws, Reads, CommandGoes, Keyed, SameTarget
<1>11. ASSUME NEW p \in Pages, PressKeys(p) \/ Recheck(p) PROVE RowTypes'
  BY <1>11, KeysEffect DEF RowTypes, Untouched, Redraws, Reads, CommandGoes, Keyed, SameTarget
<1>12. ASSUME NEW p \in Pages, PressAgain(p) PROVE RowTypes'
  BY <1>12, AgainEffect DEF RowTypes, Untouched, Redraws, Reads, CommandGoes, Keyed, SameTarget
<1>13. ASSUME NEW p \in Pages, NotePress(p) PROVE RowTypes'
  BY <1>13, NoteEffect DEF RowTypes, Untouched, Redraws, Reads, CommandGoes, Keyed, SameTarget
<1>14. ASSUME NEW p \in Pages, CommandKilled(p) PROVE RowTypes'
  BY <1>14, KilledEffect DEF RowTypes, Untouched, Redraws, Reads, CommandGoes, Keyed, SameTarget
<1>15. CASE UNCHANGED bvars
  BY <1>15 DEF bvars, bfleet, RowTypes, Untouched, Redraws, Reads, CommandGoes, Keyed, SameTarget
<1> QED
  BY <1>1, <1>2, <1>3, <1>4, <1>5, <1>6, <1>7, <1>8, <1>9, <1>10, <1>11, <1>12, <1>13, <1>14,
     <1>15 DEF PageNext, Stream, Command

\* What keys are about keeps its types.
LEMMA KeyTypesStep == PageInv /\ [PageNext]_bvars => KeyTypes'
<1> SUFFICES ASSUME PageInv, [PageNext]_bvars PROVE KeyTypes'
  OBVIOUS
<1> USE DEF PageInv
<1>1. ASSUME NEW t \in Targets, Stir(t) PROVE KeyTypes'
  BY <1>1, StirEffect DEF KeyTypes, Untouched, Redraws, Reads, CommandGoes, Keyed, SameTarget
<1>2. ASSUME NEW t \in Targets, Rows(t) PROVE KeyTypes'
  BY <1>2, RowsEffect DEF KeyTypes, Untouched, Redraws, Reads, CommandGoes, Keyed, SameTarget
<1>3. ASSUME NEW w \in Attempts, Signal(w) \/ Age(w) PROVE KeyTypes'
  BY <1>3, SignalEffect DEF KeyTypes, Untouched, Redraws, Reads, CommandGoes, Keyed, SameTarget
<1>4. ASSUME RecordWork \/ ServerRestart PROVE KeyTypes'
  BY <1>4, WorkEffect DEF KeyTypes, Untouched, Redraws, Reads, CommandGoes, Keyed, SameTarget
<1>5. ASSUME NEW p \in Pages, Connect(p) \/ ReadVersion(p) PROVE KeyTypes'
  BY <1>5, ConnectEffect DEF KeyTypes, Untouched, Redraws, Reads, CommandGoes, Keyed, SameTarget
<1>6. ASSUME NEW p \in Pages, ReadStatus(p) PROVE KeyTypes'
  BY <1>6, StatusEffect DEF KeyTypes, Untouched, Redraws, Reads, CommandGoes, Keyed, SameTarget
<1>7. ASSUME NEW p \in Pages, SendRegions(p) PROVE KeyTypes'
  BY <1>7, SendEffect DEF KeyTypes, Untouched, Redraws, Reads, CommandGoes, Keyed, SameTarget
<1>8. ASSUME NEW p \in Pages, DropStream(p) PROVE KeyTypes'
  BY <1>8, DropEffect DEF KeyTypes, Untouched, Redraws, Reads, CommandGoes, Keyed, SameTarget
<1>9. ASSUME NEW p \in Pages, Press(p) PROVE KeyTypes'
  BY <1>9, PressEffect DEF KeyTypes, Untouched, Redraws, Reads, CommandGoes, Keyed, SameTarget
<1>10. ASSUME NEW p \in Pages, PressedSince(p) PROVE KeyTypes'
  BY <1>10, LookEffect DEF KeyTypes, Untouched, Redraws, Reads, CommandGoes, Keyed, SameTarget
<1>11. ASSUME NEW p \in Pages, PressKeys(p) \/ Recheck(p) PROVE KeyTypes'
  <2>1. cmd[p].of \in Targets /\ pane[cmd[p].of].dialog \in Nat
    BY DEF KeyTypes, CommandRecord, Pane
  <2>2. answered' \in [Targets -> SUBSET Nat]
    BY <1>11, <2>1, KeysEffect DEF KeyTypes, Keyed
  <2> QED BY <1>11, <2>2, KeysEffect DEF KeyTypes, Redraws, CommandGoes, Keyed
<1>12. ASSUME NEW p \in Pages, PressAgain(p) PROVE KeyTypes'
  BY <1>12, AgainEffect DEF KeyTypes, Untouched, Redraws, Reads, CommandGoes, Keyed, SameTarget
<1>13. ASSUME NEW p \in Pages, NotePress(p) PROVE KeyTypes'
  BY <1>13, NoteEffect DEF KeyTypes, Untouched, Redraws, Reads, CommandGoes, Keyed, SameTarget
<1>14. ASSUME NEW p \in Pages, CommandKilled(p) PROVE KeyTypes'
  BY <1>14, KilledEffect DEF KeyTypes, Untouched, Redraws, Reads, CommandGoes, Keyed, SameTarget
<1>15. CASE UNCHANGED bvars
  BY <1>15 DEF bvars, bfleet, KeyTypes, Untouched, Redraws, Reads, CommandGoes, Keyed, SameTarget
<1> QED
  BY <1>1, <1>2, <1>3, <1>4, <1>5, <1>6, <1>7, <1>8, <1>9, <1>10, <1>11, <1>12, <1>13, <1>14,
     <1>15 DEF PageNext, Stream, Command

\* Every page keeps its fields.
LEMMA ShapesStep == PageInv /\ [PageNext]_bvars => Shapes'
<1> SUFFICES ASSUME PageInv, [PageNext]_bvars PROVE Shapes'
  OBVIOUS
<1> USE DEF PageInv
<1>1. ASSUME NEW t \in Targets, Stir(t) PROVE Shapes'
  BY <1>1, StirEffect DEF Shapes, Untouched, Redraws, Reads, CommandGoes, Keyed, SameTarget
<1>2. ASSUME NEW t \in Targets, Rows(t) PROVE Shapes'
  BY <1>2, RowsEffect DEF Shapes, Untouched, Redraws, Reads, CommandGoes, Keyed, SameTarget
<1>3. ASSUME NEW w \in Attempts, Signal(w) \/ Age(w) PROVE Shapes'
  BY <1>3, SignalEffect DEF Shapes, Untouched, Redraws, Reads, CommandGoes, Keyed, SameTarget
<1>4. ASSUME RecordWork \/ ServerRestart PROVE Shapes'
  BY <1>4, WorkEffect DEF Shapes, Untouched, Redraws, Reads, CommandGoes, Keyed, SameTarget
<1>5. ASSUME NEW p \in Pages, Connect(p) \/ ReadVersion(p) PROVE Shapes'
  BY <1>5, ConnectEffect DEF Shapes, Untouched, Redraws, Reads, CommandGoes, Keyed, SameTarget
<1>6. ASSUME NEW p \in Pages, ReadStatus(p) PROVE Shapes'
  BY <1>6, StatusEffect DEF Shapes, Untouched, Redraws, Reads, CommandGoes, Keyed, SameTarget
<1>7. ASSUME NEW p \in Pages, SendRegions(p) PROVE Shapes'
  BY <1>7, SendEffect DEF Shapes, Untouched, Redraws, Reads, CommandGoes, Keyed, SameTarget
<1>8. ASSUME NEW p \in Pages, DropStream(p) PROVE Shapes'
  BY <1>8, DropEffect DEF Shapes, Untouched, Redraws, Reads, CommandGoes, Keyed, SameTarget
<1>9. ASSUME NEW p \in Pages, Press(p) PROVE Shapes'
  BY <1>9, PressEffect DEF Shapes, Untouched, Redraws, Reads, CommandGoes, Keyed, SameTarget
<1>10. ASSUME NEW p \in Pages, PressedSince(p) PROVE Shapes'
  BY <1>10, LookEffect DEF Shapes, Untouched, Redraws, Reads, CommandGoes, Keyed, SameTarget
<1>11. ASSUME NEW p \in Pages, PressKeys(p) \/ Recheck(p) PROVE Shapes'
  BY <1>11, KeysEffect DEF Shapes, Untouched, Redraws, Reads, CommandGoes, Keyed, SameTarget
<1>12. ASSUME NEW p \in Pages, PressAgain(p) PROVE Shapes'
  BY <1>12, AgainEffect DEF Shapes, Untouched, Redraws, Reads, CommandGoes, Keyed, SameTarget
<1>13. ASSUME NEW p \in Pages, NotePress(p) PROVE Shapes'
  BY <1>13, NoteEffect DEF Shapes, Untouched, Redraws, Reads, CommandGoes, Keyed, SameTarget
<1>14. ASSUME NEW p \in Pages, CommandKilled(p) PROVE Shapes'
  BY <1>14, KilledEffect DEF Shapes, Untouched, Redraws, Reads, CommandGoes, Keyed, SameTarget
<1>15. CASE UNCHANGED bvars
  BY <1>15 DEF bvars, bfleet, Shapes, Untouched, Redraws, Reads, CommandGoes, Keyed, SameTarget
<1> QED
  BY <1>1, <1>2, <1>3, <1>4, <1>5, <1>6, <1>7, <1>8, <1>9, <1>10, <1>11, <1>12, <1>13, <1>14,
     <1>15 DEF PageNext, Stream, Command

\* A dialog that is new was not answered.
LEMMA DialogsStep == PageInv /\ [PageNext]_bvars => Dialogs'
<1> SUFFICES ASSUME PageInv, [PageNext]_bvars PROVE Dialogs'
  OBVIOUS
<1> USE DEF PageInv
<1>1. ASSUME NEW t \in Targets, Stir(t) PROVE Dialogs'
  BY <1>1, StirEffect DEF KeyTypes, Dialogs, Agent, Pane, Untouched, Redraws, Reads, CommandGoes,
     Keyed, SameTarget
<1>2. ASSUME NEW t \in Targets, Rows(t) PROVE Dialogs'
  BY <1>2, RowsEffect DEF KeyTypes, Dialogs, Agent, Pane, Untouched, Redraws, Reads, CommandGoes,
     Keyed, SameTarget
<1>3. ASSUME NEW w \in Attempts, Signal(w) \/ Age(w) PROVE Dialogs'
  BY <1>3, SignalEffect DEF KeyTypes, Dialogs, Agent, Pane, Untouched, Redraws, Reads, CommandGoes,
     Keyed, SameTarget
<1>4. ASSUME RecordWork \/ ServerRestart PROVE Dialogs'
  BY <1>4, WorkEffect DEF KeyTypes, Dialogs, Agent, Pane, Untouched, Redraws, Reads, CommandGoes,
     Keyed, SameTarget
<1>5. ASSUME NEW p \in Pages, Connect(p) \/ ReadVersion(p) PROVE Dialogs'
  BY <1>5, ConnectEffect DEF KeyTypes, Dialogs, Agent, Pane, Untouched, Redraws, Reads,
     CommandGoes, Keyed, SameTarget
<1>6. ASSUME NEW p \in Pages, ReadStatus(p) PROVE Dialogs'
  BY <1>6, StatusEffect DEF KeyTypes, Dialogs, Agent, Pane, Untouched, Redraws, Reads, CommandGoes,
     Keyed, SameTarget
<1>7. ASSUME NEW p \in Pages, SendRegions(p) PROVE Dialogs'
  BY <1>7, SendEffect DEF KeyTypes, Dialogs, Agent, Pane, Untouched, Redraws, Reads, CommandGoes,
     Keyed, SameTarget
<1>8. ASSUME NEW p \in Pages, DropStream(p) PROVE Dialogs'
  BY <1>8, DropEffect DEF KeyTypes, Dialogs, Agent, Pane, Untouched, Redraws, Reads, CommandGoes,
     Keyed, SameTarget
<1>9. ASSUME NEW p \in Pages, Press(p) PROVE Dialogs'
  BY <1>9, PressEffect DEF KeyTypes, Dialogs, Agent, Pane, Untouched, Redraws, Reads, CommandGoes,
     Keyed, SameTarget
<1>10. ASSUME NEW p \in Pages, PressedSince(p) PROVE Dialogs'
  BY <1>10, LookEffect DEF KeyTypes, Dialogs, Agent, Pane, Untouched, Redraws, Reads, CommandGoes,
     Keyed, SameTarget
<1>11. ASSUME NEW p \in Pages, PressKeys(p) \/ Recheck(p) PROVE Dialogs'
  <2>1. CASE UNCHANGED <<pane, answered>>
    BY <2>1 DEF Dialogs, Agent
  <2>2. CASE Keyed(p)
    <3> DEFINE t == cmd[p].of
               d == pane[t].dialog
    <3>1. t \in Targets /\ pane[t] \in Pane /\ d \in Nat /\ pane[t].revision \in Nat /\ d <= pane[t].revision
      BY DEF KeyTypes, CommandRecord, Pane, Dialogs
    <3>2. Redraws(t) /\ pane'[t].dialog \in {0, pane[t].revision + 1} /\ answered' = [answered EXCEPT ![t] = @ \cup {d}]
      BY <2>2 DEF Keyed
    <3> HIDE DEF t, d
    <3>3. answered'[t] = answered[t] \cup {d} /\ answered[t] \subseteq 0 .. pane[t].revision
      BY <3>1, <3>2 DEF KeyTypes, Dialogs
    <3>4. ASSUME NEW u \in Targets \ {t} PROVE pane'[u] = pane[u] /\ answered'[u] = answered[u]
      BY <3>2 DEF Redraws, KeyTypes
    <3>5. /\ pane'[t].dialog <= pane'[t].revision /\ (pane'[t].agent = "blocked" => pane'[t].dialog > 0)
          /\ answered'[t] \subseteq 0 .. pane'[t].revision
          /\ pane'[t].dialog > 0 => pane'[t].dialog \notin answered'[t]
      BY <3>1, <3>2, <3>3 DEF Redraws
    <3> QED BY <3>4, <3>5 DEF Dialogs, Agent
  <2> QED BY <1>11, <2>1, <2>2, KeysEffect
<1>12. ASSUME NEW p \in Pages, PressAgain(p) PROVE Dialogs'
  BY <1>12, AgainEffect DEF KeyTypes, Dialogs, Agent, Pane, Untouched, Redraws, Reads, CommandGoes,
     Keyed, SameTarget
<1>13. ASSUME NEW p \in Pages, NotePress(p) PROVE Dialogs'
  BY <1>13, NoteEffect DEF KeyTypes, Dialogs, Agent, Pane, Untouched, Redraws, Reads, CommandGoes,
     Keyed, SameTarget
<1>14. ASSUME NEW p \in Pages, CommandKilled(p) PROVE Dialogs'
  BY <1>14, KilledEffect DEF KeyTypes, Dialogs, Agent, Pane, Untouched, Redraws, Reads,
     CommandGoes, Keyed, SameTarget
<1>15. CASE UNCHANGED bvars
  BY <1>15 DEF bvars, bfleet, KeyTypes, Dialogs, Agent, Pane, Untouched, Redraws, Reads,
     CommandGoes, Keyed, SameTarget
<1> QED
  BY <1>1, <1>2, <1>3, <1>4, <1>5, <1>6, <1>7, <1>8, <1>9, <1>10, <1>11, <1>12, <1>13, <1>14,
     <1>15 DEF PageNext, Stream, Command

\* No two commands press keys on one attempt.
LEMMA OnePressesStep == PageInv /\ [PageNext]_bvars => OnePresses'
<1> SUFFICES ASSUME PageInv, [PageNext]_bvars PROVE OnePresses'
  OBVIOUS
<1> USE DEF PageInv
<1>1. ASSUME NEW t \in Targets, Stir(t) PROVE OnePresses'
  BY <1>1, StirEffect DEF OnePresses, Pressing, Untouched, Redraws, Reads, CommandGoes, Keyed,
     SameTarget
<1>2. ASSUME NEW t \in Targets, Rows(t) PROVE OnePresses'
  BY <1>2, RowsEffect DEF OnePresses, Pressing, Untouched, Redraws, Reads, CommandGoes, Keyed,
     SameTarget
<1>3. ASSUME NEW w \in Attempts, Signal(w) \/ Age(w) PROVE OnePresses'
  BY <1>3, SignalEffect DEF OnePresses, Pressing, Untouched, Redraws, Reads, CommandGoes, Keyed,
     SameTarget
<1>4. ASSUME RecordWork \/ ServerRestart PROVE OnePresses'
  BY <1>4, WorkEffect DEF OnePresses, Pressing, Untouched, Redraws, Reads, CommandGoes, Keyed,
     SameTarget
<1>5. ASSUME NEW p \in Pages, Connect(p) \/ ReadVersion(p) PROVE OnePresses'
  BY <1>5, ConnectEffect DEF OnePresses, Pressing, Untouched, Redraws, Reads, CommandGoes, Keyed,
     SameTarget
<1>6. ASSUME NEW p \in Pages, ReadStatus(p) PROVE OnePresses'
  BY <1>6, StatusEffect DEF OnePresses, Pressing, Untouched, Redraws, Reads, CommandGoes, Keyed,
     SameTarget
<1>7. ASSUME NEW p \in Pages, SendRegions(p) PROVE OnePresses'
  BY <1>7, SendEffect DEF OnePresses, Pressing, Untouched, Redraws, Reads, CommandGoes, Keyed,
     SameTarget
<1>8. ASSUME NEW p \in Pages, DropStream(p) PROVE OnePresses'
  BY <1>8, DropEffect DEF OnePresses, Pressing, Untouched, Redraws, Reads, CommandGoes, Keyed,
     SameTarget
<1>9. ASSUME NEW p \in Pages, Press(p) PROVE OnePresses'
  BY <1>9, PressEffect DEF OnePresses, Pressing, Untouched, Redraws, Reads, CommandGoes, Keyed,
     SameTarget
<1>10. ASSUME NEW p \in Pages, PressedSince(p) PROVE OnePresses'
  BY <1>10, LookEffect DEF OnePresses, Pressing, Untouched, Redraws, Reads, CommandGoes, Keyed,
     SameTarget
<1>11. ASSUME NEW p \in Pages, PressKeys(p) \/ Recheck(p) PROVE OnePresses'
  BY <1>11, KeysEffect DEF OnePresses, Pressing, Untouched, Redraws, Reads, CommandGoes, Keyed,
     SameTarget
<1>12. ASSUME NEW p \in Pages, PressAgain(p) PROVE OnePresses'
  BY <1>12, AgainEffect DEF OnePresses, Pressing, Untouched, Redraws, Reads, CommandGoes, Keyed,
     SameTarget
<1>13. ASSUME NEW p \in Pages, NotePress(p) PROVE OnePresses'
  BY <1>13, NoteEffect DEF OnePresses, Pressing, Untouched, Redraws, Reads, CommandGoes, Keyed,
     SameTarget
<1>14. ASSUME NEW p \in Pages, CommandKilled(p) PROVE OnePresses'
  BY <1>14, KilledEffect DEF OnePresses, Pressing, Untouched, Redraws, Reads, CommandGoes, Keyed,
     SameTarget
<1>15. CASE UNCHANGED bvars
  BY <1>15 DEF bvars, bfleet, OnePresses, Pressing, Untouched, Redraws, Reads, CommandGoes, Keyed,
     SameTarget
<1> QED
  BY <1>1, <1>2, <1>3, <1>4, <1>5, <1>6, <1>7, <1>8, <1>9, <1>10, <1>11, <1>12, <1>13, <1>14,
     <1>15 DEF PageNext, Stream, Command

\* What was pressed and noted is not forgotten.
Later ==
  /\ seq <= seq' /\ losses <= losses'
  /\ \A t \in Targets : /\ pressed[t] <= pressed'[t]
                        /\ losses' = 0 => Noted(t)' \subseteq Noted(t) \/ seq < pressed'[t]

\* A press that lands is not recorded yet: no more dialogs are noted than were.
LEMMA NotedFewer ==
  ASSUME NEW p \in Pages, cmd[p].at # "note", \A q \in Pages \ {p} : cmd'[q] = cmd[q], NEW t \in Targets,
         \A d \in answered'[t] \ answered[t] : cmd'[p].of = t /\ cmd'[p].at = "note" /\ cmd'[p].dialog = d
  PROVE  Noted(t)' \subseteq Noted(t)
<1> SUFFICES ASSUME NEW d \in Noted(t)' PROVE d \in Noted(t)
  OBVIOUS
<1>1. d \in answered'[t] /\ \A q \in Pages : ~(cmd'[q].of = t /\ cmd'[q].at = "note" /\ cmd'[q].dialog = d)
  BY DEF Noted
<1>2. d \in answered[t]
  BY <1>1
<1>3. \A q \in Pages : ~(cmd[q].of = t /\ cmd[q].at = "note" /\ cmd[q].dialog = d)
  BY <1>1
<1> QED BY <1>2, <1>3 DEF Noted

\* A step that is not about keys forgets nothing.
LEMMA UntouchedLater == ASSUME KeyTypes, Untouched PROVE Later
  BY DEF KeyTypes, Untouched, Later, Noted

\* Nor does one of a command that is not at its note.
LEMMA GoesLater ==
  ASSUME KeyTypes, NEW p \in Pages, cmd[p].at # "note", \A q \in Pages \ {p} : cmd'[q] = cmd[q],
         UNCHANGED <<seq, pressed, losses>>, UNCHANGED answered \/ Keyed(p)
  PROVE  Later
<1>1. ASSUME NEW t \in Targets PROVE Noted(t)' \subseteq Noted(t)
  <2>1. CASE UNCHANGED answered
    BY <2>1, NotedFewer
  <2>2. CASE Keyed(p)
    <3>1. \A d \in answered'[t] \ answered[t] : cmd'[p].of = t /\ cmd'[p].at = "note" /\ cmd'[p].dialog = d
      BY <2>2 DEF Keyed, CommandGoes, KeyTypes
    <3> QED BY <3>1, NotedFewer
  <2> QED BY <2>1, <2>2
<1>2. seq <= seq' /\ losses <= losses' /\ \A t \in Targets : pressed[t] <= pressed'[t]
  BY DEF KeyTypes
<1> QED BY <1>1, <1>2 DEF Later

\* No step forgets it, unless a press is killed before it is noted.
LEMMA LaterStep == PageInv /\ [PageNext]_bvars => Later
<1> SUFFICES ASSUME PageInv, [PageNext]_bvars PROVE Later
  OBVIOUS
<1> USE DEF PageInv
<1>1. ASSUME NEW t \in Targets, Stir(t) PROVE Later
  BY <1>1, StirEffect, UntouchedLater
<1>2. ASSUME NEW t \in Targets, Rows(t) PROVE Later
  BY <1>2, RowsEffect, UntouchedLater
<1>3. ASSUME NEW w \in Attempts, Signal(w) \/ Age(w) PROVE Later
  BY <1>3, SignalEffect, UntouchedLater
<1>4. ASSUME RecordWork \/ ServerRestart PROVE Later
  BY <1>4, WorkEffect, UntouchedLater
<1>5. ASSUME UNCHANGED <<seq, pressed, cmd, answered>>, losses' \in {losses, losses + 1} PROVE Later
  BY <1>5 DEF Later, Noted, KeyTypes
<1>6. ASSUME NEW p \in Pages, Connect(p) \/ ReadVersion(p) PROVE Later
  BY <1>5, <1>6, ConnectEffect
<1>7. ASSUME NEW p \in Pages, ReadStatus(p) PROVE Later
  BY <1>5, <1>7, StatusEffect
<1>8. ASSUME NEW p \in Pages, SendRegions(p) PROVE Later
  BY <1>5, <1>8, SendEffect
<1>9. ASSUME NEW p \in Pages, DropStream(p) PROVE Later
  BY <1>5, <1>9, DropEffect
<1>10. ASSUME NEW p \in Pages, Press(p) PROVE Later
  BY <1>10, PressEffect, GoesLater DEF CommandGoes
<1>11. ASSUME NEW p \in Pages, PressedSince(p) PROVE Later
  BY <1>11, LookEffect, GoesLater DEF CommandGoes
<1>12. ASSUME NEW p \in Pages, PressKeys(p) \/ Recheck(p) PROVE Later
  BY <1>12, KeysEffect, GoesLater DEF CommandGoes, Keyed
<1>13. ASSUME NEW p \in Pages, PressAgain(p) PROVE Later
  BY <1>13, AgainEffect, GoesLater DEF CommandGoes
<1>14. ASSUME NEW p \in Pages, NotePress(p) PROVE Later
  <2> DEFINE t == cmd[p].of
  <2>1. t \in Targets /\ seq' = seq + 1 /\ pressed' = [pressed EXCEPT ![t] = seq + 1] /\ UNCHANGED <<losses, answered>>
    BY <1>14, NoteEffect
  <2>2. \A q \in Pages \ {p} : cmd'[q] = cmd[q]
    BY <1>14, NoteEffect DEF CommandGoes
  <2>3. \A u \in Targets \ {t} : Noted(u)' \subseteq Noted(u)
    BY <2>1, <2>2 DEF Noted
  <2>4. seq < pressed'[t] /\ \A u \in Targets : pressed[u] <= pressed'[u]
    BY <2>1 DEF KeyTypes
  <2> HIDE DEF t
  <2> QED BY <2>1, <2>3, <2>4 DEF Later, KeyTypes
<1>15. ASSUME NEW p \in Pages, CommandKilled(p) PROVE Later
  BY <1>15, KilledEffect DEF Later, KeyTypes
<1>16. CASE UNCHANGED bvars
  BY <1>5, <1>16 DEF bvars, bfleet
<1> QED
  BY <1>1, <1>2, <1>3, <1>4, <1>6, <1>7, <1>8, <1>9, <1>10, <1>11, <1>12, <1>13, <1>14, <1>15,
     <1>16 DEF PageNext, Stream, Command

\* What is told of a screen stays so.
LEMMA ToldLater ==
  ASSUME KeyTypes, KeyTypes', Later, NEW s, NEW t \in Targets, s.of = t, s.after \in Nat, Tells(s)
  PROVE  Tells(s)'
<1>1. seq \in Nat /\ seq' \in Nat /\ losses \in Nat /\ losses' \in Nat /\ pressed[t] \in Nat /\ pressed'[t] \in Nat
  BY DEF KeyTypes
<1>2. s.after <= seq /\ (~s.raced /\ losses = 0 /\ s.dialog \in Noted(t) => s.after < pressed[t])
  BY DEF Tells
<1>3. /\ seq <= seq' /\ losses <= losses' /\ pressed[t] <= pressed'[t]
      /\ losses' = 0 => Noted(t)' \subseteq Noted(t) \/ seq < pressed'[t]
  BY DEF Later
<1> HIDE DEF Noted
<1>4. s.after <= seq' /\ (~s.raced /\ losses' = 0 /\ s.dialog \in Noted(t)' => s.after < pressed'[t])
  <2>1. s.after <= seq' /\ (losses' = 0 => losses = 0)
    BY <1>1, <1>2, <1>3
  <2>2. ASSUME ~s.raced, losses' = 0, s.dialog \in Noted(t)' PROVE s.after < pressed'[t]
    <3>1. CASE Noted(t)' \subseteq Noted(t)
      BY <1>1, <1>2, <1>3, <2>1, <2>2, <3>1
    <3>2. CASE seq < pressed'[t]
      BY <1>1, <1>2, <3>2
    <3> QED BY <1>3, <2>2, <3>1, <3>2
  <2> QED BY <2>1, <2>2
<1> QED BY <1>4 DEF Tells

\* The other pages know what they knew.
LEMMA ReadsKnown ==
  ASSUME Shapes, NEW p \in Pages, NEW S, Reads(p, S), NEW q \in Pages, NEW s \in Known(q)'
  PROVE  s \in Known(q) \/ s \in S
<1>1. CASE q = p
  BY <1>1 DEF Reads
<1>2. CASE q # p
  <2>1. page'[q] = page[q]
    BY <1>2 DEF Reads, Shapes
  <2> QED BY <2>1 DEF Known
<1> QED BY <1>1, <1>2

\* What a page knows after the step could be told before it.
WereTold == \A p \in Pages : \A s \in Known(p)' : Tells(s)

\* Every screen that a step adds can be told.
LEMMA WereToldStep == PageInv /\ [PageNext]_bvars => WereTold
<1> SUFFICES ASSUME PageInv, [PageNext]_bvars PROVE WereTold
  OBVIOUS
<1> USE DEF PageInv
<1>1. ASSUME NEW t \in Targets, Stir(t) PROVE WereTold
  BY <1>1, StirEffect, ScreenTold, SentTold DEF WereTold, Known, KnownTold, Reads, Untouched
<1>2. ASSUME NEW t \in Targets, Rows(t) PROVE WereTold
  BY <1>2, RowsEffect, ScreenTold, SentTold DEF WereTold, Known, KnownTold, Reads, Untouched
<1>3. ASSUME NEW w \in Attempts, Signal(w) \/ Age(w) PROVE WereTold
  BY <1>3, SignalEffect, ScreenTold, SentTold DEF WereTold, Known, KnownTold, Reads, Untouched
<1>4. ASSUME RecordWork \/ ServerRestart PROVE WereTold
  BY <1>4, WorkEffect, ScreenTold, SentTold DEF WereTold, Known, KnownTold, Reads, Untouched
<1>5. ASSUME NEW p \in Pages, Connect(p) \/ ReadVersion(p) PROVE WereTold
  <2>1. Reads(p, {})
    BY <1>5, ConnectEffect
  <2> QED BY <2>1, ReadsKnown DEF WereTold, KnownTold
<1>6. ASSUME NEW p \in Pages, ReadStatus(p) PROVE WereTold
  <2>1. Reads(p, {Screen(t) : t \in Screens})
    BY <1>6, StatusEffect
  <2> QED BY <2>1, ReadsKnown, ScreenTold DEF WereTold, KnownTold
<1>7. ASSUME NEW p \in Pages, SendRegions(p) PROVE WereTold
  <2>1. Reads(p, Sent(p))
    BY <1>7, SendEffect
  <2> QED BY <2>1, ReadsKnown, SentTold DEF WereTold, KnownTold
<1>8. ASSUME NEW p \in Pages, DropStream(p) PROVE WereTold
  <2>1. Reads(p, {})
    BY <1>8, DropEffect
  <2> QED BY <2>1, ReadsKnown DEF WereTold, KnownTold
<1>9. ASSUME NEW p \in Pages, Press(p) PROVE WereTold
  <2>1. Reads(p, {})
    BY <1>9, PressEffect
  <2> QED BY <2>1, ReadsKnown DEF WereTold, KnownTold
<1>10. ASSUME NEW p \in Pages, PressedSince(p) PROVE WereTold
  BY <1>10, LookEffect, ScreenTold, SentTold DEF WereTold, Known, KnownTold, Reads, Untouched
<1>11. ASSUME NEW p \in Pages, PressKeys(p) \/ Recheck(p) PROVE WereTold
  BY <1>11, KeysEffect, ScreenTold, SentTold DEF WereTold, Known, KnownTold, Reads, Untouched
<1>12. ASSUME NEW p \in Pages, PressAgain(p) PROVE WereTold
  BY <1>12, AgainEffect, ScreenTold, SentTold DEF WereTold, Known, KnownTold, Reads, Untouched
<1>13. ASSUME NEW p \in Pages, NotePress(p) PROVE WereTold
  BY <1>13, NoteEffect, ScreenTold, SentTold DEF WereTold, Known, KnownTold, Reads, Untouched
<1>14. ASSUME NEW p \in Pages, CommandKilled(p) PROVE WereTold
  BY <1>14, KilledEffect, ScreenTold, SentTold DEF WereTold, Known, KnownTold, Reads, Untouched
<1>15. CASE UNCHANGED bvars
  BY <1>15 DEF bvars, bfleet, WereTold, Known, KnownTold, Reads, Untouched
<1> QED
  BY <1>1, <1>2, <1>3, <1>4, <1>5, <1>6, <1>7, <1>8, <1>9, <1>10, <1>11, <1>12, <1>13, <1>14,
     <1>15 DEF PageNext, Stream, Command

\* What a page shows or is about to show can be told.
LEMMA KnownToldStep == PageInv /\ [PageNext]_bvars => KnownTold'
<1> SUFFICES ASSUME PageInv, [PageNext]_bvars, NEW p \in Pages, NEW s \in Known(p)' PROVE Tells(s)'
  BY DEF KnownTold
<1>1. KeyTypes /\ KeyTypes' /\ Later /\ Tells(s)
  BY KeyTypesStep, LaterStep, WereToldStep DEF WereTold, PageInv
<1>2. s \in ScreenRecord
  BY ShapesStep DEF Shapes, PageShaped, Shaped, Known
<1>3. s.of \in Targets /\ s.after \in Nat
  BY <1>2 DEF ScreenRecord
<1> QED BY <1>1, <1>3, ToldLater

\* The screen of a command that is asked was told to its page.
WasTold == \A p \in Pages : cmd'[p].at = "asked" => Tells(cmd'[p])

LEMMA WasToldStep == PageInv /\ [PageNext]_bvars => WasTold
<1> SUFFICES ASSUME PageInv, [PageNext]_bvars PROVE WasTold
  OBVIOUS
<1> USE DEF PageInv
<1>1. ASSUME NEW t \in Targets, Stir(t) PROVE WasTold
  BY <1>1, StirEffect DEF WasTold, AskedTold, KnownTold, Tells, Untouched, CommandGoes, Keyed,
     SameTarget
<1>2. ASSUME NEW t \in Targets, Rows(t) PROVE WasTold
  BY <1>2, RowsEffect DEF WasTold, AskedTold, KnownTold, Tells, Untouched, CommandGoes, Keyed,
     SameTarget
<1>3. ASSUME NEW w \in Attempts, Signal(w) \/ Age(w) PROVE WasTold
  BY <1>3, SignalEffect DEF WasTold, AskedTold, KnownTold, Tells, Untouched, CommandGoes, Keyed,
     SameTarget
<1>4. ASSUME RecordWork \/ ServerRestart PROVE WasTold
  BY <1>4, WorkEffect DEF WasTold, AskedTold, KnownTold, Tells, Untouched, CommandGoes, Keyed,
     SameTarget
<1>5. ASSUME NEW p \in Pages, Connect(p) \/ ReadVersion(p) PROVE WasTold
  BY <1>5, ConnectEffect DEF WasTold, AskedTold, KnownTold, Tells, Untouched, CommandGoes, Keyed,
     SameTarget
<1>6. ASSUME NEW p \in Pages, ReadStatus(p) PROVE WasTold
  BY <1>6, StatusEffect DEF WasTold, AskedTold, KnownTold, Tells, Untouched, CommandGoes, Keyed,
     SameTarget
<1>7. ASSUME NEW p \in Pages, SendRegions(p) PROVE WasTold
  BY <1>7, SendEffect DEF WasTold, AskedTold, KnownTold, Tells, Untouched, CommandGoes, Keyed,
     SameTarget
<1>8. ASSUME NEW p \in Pages, DropStream(p) PROVE WasTold
  BY <1>8, DropEffect DEF WasTold, AskedTold, KnownTold, Tells, Untouched, CommandGoes, Keyed,
     SameTarget
<1>9. ASSUME NEW p \in Pages, Press(p) PROVE WasTold
  BY <1>9, PressEffect DEF WasTold, AskedTold, KnownTold, Tells, Untouched, CommandGoes, Keyed,
     SameTarget
<1>10. ASSUME NEW p \in Pages, PressedSince(p) PROVE WasTold
  BY <1>10, LookEffect DEF WasTold, AskedTold, KnownTold, Tells, Untouched, CommandGoes, Keyed,
     SameTarget
<1>11. ASSUME NEW p \in Pages, PressKeys(p) \/ Recheck(p) PROVE WasTold
  BY <1>11, KeysEffect DEF WasTold, AskedTold, KnownTold, Tells, Untouched, CommandGoes, Keyed,
     SameTarget
<1>12. ASSUME NEW p \in Pages, PressAgain(p) PROVE WasTold
  BY <1>12, AgainEffect DEF WasTold, AskedTold, KnownTold, Tells, Untouched, CommandGoes, Keyed,
     SameTarget
<1>13. ASSUME NEW p \in Pages, NotePress(p) PROVE WasTold
  BY <1>13, NoteEffect DEF WasTold, AskedTold, KnownTold, Tells, Untouched, CommandGoes, Keyed,
     SameTarget
<1>14. ASSUME NEW p \in Pages, CommandKilled(p) PROVE WasTold
  BY <1>14, KilledEffect DEF WasTold, AskedTold, KnownTold, Tells, Untouched, CommandGoes, Keyed,
     SameTarget
<1>15. CASE UNCHANGED bvars
  BY <1>15 DEF bvars, bfleet, WasTold, AskedTold, KnownTold, Tells, Untouched, CommandGoes, Keyed,
     SameTarget
<1> QED
  BY <1>1, <1>2, <1>3, <1>4, <1>5, <1>6, <1>7, <1>8, <1>9, <1>10, <1>11, <1>12, <1>13, <1>14,
     <1>15 DEF PageNext, Stream, Command

\* So does what a command was asked.
LEMMA AskedToldStep == PageInv /\ [PageNext]_bvars => AskedTold'
<1> SUFFICES ASSUME PageInv, [PageNext]_bvars, NEW p \in Pages, cmd'[p].at = "asked" PROVE Tells(cmd[p])'
  BY DEF AskedTold
<1>1. KeyTypes /\ KeyTypes' /\ Later /\ Tells(cmd'[p])
  BY KeyTypesStep, LaterStep, WasToldStep DEF WasTold, PageInv
<1>2. cmd'[p].of \in Targets /\ cmd'[p].after \in Nat
  BY <1>1 DEF KeyTypes, CommandRecord
<1>3. ASSUME NEW s, s = cmd'[p] PROVE Tells(s)'
  BY <1>1, <1>2, <1>3, ToldLater
<1> QED BY <1>3 DEF Tells

\* A command that takes the lock of an attempt goes on for a dialog that was not answered.
LEMMA UnansweredStep == PageInv /\ [PageNext]_bvars => Unanswered'
<1> SUFFICES ASSUME PageInv, [PageNext]_bvars PROVE Unanswered'
  OBVIOUS
<1> USE DEF PageInv
<1>1. ASSUME NEW t \in Targets, Stir(t) PROVE Unanswered'
  BY <1>1, StirEffect DEF Unanswered, OnePresses, Pressing, KeyTypes, CommandRecord, Untouched,
     CommandGoes, Keyed, SameTarget, Reads
<1>2. ASSUME NEW t \in Targets, Rows(t) PROVE Unanswered'
  BY <1>2, RowsEffect DEF Unanswered, OnePresses, Pressing, KeyTypes, CommandRecord, Untouched,
     CommandGoes, Keyed, SameTarget, Reads
<1>3. ASSUME NEW w \in Attempts, Signal(w) \/ Age(w) PROVE Unanswered'
  BY <1>3, SignalEffect DEF Unanswered, OnePresses, Pressing, KeyTypes, CommandRecord, Untouched,
     CommandGoes, Keyed, SameTarget, Reads
<1>4. ASSUME RecordWork \/ ServerRestart PROVE Unanswered'
  BY <1>4, WorkEffect DEF Unanswered, OnePresses, Pressing, KeyTypes, CommandRecord, Untouched,
     CommandGoes, Keyed, SameTarget, Reads
<1>5. ASSUME NEW p \in Pages, Connect(p) \/ ReadVersion(p) PROVE Unanswered'
  BY <1>5, ConnectEffect DEF Unanswered, OnePresses, Pressing, KeyTypes, CommandRecord, Untouched,
     CommandGoes, Keyed, SameTarget, Reads
<1>6. ASSUME NEW p \in Pages, ReadStatus(p) PROVE Unanswered'
  BY <1>6, StatusEffect DEF Unanswered, OnePresses, Pressing, KeyTypes, CommandRecord, Untouched,
     CommandGoes, Keyed, SameTarget, Reads
<1>7. ASSUME NEW p \in Pages, SendRegions(p) PROVE Unanswered'
  BY <1>7, SendEffect DEF Unanswered, OnePresses, Pressing, KeyTypes, CommandRecord, Untouched,
     CommandGoes, Keyed, SameTarget, Reads
<1>8. ASSUME NEW p \in Pages, DropStream(p) PROVE Unanswered'
  BY <1>8, DropEffect DEF Unanswered, OnePresses, Pressing, KeyTypes, CommandRecord, Untouched,
     CommandGoes, Keyed, SameTarget, Reads
<1>9. ASSUME NEW p \in Pages, Press(p) PROVE Unanswered'
  BY <1>9, PressEffect DEF Unanswered, OnePresses, Pressing, KeyTypes, CommandRecord, Untouched,
     CommandGoes, Keyed, SameTarget, Reads
<1>10. ASSUME NEW p \in Pages, PressedSince(p) PROVE Unanswered'
  <2>1. cmd[p] \in CommandRecord /\ pressed[cmd[p].of] \in Nat /\ pressed[cmd[p].of] <= seq
    BY DEF KeyTypes, CommandRecord
  <2>2. cmd[p].at = "asked" /\ Tells(cmd[p])
    BY <1>10, LookEffect DEF AskedTold
  <2>3. CASE CommandGoes(p, {"idle"})
    BY <1>10, <2>3, LookEffect DEF CommandGoes, Unanswered
  <2>4. CASE /\ CommandGoes(p, {"keys"}) /\ SameTarget(p) /\ pressed[cmd[p].of] <= cmd[p].after
             /\ cmd[p].of \in Attempts => \A q \in Pages : cmd[q].at \in {"idle", "asked"} \/ cmd[q].of # cmd[p].of
    <3>1. cmd[p].of \in Attempts => Noted(cmd[p].of) = answered[cmd[p].of]
      BY <2>4 DEF Noted
    <3>2. cmd[p].of \in Attempts /\ ~cmd[p].raced /\ losses = 0 => cmd[p].dialog \notin answered[cmd[p].of]
      BY <2>1, <2>2, <2>4, <3>1 DEF Tells, CommandRecord
    <3> QED BY <1>10, <2>4, <3>2, LookEffect DEF CommandGoes, SameTarget, Unanswered
  <2> QED BY <1>10, <2>3, <2>4, LookEffect
<1>11. ASSUME NEW p \in Pages, PressKeys(p) \/ Recheck(p) PROVE Unanswered'
  BY <1>11, KeysEffect DEF Unanswered, OnePresses, Pressing, KeyTypes, CommandRecord, Untouched,
     CommandGoes, Keyed, SameTarget, Reads
<1>12. ASSUME NEW p \in Pages, PressAgain(p) PROVE Unanswered'
  BY <1>12, AgainEffect DEF Unanswered, OnePresses, Pressing, KeyTypes, CommandRecord, Untouched,
     CommandGoes, Keyed, SameTarget, Reads
<1>13. ASSUME NEW p \in Pages, NotePress(p) PROVE Unanswered'
  BY <1>13, NoteEffect DEF Unanswered, OnePresses, Pressing, KeyTypes, CommandRecord, Untouched,
     CommandGoes, Keyed, SameTarget, Reads
<1>14. ASSUME NEW p \in Pages, CommandKilled(p) PROVE Unanswered'
  BY <1>14, KilledEffect DEF Unanswered, OnePresses, Pressing, KeyTypes, CommandRecord, Untouched,
     CommandGoes, Keyed, SameTarget, Reads
<1>15. CASE UNCHANGED bvars
  BY <1>15 DEF bvars, bfleet, Unanswered, OnePresses, Pressing, KeyTypes, CommandRecord, Untouched,
     CommandGoes, Keyed, SameTarget, Reads
<1> QED
  BY <1>1, <1>2, <1>3, <1>4, <1>5, <1>6, <1>7, <1>8, <1>9, <1>10, <1>11, <1>12, <1>13, <1>14,
     <1>15 DEF PageNext, Stream, Command

\* The inductive invariant of BoardPage holds at the start and after every step.
LEMMA PageInitInv == PageInit => PageInv
<1> SUFFICES ASSUME PageInit PROVE PageInv
  OBVIOUS
<1>1. RowTypes
  BY SupTarget DEF PageInit, RowTypes, SupRows, WorkerRows, Kinds
<1>2. KeyTypes
  BY NoCommandType DEF PageInit, KeyTypes, Pane, Agents
<1>3. Shaped(NoPage) /\ NoPage.screens = {}
  BY DEF Shaped, NoPage
<1>4. PageShaped(Closed) /\ Closed.draft = NoPage /\ Closed.shows = NoPage
  BY <1>3 DEF PageShaped, Closed
<1>5. page = [p \in Pages |-> Closed]
  BY DEF PageInit
<1>6. Shapes
  BY <1>4, <1>5 DEF Shapes
<1>7. KnownTold
  BY <1>3, <1>4, <1>5 DEF KnownTold, Known
<1>8. Dialogs
  BY DEF PageInit, Dialogs, Agent
<1>9. \A p \in Pages : cmd[p].at = "idle"
  BY NoCommandType DEF PageInit
<1>10. OnePresses /\ AskedTold /\ Unanswered
  BY <1>9 DEF OnePresses, Pressing, AskedTold, Unanswered
<1> QED BY <1>1, <1>2, <1>6, <1>7, <1>8, <1>10 DEF PageInv

LEMMA PageInvStep == PageInv /\ [PageNext]_bvars => PageInv'
  BY RowTypesStep, KeyTypesStep, ShapesStep, DialogsStep, OnePressesStep, KnownToldStep,
     AskedToldStep, UnansweredStep DEF PageInv

LEMMA AlwaysPageInv == PageSpec => []PageInv
  BY PageInitInv, PageInvStep, PTL DEF PageSpec

LEMMA PageInvTypes == PageInv => PageTypeOK
<1> SUFFICES ASSUME PageInv PROVE PageTypeOK
  OBVIOUS
<1>1. rows["sup"] \in SupRows /\ \A w \in Attempts : rows[w] \in WorkerRows /\ signal[w].kind \in Kinds
  BY DEF PageInv, RowTypes
<1>2. \A t \in Targets : pane[t].agent \in {"working", "idle", "limited", "blocked"} /\ pressed[t] \in 0 .. seq
  BY DEF PageInv, KeyTypes, Pane, Agents
<1>3. \A p \in Pages : /\ page[p].at \in {"closed", "tick", "read", "queue"}
                       /\ cmd[p].at \in {"idle", "asked", "keys", "again", "recheck", "note"}
  BY DEF PageInv, Shapes, PageShaped, KeyTypes, CommandRecord, CommandAts
<1> QED BY <1>1, <1>2, <1>3 DEF PageTypeOK

\* What the pages, their commands and the fleet hold has its type, and no key press is newer than the newest event.
THEOREM PageTyped == PageSpec => []PageTypeOK
  BY AlwaysPageInv, PageInvTypes, PTL

\* Only the look itself gets a command from its start to the keys, and finds no later press.
LEMMA LookStep ==
  ASSUME PageInv, [PageNext]_bvars, NEW p \in Pages, NEW t \in Targets, Looks(p, t)
  PROVE  pressed[t] <= cmd[p].after
<1> USE DEF PageInv
<1>1. cmd[p].of = t /\ cmd[p].at = "asked" /\ cmd'[p].at = "keys"
  BY DEF Looks
<1>2. ASSUME NEW u \in Targets, Stir(u) \/ Rows(u) PROVE FALSE
  BY <1>1, <1>2, StirEffect, RowsEffect DEF Untouched
<1>3. ASSUME NEW w \in Attempts, Signal(w) \/ Age(w) PROVE FALSE
  BY <1>1, <1>3, SignalEffect DEF Untouched
<1>4. ASSUME RecordWork \/ ServerRestart PROVE FALSE
  BY <1>1, <1>4, WorkEffect DEF Untouched
<1>5. ASSUME NEW q \in Pages, Stream(q) \/ DropStream(q) PROVE FALSE
  BY <1>1, <1>5, ConnectEffect, StatusEffect, SendEffect, DropEffect DEF Stream
<1>6. ASSUME NEW q \in Pages, Press(q) \/ PressKeys(q) \/ Recheck(q) PROVE FALSE
  BY <1>1, <1>6, PressEffect, KeysEffect DEF CommandGoes, Keyed
<1>7. ASSUME NEW q \in Pages, PressAgain(q) \/ NotePress(q) \/ CommandKilled(q) PROVE FALSE
  BY <1>1, <1>7, AgainEffect, NoteEffect, KilledEffect DEF CommandGoes
<1>8. ASSUME NEW q \in Pages, PressedSince(q) PROVE pressed[t] <= cmd[p].after
  BY <1>1, <1>8, LookEffect DEF CommandGoes
<1>9. CASE UNCHANGED bvars
  BY <1>1, <1>9 DEF bvars
<1> QED BY <1>2, <1>3, <1>4, <1>5, <1>6, <1>7, <1>8, <1>9 DEF PageNext, Command

\* What a step does that passes a look, and what a press that lands does.
PressedOnce ==
  \A p \in Pages, t \in Targets :
    ~cmd[p].raced /\ losses = 0 =>
      /\ Looks(p, t) => cmd[p].dialog \notin Noted(t)
      /\ Lands(p, t) /\ t \in Attempts => pane[t].dialog = cmd[p].dialog \/ cmd[p].dialog \notin answered[t]

\* The flag --after, for any number of browsers that press keys on the same screens: a press is refused once the press
\* that answered its dialog is recorded, also on the next dialog with the same text; and on an attempt, whose lock is
\* held from the look to the record, it never lands after the dialog its page showed was answered
\* (cli/supervisor.go keys, cli/attempt_input.go keys).  Nothing more is claimed of the supervisor, which has no lock.
THEOREM PressesOnce == PageSpec => AnswersOnce
<1>1. PageInv /\ [PageNext]_bvars => PressedOnce
  <2> SUFFICES ASSUME PageInv, [PageNext]_bvars, NEW p \in Pages, NEW t \in Targets, ~cmd[p].raced, losses = 0
               PROVE  /\ Looks(p, t) => cmd[p].dialog \notin Noted(t)
                      /\ Lands(p, t) /\ t \in Attempts => pane[t].dialog = cmd[p].dialog \/ cmd[p].dialog \notin answered[t]
    BY DEF PressedOnce
  <2>1. ASSUME Looks(p, t) PROVE cmd[p].dialog \notin Noted(t)
    <3>1. pressed[t] <= cmd[p].after /\ cmd[p].of = t /\ Tells(cmd[p])
      BY <2>1, LookStep DEF Looks, PageInv, AskedTold
    <3>2. pressed[t] \in Nat /\ cmd[p].after \in Nat
      BY DEF PageInv, KeyTypes, CommandRecord
    <3> QED BY <3>1, <3>2 DEF Tells
  <2>2. ASSUME Lands(p, t), t \in Attempts PROVE cmd[p].dialog \notin answered[t]
    BY <2>2 DEF PageInv, Unanswered, Lands
  <2> QED BY <2>1, <2>2
<1>2. PageInv /\ [PageNext]_bvars => [PressedOnce]_bvars
  BY <1>1
<1>3. PageSpec => [][PressedOnce]_bvars
  BY <1>2, AlwaysPageInv, PTL DEF PageSpec
<1> QED BY <1>3 DEF AnswersOnce, PressedOnce

-----------------------------------------------------------------------------
(* WatcherKeeper: the inductive invariant *)

\* A watcher past the lock holds it, and nobody else does.
LockHolder ==
  \A w \in Watchers : process[w].at \in {"locked", "marked", "running", "asked"} => held = w

\* It has written its generation before anything else can tell it is there.
Marks ==
  \A w \in Watchers : process[w].at \in {"marked", "running", "asked"} => marked = process[w].gen

\* A running one is on file, or was exposed and its record is gone; and one that lives
\* and is on file had got there, so that a number on file is not given to a new process.
Pids ==
  \A w \in Watchers :
    /\ process[w].at = "running" => watchPid = w \/ (exposed = w /\ watchPid = Nobody)
    /\ watchPid = w /\ Alive(w) => process[w].at \in {"running", "asked"}

\* A watcher that closes a supervisor does not end before it is done.
Closing == \A w \in Watchers : genLock = w => process[w].at \in {"running", "asked"}

\* Nor is a number given again that a stop has read or waits for.
ReadBy(k, w) == w \in {keeper[k].read, keeper[k].pid}
Reading == \A k \in Keepers, w \in Watchers : ReadBy(k, w) /\ Alive(w) => process[w].at \in {"running", "asked"}

\* While what a stop read is still on file, it waits for that process, and removes its record once it is gone;
Stopped ==
  \A k \in Keepers :
    keeper[k].read # Nobody /\ watchPid = keeper[k].read =>
      /\ keeper[k].at = "wait" => keeper[k].pid = keeper[k].read
      /\ keeper[k].at = "file" => ~Alive(keeper[k].read)

\* so a running one whose record is about to be removed wrote it after the comparison.
Removing ==
  \A k \in Keepers, w \in Watchers :
    keeper[k].at = "remove" /\ watchPid = w /\ process[w].at = "running" => exposed = w

Stops == Reading /\ Stopped /\ Removing

KInv == KeeperTypeOK /\ CloseInGeneration /\ LockHolder /\ Marks /\ Pids /\ Closing /\ Stops

\* What a process and a keeper are, field by field.
ProcessAt == {"launched", "locked", "marked", "running", "asked", "gone"}
Gen == Generations \cup {Nobody}
Exes == {"hand", "other"}
KeeperAt == {"idle", "compare", "stop", "live", "wait", "file", "remove", "again", "await", "done"}
Pid == Watchers \cup {Nobody}
Spots == [at : KeeperAt, gen : Gen, read : Pid, pid : Pid]

USE DEF ProcessAt, Gen, Exes, KeeperAt, Pid

\* Whatever happened, the safety of the keeper is in the invariant.
LEMMA SafeByInv == KInv => KeeperSafety
  BY DEF KInv, KeeperSafety, LockHolder, Marks, Pids, RecordsOfHolder

\* At first nothing runs and nothing is on file.
LEMMA InitKInv == KeeperInit => KInv
<1> SUFFICES ASSUME KeeperInit PROVE KInv
  OBVIOUS
<1> USE WatcherKeeperAssumption DEF KeeperInit, NoProcess
<1>1. KeeperTypeOK
  BY DEF KeeperTypeOK, Closers
<1>2. CloseInGeneration
  BY DEF CloseInGeneration, Closers
<1>3. LockHolder /\ Marks /\ Pids /\ Closing
  BY DEF LockHolder, Marks, Pids, Closing, Alive
<1>4. Stops
  BY DEF Stops, Reading, Stopped, Removing, ReadBy, Alive
<1> QED BY <1>1, <1>2, <1>3, <1>4 DEF KInv

-----------------------------------------------------------------------------
(* Steps that only look, or only begin something: no process changes *)

\* The records and the processes stay as they are.
Standing == UNCHANGED <<process, held, marked, watchPid, generation, genLock, exposed>>

LEMMA StandingStep ==
  ASSUME KInv, Standing, KeeperTypeOK', Stops' PROVE KInv'
<1>1. CloseInGeneration'
  BY DEF KInv, CloseInGeneration, Standing, Holds
<1>2. LockHolder' /\ Marks' /\ Pids' /\ Closing'
  BY DEF KInv, LockHolder, Marks, Pids, Closing, Standing, Alive
<1> QED BY <1>1, <1>2 DEF KInv

-----------------------------------------------------------------------------
(* What the sweep of a board or a command does to its own place *)

\* A keeper stays where it is, or gets to a place where it removes nothing and
\* remembers nothing new.
Stays(k) ==
  \/ keeper'[k] = keeper[k]
  \/ /\ keeper'[k].at \notin {"wait", "file", "remove"}
     /\ keeper'[k].read \in {Nobody, keeper[k].read} /\ keeper'[k].pid \in {Nobody, keeper[k].pid}

\* A process stays where it is, ends, is asked to end, or is one that no stop has
\* read and does not get to run.
Moved(w) ==
  \/ process'[w] = process[w]
  \/ process'[w] = NoProcess
  \/ process[w].at \in {"running", "asked"} /\ process'[w].at = "asked" /\ Alive(w)
  \/ (\A k \in Keepers : ~ReadBy(k, w)) /\ process'[w].at # "running"

LEMMA StopsKept ==
  ASSUME KInv, \A k \in Keepers : Stays(k), \A w \in Watchers : Moved(w), UNCHANGED exposed,
         watchPid' \in {watchPid, Nobody}
  PROVE  Stops'
<1>1. KeeperTypeOK /\ Nobody \notin Watchers
  BY WatcherKeeperAssumption DEF KInv
<1>2. \A k \in Keepers : keeper[k].read \in Pid /\ keeper[k].pid \in Pid
  BY <1>1 DEF KeeperTypeOK
<1>3. \A k \in Keepers, w \in Watchers : ReadBy(k, w)' => ReadBy(k, w)
  BY <1>1 DEF Stays, ReadBy
<1>4. Reading'
  <2> SUFFICES ASSUME NEW k \in Keepers, NEW w \in Watchers, ReadBy(k, w)', Alive(w)' PROVE process'[w].at \in {"running", "asked"}
    BY DEF Reading
  <2>1. ReadBy(k, w) /\ (Alive(w) => process[w].at \in {"running", "asked"})
    BY <1>3 DEF KInv, Stops, Reading
  <2>2. process'[w] # NoProcess /\ Moved(w)
    BY DEF Alive
  <2> QED BY <2>1, <2>2 DEF Moved, Alive
<1>5. Stopped'
  <2> SUFFICES ASSUME NEW k \in Keepers, keeper'[k].read # Nobody, watchPid' = keeper'[k].read
               PROVE  /\ keeper'[k].at = "wait" => keeper'[k].pid = keeper'[k].read
                      /\ keeper'[k].at = "file" => ~Alive(keeper[k].read)'
    BY DEF Stopped
  <2>1. CASE keeper'[k].at \notin {"wait", "file"}
    BY <2>1
  <2>2. CASE keeper'[k] = keeper[k]
    <3> DEFINE r == keeper[k].read
    <3>1. watchPid = r /\ r # Nobody /\ r \in Watchers
      BY <1>2, <2>2
    <3>2. /\ keeper[k].at = "wait" => keeper[k].pid = r
          /\ keeper[k].at = "file" => ~Alive(r)
      BY <3>1 DEF KInv, Stops, Stopped
    <3>3. ReadBy(k, r) /\ Moved(r)
      BY <3>1 DEF ReadBy
    <3>4. ~Alive(r) => ~Alive(r)'
      BY <3>1, <3>3 DEF Moved, Alive
    <3> QED BY <2>2, <3>2, <3>4
  <2> QED BY <2>1, <2>2 DEF Stays
<1>6. Removing'
  <2> SUFFICES ASSUME NEW k \in Keepers, NEW w \in Watchers, keeper'[k].at = "remove", watchPid' = w, process'[w].at = "running"
               PROVE  exposed' = w
    BY DEF Removing
  <2>1. keeper[k].at = "remove" /\ watchPid = w
    BY <1>1 DEF Stays
  <2>2. process[w].at = "running"
    BY DEF Moved, NoProcess
  <2> QED BY <2>1, <2>2 DEF KInv, Stops, Removing
<1> QED BY <1>4, <1>5, <1>6 DEF Stops

LEMMA KeepingTypes ==
  ASSUME KInv, NEW k \in Keepers, NEW spot \in KeeperAt, Keeping(k, spot)
  PROVE  /\ keeper' \in [Keepers -> Spots] /\ \A l \in Keepers \ {k} : keeper'[l] = keeper[l]
         /\ keeper'[k].at = spot /\ keeper'[k].read = keeper[k].read /\ keeper'[k].pid = keeper[k].pid
<1> DEFINE c == [keeper[k] EXCEPT !.at = spot]
<1>1. keeper[k] \in Spots /\ keeper \in [Keepers -> Spots]
  BY DEF KInv, KeeperTypeOK, Spots
<1>2. c \in Spots /\ c.at = spot /\ c.read = keeper[k].read /\ c.pid = keeper[k].pid
  BY <1>1 DEF Spots
<1>3. keeper' = [keeper EXCEPT ![k] = c]
  BY DEF Keeping
<1> HIDE DEF c, Spots
<1> QED BY <1>1, <1>2, <1>3

LEMMA OverTypes ==
  ASSUME KInv, NEW k \in Keepers, Over(k)
  PROVE  keeper' \in [Keepers -> Spots] /\ \A l \in Keepers : Stays(l)
<1>1. keeper \in [Keepers -> Spots] /\ NoSweep(k) \in Spots
  BY DEF KInv, KeeperTypeOK, Spots, NoSweep
<1>2. keeper' \in [Keepers -> Spots] /\ keeper'[k] = NoSweep(k) /\ \A l \in Keepers \ {k} : keeper'[l] = keeper[l]
  BY <1>1 DEF Over
<1> QED BY <1>2 DEF Stays, NoSweep

\* A mishap is counted.
LEMMA MishapTypes ==
  ASSUME KInv, Mishap \/ UNCHANGED mishaps PROVE mishaps' \in 0 .. MaxMishaps
  BY WatcherKeeperAssumption DEF KInv, KeeperTypeOK, Mishap

-----------------------------------------------------------------------------
(* Boards *)

\* What a board's own step leaves alone, and the sweep of another board.
LEMMA BoardTypes ==
  ASSUME KInv, NEW b \in Generations, NEW s \in {"none", "up", "ending", "gone"},
         boards' = [boards EXCEPT ![b] = s]
  PROVE  boards' \in [Generations -> {"none", "up", "ending", "gone"}]
  BY DEF KInv, KeeperTypeOK

LEMMA BoardStep ==
  ASSUME KInv, NEW b \in Generations,
         RecordGeneration(b) \/ EndBoard(b) \/ ForgetGeneration(b) \/ BoardKilled(b)
  PROVE  KInv'
<1>1. UNCHANGED <<process, held, marked, watchPid, exposed>>
  BY DEF RecordGeneration, EndBoard, ForgetGeneration, BoardKilled
<1>2. boards' \in [Generations -> {"none", "up", "ending", "gone"}]
  BY BoardTypes DEF RecordGeneration, EndBoard, ForgetGeneration, BoardKilled
<1>3. generation' \in Gen /\ genLock' \in Closers \cup {Nobody}
  BY DEF RecordGeneration, EndBoard, ForgetGeneration, BoardKilled, KInv, KeeperTypeOK
<1>4. keeper' \in [Keepers -> Spots] /\ \A l \in Keepers : Stays(l)
  <2>1. CASE UNCHANGED keeper
    BY <2>1 DEF KInv, KeeperTypeOK, Spots, Stays
  <2>2. CASE BoardKilled(b)
    BY <2>2, OverTypes DEF BoardKilled, Over, Keepers
  <2> QED BY <2>1, <2>2 DEF RecordGeneration, EndBoard, ForgetGeneration
<1>5. mishaps' \in 0 .. MaxMishaps
  BY MishapTypes DEF RecordGeneration, EndBoard, ForgetGeneration, BoardKilled
<1>6. KeeperTypeOK'
  BY <1>1, <1>2, <1>3, <1>4, <1>5 DEF KInv, KeeperTypeOK, Spots
<1>7. (genLock' = genLock /\ generation' = generation) \/ genLock' = Nobody
  BY DEF RecordGeneration, EndBoard, ForgetGeneration, BoardKilled
<1>8. CloseInGeneration'
  BY <1>1, <1>7, WatcherKeeperAssumption DEF KInv, CloseInGeneration, Holds, Closers
<1>9. LockHolder' /\ Marks' /\ Pids' /\ Closing'
  BY <1>1, <1>7, WatcherKeeperAssumption DEF KInv, LockHolder, Marks, Pids, Closing, Alive
<1>10. Stops'
  BY <1>1, <1>4, StopsKept DEF Moved
<1> QED BY <1>6, <1>8, <1>9, <1>10 DEF KInv

-----------------------------------------------------------------------------
(* A watcher is launched, and runs *)

Processes == [Watchers -> [at : ProcessAt, gen : Gen, exe : Exes]]

\* A new process takes a number nobody goes by.
LEMMA LaunchEffect ==
  ASSUME KInv, NEW gen \in Gen, NEW exe \in Exes, NEW procs \in Processes, Launch(gen, exe, procs)
  PROVE  /\ process' \in Processes
         /\ \E w \in Watchers :
              /\ process[w] = NoProcess /\ watchPid # w /\ process'[w].at = "launched" /\ \A k \in Keepers : ~ReadBy(k, w)
              /\ \A v \in Watchers \ {w} : process'[v] = procs[v]
<1>1. PICK w \in Watchers : Unused(w) /\ process' = [procs EXCEPT ![w] = [at |-> "launched", gen |-> gen, exe |-> exe]]
  BY DEF Launch
<1>2. process[w] = NoProcess /\ watchPid # w /\ \A k \in Keepers : ~ReadBy(k, w)
  BY <1>1 DEF Unused, Alive, ReadBy
<1>3. process' \in Processes /\ process'[w].at = "launched" /\ \A v \in Watchers \ {w} : process'[v] = procs[v]
  BY <1>1 DEF Processes
<1> QED BY <1>2, <1>3

LEMMA LaunchKeeps ==
  ASSUME KInv, NEW gen \in Gen, NEW exe \in Exes, Launch(gen, exe, process), KeeperTypeOK',
         UNCHANGED <<generation, genLock, held, marked, watchPid, exposed>>, \A l \in Keepers : Stays(l)
  PROVE  KInv'
<1>1. process \in Processes
  BY DEF KInv, KeeperTypeOK, Processes
<1>2. PICK w \in Watchers :
        /\ process[w] = NoProcess /\ watchPid # w /\ process'[w].at = "launched" /\ \A k \in Keepers : ~ReadBy(k, w)
        /\ \A v \in Watchers \ {w} : process'[v] = process[v]
  BY <1>1, LaunchEffect
<1>3. genLock # w
  BY <1>2 DEF KInv, Closing, NoProcess
<1>4. CloseInGeneration'
  BY <1>2, <1>3 DEF KInv, CloseInGeneration, Holds
<1>5. LockHolder' /\ Marks' /\ Pids' /\ Closing'
  BY <1>2, <1>3 DEF KInv, LockHolder, Marks, Pids, Closing, Alive
<1>6. \A v \in Watchers : Moved(v)
  BY <1>2 DEF Moved
<1>7. Stops'
  BY <1>6, StopsKept
<1> QED BY <1>4, <1>5, <1>7 DEF KInv

\* One process goes on, or ends.
LEMMA MoveTypes ==
  ASSUME KInv, NEW w \in Watchers, NEW s \in ProcessAt,
         process' = [process EXCEPT ![w].at = s] \/ process' = [process EXCEPT ![w] = NoProcess]
  PROVE  /\ process' \in Processes
         /\ \A v \in Watchers \ {w} : process'[v] = process[v]
         /\ process' = [process EXCEPT ![w].at = s] => process'[w].at = s /\ process'[w].gen = process[w].gen
         /\ process' = [process EXCEPT ![w] = NoProcess] => process'[w] = NoProcess
  BY DEF KInv, KeeperTypeOK, NoProcess, Processes

\* A watcher that is not known to a stop yet.
LEMMA Unread ==
  ASSUME KInv, NEW w \in Watchers, process[w].at \in {"launched", "locked", "marked"}
  PROVE  Alive(w) /\ watchPid # w /\ genLock # w /\ \A k \in Keepers : ~ReadBy(k, w)
<1>1. Alive(w)
  BY DEF Alive, NoProcess
<1> QED BY <1>1 DEF KInv, Pids, Closing, Stops, Reading

LEMMA WatcherStep ==
  ASSUME KInv, NEW w \in Watchers, Watches(w) PROVE KInv'
<1> USE DEF KInv
<1>0. /\ KeeperTypeOK /\ process \in Processes
      /\ UNCHANGED <<boards, generation, genLock, keeper, mishaps>> /\ \A l \in Keepers : Stays(l)
  BY DEF Watches, TakeWatchLock, WriteMark, WritePid, EndWatcher, KeeperTypeOK, Processes, Stays
<1>1. CASE TakeWatchLock(w)
  <2>1. UNCHANGED <<marked, watchPid, exposed>> /\ process[w].at = "launched"
    BY <1>1 DEF TakeWatchLock
  <2>2. /\ process' \in Processes /\ \A v \in Watchers \ {w} : process'[v] = process[v]
        /\ \/ held = Nobody /\ held' = w /\ process'[w].at = "locked" /\ process'[w].gen = process[w].gen
           \/ held' = held /\ process'[w] = NoProcess
    <3>1. CASE held = Nobody
      <4>1. held' = w /\ process' = [process EXCEPT ![w].at = "locked"]
        BY <1>1, <3>1 DEF TakeWatchLock
      <4> QED BY <3>1, <4>1, MoveTypes
    <3>2. CASE held # Nobody
      <4>1. held' = held /\ process' = [process EXCEPT ![w] = NoProcess]
        BY <1>1, <3>2 DEF TakeWatchLock
      <4> QED BY <1>0, <4>1 DEF Processes, NoProcess
    <3> QED BY <3>1, <3>2
  <2>3. KeeperTypeOK'
    BY <1>0, <2>1, <2>2 DEF KeeperTypeOK, Processes
  <2>4. genLock # w /\ watchPid # w /\ \A k \in Keepers : ~ReadBy(k, w)
    BY <2>1, Unread
  <2>5. CloseInGeneration'
    BY <1>0, <2>2, <2>4 DEF CloseInGeneration, Holds
  <2>6. LockHolder'
    BY <2>2, WatcherKeeperAssumption DEF LockHolder, NoProcess
  <2>7. Marks' /\ Pids' /\ Closing'
    BY <1>0, <2>1, <2>2, <2>4 DEF Marks, Pids, Closing, Alive, NoProcess
  <2>8. \A v \in Watchers : Moved(v)
    BY <2>2, <2>4 DEF Moved
  <2>9. Stops'
    BY <1>0, <2>1, <2>8, StopsKept
  <2> QED BY <2>3, <2>5, <2>6, <2>7, <2>9
<1>2. CASE WriteMark(w)
  <2>1. UNCHANGED <<held, watchPid, exposed>> /\ process[w].at = "locked" /\ marked' = process[w].gen
    BY <1>2 DEF WriteMark
  <2>2. /\ process' \in Processes /\ \A v \in Watchers \ {w} : process'[v] = process[v]
        /\ process'[w].at = "marked" /\ process'[w].gen = process[w].gen
    BY <1>2, MoveTypes DEF WriteMark
  <2>3. KeeperTypeOK'
    BY <1>0, <2>1, <2>2 DEF KeeperTypeOK, Processes
  <2>4. genLock # w /\ watchPid # w /\ held = w /\ \A k \in Keepers : ~ReadBy(k, w)
    BY <2>1, Unread DEF LockHolder
  <2>5. CloseInGeneration'
    BY <1>0, <2>2, <2>4 DEF CloseInGeneration, Holds
  <2>6. LockHolder' /\ Marks'
    BY <2>1, <2>2, <2>4 DEF LockHolder, Marks
  <2>7. Pids' /\ Closing'
    BY <1>0, <2>1, <2>2, <2>4 DEF Pids, Closing, Alive
  <2>8. \A v \in Watchers : Moved(v)
    BY <2>2, <2>4 DEF Moved
  <2>9. Stops'
    BY <1>0, <2>1, <2>8, StopsKept
  <2> QED BY <2>3, <2>5, <2>6, <2>7, <2>9
<1>3. CASE WritePid(w)
  <2>1. /\ UNCHANGED <<held, marked>> /\ process[w].at = "marked" /\ watchPid' = w
        /\ exposed' = IF \E k \in Keepers : keeper[k].at = "remove" THEN w ELSE Nobody
    BY <1>3 DEF WritePid
  <2>2. /\ process' \in Processes /\ \A v \in Watchers \ {w} : process'[v] = process[v]
        /\ process'[w].at = "running" /\ process'[w].gen = process[w].gen
    BY <1>3, MoveTypes DEF WritePid
  <2>3. KeeperTypeOK'
    BY <1>0, <2>1, <2>2 DEF KeeperTypeOK, Processes
  <2>4. /\ genLock # w /\ held = w /\ \A v \in Watchers \ {w} : process[v].at # "running"
        /\ \A k \in Keepers : ~ReadBy(k, w)
    BY <2>1, Unread DEF LockHolder
  <2>5. CloseInGeneration'
    BY <1>0, <2>2 DEF CloseInGeneration, Holds
  <2>6. LockHolder' /\ Marks'
    BY <2>1, <2>2, <2>4 DEF LockHolder, Marks
  <2>7. Pids' /\ Closing'
    BY <1>0, <2>1, <2>2, <2>4 DEF Pids, Closing, Alive
  <2>8. Reading'
    BY <1>0, <2>2, <2>4 DEF Stops, Reading, ReadBy, Alive
  <2>9. Stopped'
    BY <1>0, <2>1, <2>4 DEF Stopped, ReadBy
  <2>10. Removing'
    BY <1>0, <2>1 DEF Removing
  <2> QED BY <2>3, <2>5, <2>6, <2>7, <2>8, <2>9, <2>10 DEF Stops
<1>4. CASE EndWatcher(w)
  <2>1. /\ UNCHANGED <<marked, exposed>> /\ process[w].at = "asked" /\ genLock # w
        /\ watchPid' = IF watchPid = w THEN Nobody ELSE watchPid
        /\ held' = IF held = w THEN Nobody ELSE held
    BY <1>4 DEF EndWatcher
  <2>2. /\ process' \in Processes /\ \A v \in Watchers \ {w} : process'[v] = process[v]
        /\ process'[w] = NoProcess
    BY <1>4, MoveTypes DEF EndWatcher, KeeperTypeOK, NoProcess, Processes
  <2>3. KeeperTypeOK'
    BY <1>0, <2>1, <2>2 DEF KeeperTypeOK, Processes
  <2>5. CloseInGeneration'
    BY <1>0, <2>1, <2>2 DEF CloseInGeneration, Holds
  <2>6. LockHolder' /\ Marks'
    BY <2>1, <2>2 DEF LockHolder, Marks, NoProcess
  <2>7. Pids' /\ Closing'
    BY <1>0, <2>1, <2>2, WatcherKeeperAssumption DEF Pids, Closing, Alive, NoProcess
  <2>8. \A v \in Watchers : Moved(v)
    BY <2>2 DEF Moved
  <2>9. Stops'
    BY <1>0, <2>1, <2>8, StopsKept
  <2> QED BY <2>3, <2>5, <2>6, <2>7, <2>9
<1> QED BY <1>1, <1>2, <1>3, <1>4 DEF Watches

\* Killed, and maybe run again by systemd.
LEMMA KilledStep ==
  ASSUME KInv, NEW w \in Watchers, WatcherKilled(w) PROVE KInv'
<1> DEFINE dead == [process EXCEPT ![w] = NoProcess]
<1>0. /\ KeeperTypeOK /\ process \in Processes
      /\ UNCHANGED <<boards, generation, marked, watchPid, keeper, exposed>>
      /\ held' = IF held = w THEN Nobody ELSE held
      /\ genLock' = IF genLock = w THEN Nobody ELSE genLock
      /\ Alive(w)
  BY DEF WatcherKilled, KInv, KeeperTypeOK, Processes
<1>1. mishaps' \in 0 .. MaxMishaps
  BY MishapTypes DEF WatcherKilled
<1>2. /\ process' \in Processes /\ process'[w] = NoProcess
      /\ \A v \in Watchers : \/ v # w /\ process'[v] = process[v]
                             \/ v = w /\ process'[v] = NoProcess
                             \/ /\ process[v] = NoProcess /\ watchPid # v /\ process'[v].at = "launched"
                                /\ \A k \in Keepers : ~ReadBy(k, v)
  <2>0. dead \in Processes /\ dead[w] = NoProcess /\ \A v \in Watchers \ {w} : dead[v] = process[v]
    BY <1>0 DEF Processes, NoProcess
  <2>1. CASE process' = dead
    BY <2>0, <2>1
  <2>2. CASE Launch(process[w].gen, process[w].exe, dead)
    <3>0. process[w].gen \in Gen /\ process[w].exe \in Exes
      BY <1>0 DEF Processes
    <3> HIDE DEF dead
    <3>1. /\ process' \in Processes
          /\ \E u \in Watchers :
               /\ process[u] = NoProcess /\ watchPid # u /\ process'[u].at = "launched" /\ \A k \in Keepers : ~ReadBy(k, u)
               /\ \A v \in Watchers \ {u} : process'[v] = dead[v]
      BY <2>0, <2>2, <3>0, LaunchEffect
    <3> QED BY <1>0, <2>0, <3>1 DEF Alive
  <2> QED BY <2>1, <2>2 DEF WatcherKilled
<1>3. KeeperTypeOK'
  BY <1>0, <1>1, <1>2 DEF KeeperTypeOK, Processes
<1>4. CloseInGeneration'
  <2>1. \A v \in Watchers : genLock = v => process[v] # NoProcess
    BY DEF KInv, Closing, NoProcess
  <2>2. \A v \in Watchers : genLock' = v => process'[v] = process[v] \/ process'[v] = NoProcess
    BY <1>0, <1>2, <2>1, WatcherKeeperAssumption
  <2>3. \A v \in Watchers : genLock' = v => genLock = v /\ v # w
    BY <1>0, WatcherKeeperAssumption
  <2>4. \A v \in Watchers : genLock' = v => process'[v] = process[v]
    <3> SUFFICES ASSUME NEW v \in Watchers, genLock' = v PROVE process'[v] = process[v]
      OBVIOUS
    <3>1. v # w /\ process[v] # NoProcess
      BY <2>1, <2>3
    <3> QED BY <1>2, <3>1
  <2>5. \A x \in Closers : genLock' = x => genLock = x
    BY <1>0, WatcherKeeperAssumption DEF Closers
  <2> QED BY <1>0, <2>4, <2>5 DEF KInv, CloseInGeneration, Holds
<1>5. LockHolder' /\ Marks'
  BY <1>0, <1>2 DEF KInv, LockHolder, Marks, NoProcess
<1>6. Pids'
  BY <1>0, <1>2 DEF KInv, Pids, Alive, NoProcess
<1>7. Closing'
  BY <1>0, <1>2, WatcherKeeperAssumption DEF KInv, Closing, NoProcess
<1>8. Stops'
  <2>1. \A v \in Watchers : Moved(v)
    BY <1>2 DEF Moved
  <2> QED BY <1>0, <2>1, StopsKept DEF Stays
<1> QED BY <1>3, <1>4, <1>5, <1>6, <1>7, <1>8 DEF KInv

-----------------------------------------------------------------------------
(* ensureWatcher *)

\* A sweep that only changes its own place.
LEMMA PlaceStep ==
  ASSUME KInv, UNCHANGED <<boards, generation, genLock, held, marked, process, watchPid, exposed>>,
         Mishap \/ UNCHANGED mishaps, keeper' \in [Keepers -> Spots], Stops'
  PROVE  KInv'
<1>1. KeeperTypeOK'
  BY MishapTypes DEF KInv, KeeperTypeOK, Spots
<1> QED BY <1>1, StandingStep DEF Standing

LEMMA PlaceStops ==
  ASSUME KInv, UNCHANGED <<process, watchPid, exposed>>, \A l \in Keepers : Stays(l) PROVE Stops'
  BY StopsKept DEF Moved

\* It starts a watcher.
LEMMA StartStep ==
  ASSUME KInv, NEW k \in Keepers, NEW gen \in Gen, Start(k, gen), Mishap \/ UNCHANGED mishaps,
         UNCHANGED <<boards, generation, genLock, held, marked, watchPid, exposed>>
  PROVE  KInv'
<1> DEFINE c == [keeper[k] EXCEPT !.at = "await", !.gen = gen]
<1>1. keeper \in [Keepers -> Spots] /\ keeper[k] \in Spots /\ process \in Processes /\ Exe(k) \in Exes
  BY DEF KInv, KeeperTypeOK, Spots, Processes, Exe
<1>2. c \in Spots /\ c.at = "await" /\ c.read = keeper[k].read /\ c.pid = keeper[k].pid
  BY <1>1 DEF Spots
<1>3. keeper' = [keeper EXCEPT ![k] = c] /\ Launch(gen, Exe(k), process)
  BY DEF Start
<1> HIDE DEF c, Spots
<1>4. keeper' \in [Keepers -> Spots] /\ keeper'[k] = c /\ \A l \in Keepers \ {k} : keeper'[l] = keeper[l]
  BY <1>1, <1>2, <1>3
<1>5. \A l \in Keepers : Stays(l)
  BY <1>2, <1>4 DEF Stays
<1>6. process' \in Processes
  BY <1>1, <1>3, LaunchEffect
<1>7. KeeperTypeOK'
  BY <1>4, <1>6, MishapTypes DEF KInv, KeeperTypeOK, Spots, Processes
<1> QED BY <1>1, <1>3, <1>5, <1>7, LaunchKeeps

LEMMA EnsureStep ==
  ASSUME KInv, NEW k \in Keepers, Ensure(k) PROVE KInv'
<1> DEFINE gen == IF k \in Generations THEN k ELSE generation
           c == [keeper[k] EXCEPT !.at = "compare", !.gen = gen]
<1>1. gen \in Gen /\ keeper \in [Keepers -> Spots] /\ keeper[k] \in Spots
  BY DEF KInv, KeeperTypeOK, Spots
<1>2. UNCHANGED <<boards, generation, genLock, held, marked, watchPid, exposed>> /\ (Mishap \/ UNCHANGED mishaps)
  BY DEF Ensure
<1>3. Start(k, gen) \/ (keeper' = [keeper EXCEPT ![k].at = "compare", ![k].gen = gen] /\ UNCHANGED process)
  BY DEF Ensure
<1> HIDE DEF gen
<1>4. CASE Start(k, gen)
  BY <1>1, <1>2, <1>4, StartStep
<1>5. CASE keeper' = [keeper EXCEPT ![k].at = "compare", ![k].gen = gen] /\ UNCHANGED process
  <2>1. c \in Spots /\ c.at = "compare" /\ c.read = keeper[k].read /\ c.pid = keeper[k].pid
    BY <1>1 DEF Spots
  <2>2. keeper' = [keeper EXCEPT ![k] = c]
    BY <1>1, <1>5
  <2> HIDE DEF c, Spots
  <2>3. keeper' \in [Keepers -> Spots] /\ keeper'[k] = c /\ \A l \in Keepers \ {k} : keeper'[l] = keeper[l]
    BY <1>1, <2>1, <2>2
  <2>4. \A l \in Keepers : Stays(l)
    BY <2>1, <2>3 DEF Stays
  <2> QED BY <1>2, <1>5, <2>3, <2>4, PlaceStops, PlaceStep
<1> QED BY <1>3, <1>4, <1>5

LEMMA CompareStep ==
  ASSUME KInv, NEW k \in Keepers, Compare(k) PROVE KInv'
<1>1. UNCHANGED <<boards, generation, genLock, process, held, marked, watchPid, mishaps, exposed>>
  BY DEF Compare
<1>2. keeper' \in [Keepers -> Spots] /\ \A l \in Keepers : Stays(l)
  <2>1. CASE Over(k)
    BY <2>1, OverTypes
  <2>2. CASE Keeping(k, "stop")
    BY <2>2, KeepingTypes DEF Stays
  <2> QED BY <2>1, <2>2 DEF Compare
<1> QED BY <1>1, <1>2, PlaceStops, PlaceStep

\* stopPIDFile reads the record: one on file is not one that only starts.
LEMMA StopReadStep ==
  ASSUME KInv, NEW k \in Keepers, StopRead(k) PROVE KInv'
<1> DEFINE c == [keeper[k] EXCEPT !.at = "live", !.read = watchPid]
<1>1. keeper \in [Keepers -> Spots] /\ keeper[k] \in Spots /\ watchPid \in Pid
  BY DEF KInv, KeeperTypeOK, Spots
<1>2. c \in Spots /\ c.at = "live" /\ c.read = watchPid /\ c.pid = keeper[k].pid
  BY <1>1 DEF Spots
<1>3. /\ keeper' = [keeper EXCEPT ![k] = c]
      /\ UNCHANGED <<boards, generation, genLock, process, held, marked, watchPid, mishaps, exposed>>
  BY DEF StopRead
<1> HIDE DEF c, Spots
<1>4. keeper' \in [Keepers -> Spots] /\ keeper'[k] = c /\ \A l \in Keepers \ {k} : keeper'[l] = keeper[l]
  BY <1>1, <1>2, <1>3
<1>5. Reading'
  <2>1. \A l \in Keepers, w \in Watchers : ReadBy(l, w)' => ReadBy(l, w) \/ w = watchPid
    BY <1>2, <1>4 DEF ReadBy
  <2> QED BY <1>3, <2>1 DEF KInv, Stops, Reading, Pids, Alive
<1>6. Stopped' /\ Removing'
  BY <1>2, <1>3, <1>4 DEF KInv, Stops, Stopped, Removing, Alive
<1>7. Stops'
  BY <1>5, <1>6 DEF Stops
<1> QED BY <1>3, <1>4, <1>7, PlaceStep

\* It looks who is on file now; a record that is not of a live process is compared next.
LEMMA StopOtherStep ==
  ASSUME KInv, NEW k \in Keepers, StopOther(k) PROVE KInv'
<1>0. /\ KeeperTypeOK /\ keeper \in [Keepers -> Spots] /\ keeper[k] \in Spots /\ Nobody \notin Watchers
      /\ UNCHANGED <<boards, generation, genLock, held, marked, watchPid, mishaps, exposed>>
  BY WatcherKeeperAssumption DEF KInv, KeeperTypeOK, Spots, StopOther
<1>1. CASE watchPid = Nobody /\ keeper' = [keeper EXCEPT ![k].at = "again", ![k].read = Nobody] /\ UNCHANGED process
  <2> DEFINE c == [keeper[k] EXCEPT !.at = "again", !.read = Nobody]
  <2>1. c \in Spots /\ c.at = "again" /\ c.read = Nobody /\ c.pid = keeper[k].pid
    BY <1>0 DEF Spots
  <2>2. keeper' = [keeper EXCEPT ![k] = c]
    BY <1>0, <1>1
  <2> HIDE DEF c, Spots
  <2>3. keeper' \in [Keepers -> Spots] /\ keeper'[k] = c /\ \A l \in Keepers \ {k} : keeper'[l] = keeper[l]
    BY <1>0, <2>1, <2>2
  <2>4. \A l \in Keepers : Stays(l)
    BY <2>1, <2>3 DEF Stays
  <2> QED BY <1>0, <1>1, <2>3, <2>4, PlaceStops, PlaceStep
<1>2. CASE watchPid # Nobody /\ ~Alive(watchPid) /\ Keeping(k, "file") /\ UNCHANGED process
  <2>1. /\ keeper' \in [Keepers -> Spots] /\ \A l \in Keepers \ {k} : keeper'[l] = keeper[l]
        /\ keeper'[k].at = "file" /\ keeper'[k].read = keeper[k].read /\ keeper'[k].pid = keeper[k].pid
    BY <1>2, KeepingTypes
  <2>2. Reading' /\ Removing'
    BY <1>0, <1>2, <2>1 DEF KInv, Stops, Reading, Removing, ReadBy, Alive
  <2>3. Stopped'
    BY <1>0, <1>2, <2>1 DEF KInv, Stops, Stopped, Alive
  <2>4. Stops'
    BY <2>2, <2>3 DEF Stops
  <2> QED BY <1>0, <1>2, <2>1, <2>4, PlaceStep
<1>3. CASE Over(k) /\ UNCHANGED process
  BY <1>0, <1>3, OverTypes, PlaceStops, PlaceStep
<1>4. CASE /\ watchPid # Nobody /\ Alive(watchPid) /\ Asked(watchPid)
           /\ keeper' = [keeper EXCEPT ![k].at = "wait", ![k].pid = watchPid]
  <2> DEFINE v == watchPid
             c == [keeper[k] EXCEPT !.at = "wait", !.pid = v]
  <2>1. v \in Watchers /\ process[v].at \in {"running", "asked"}
    BY <1>0, <1>4 DEF KeeperTypeOK, KInv, Pids
  <2>2. process' = [process EXCEPT ![v].at = "asked"]
    BY <1>4 DEF Asked
  <2>3. /\ process' \in Processes /\ \A u \in Watchers \ {v} : process'[u] = process[u]
        /\ process'[v].at = "asked" /\ process'[v].gen = process[v].gen
    BY <2>1, <2>2, MoveTypes
  <2>4. c \in Spots /\ c.at = "wait" /\ c.read = keeper[k].read /\ c.pid = v
    BY <1>0, <2>1 DEF Spots
  <2>5. keeper' = [keeper EXCEPT ![k] = c]
    BY <1>0, <1>4
  <2> HIDE DEF c, Spots
  <2>6. keeper' \in [Keepers -> Spots] /\ keeper'[k] = c /\ \A l \in Keepers \ {k} : keeper'[l] = keeper[l]
    BY <1>0, <2>4, <2>5
  <2>7. KeeperTypeOK'
    BY <1>0, <2>3, <2>6 DEF KeeperTypeOK, Processes, Spots
  <2>8. CloseInGeneration'
    BY <1>0, <2>1, <2>3 DEF KInv, CloseInGeneration, Holds
  <2>9. LockHolder' /\ Marks'
    BY <1>0, <2>1, <2>3 DEF KInv, LockHolder, Marks
  <2>10. Pids' /\ Closing'
    BY <1>0, <2>1, <2>3 DEF KInv, Pids, Closing, Alive
  <2>11. Reading'
    <3>1. \A l \in Keepers, w \in Watchers : ReadBy(l, w)' => ReadBy(l, w) \/ w = v
      BY <2>4, <2>6 DEF ReadBy
    <3> QED BY <2>3, <3>1 DEF KInv, Stops, Reading, Alive
  <2>12. Stopped'
    <3> SUFFICES ASSUME NEW l \in Keepers, keeper'[l].read # Nobody, v = keeper'[l].read
                 PROVE  /\ keeper'[l].at = "wait" => keeper'[l].pid = keeper'[l].read
                        /\ keeper'[l].at = "file" => ~Alive(keeper[l].read)'
      BY <1>0 DEF Stopped
    <3>1. CASE l = k
      BY <2>4, <2>6, <3>1
    <3>2. CASE l # k
      <4>1. keeper'[l] = keeper[l] /\ keeper[l].read = v /\ v # Nobody
        BY <2>6, <3>2
      <4>2. /\ keeper[l].at = "wait" => keeper[l].pid = keeper[l].read
            /\ keeper[l].at = "file" => ~Alive(keeper[l].read)
        BY <4>1 DEF KInv, Stops, Stopped
      <4> QED BY <1>4, <4>1, <4>2
    <3> QED BY <3>1, <3>2
  <2>13. Removing'
    BY <1>0, <2>3, <2>4, <2>6 DEF KInv, Stops, Removing
  <2> QED BY <2>7, <2>8, <2>9, <2>10, <2>11, <2>12, <2>13 DEF KInv, Stops
<1> QED BY <1>1, <1>2, <1>3, <1>4 DEF StopOther

\* The process it waits for is gone.
LEMMA StopWaitStep ==
  ASSUME KInv, NEW k \in Keepers, StopWait(k) PROVE KInv'
<1>0. /\ KeeperTypeOK /\ keeper \in [Keepers -> Spots] /\ keeper[k] \in Spots /\ keeper[k].at = "wait"
      /\ UNCHANGED <<boards, generation, genLock, process, held, marked, watchPid, exposed>>
  BY DEF KInv, KeeperTypeOK, Spots, StopWait
<1>1. CASE ~Alive(keeper[k].pid) /\ keeper' = [keeper EXCEPT ![k].at = "file", ![k].pid = Nobody] /\ UNCHANGED mishaps
  <2> DEFINE c == [keeper[k] EXCEPT !.at = "file", !.pid = Nobody]
  <2>1. c \in Spots /\ c.at = "file" /\ c.read = keeper[k].read /\ c.pid = Nobody
    BY <1>0 DEF Spots
  <2>2. keeper' = [keeper EXCEPT ![k] = c]
    BY <1>0, <1>1
  <2> HIDE DEF c, Spots
  <2>3. keeper' \in [Keepers -> Spots] /\ keeper'[k] = c /\ \A l \in Keepers \ {k} : keeper'[l] = keeper[l]
    BY <1>0, <2>1, <2>2
  <2>4. Reading' /\ Removing'
    BY <1>0, <2>1, <2>3, WatcherKeeperAssumption DEF KInv, Stops, Reading, Removing, ReadBy, Alive
  <2>5. Stopped'
    BY <1>0, <1>1, <2>1, <2>3 DEF KInv, Stops, Stopped, Alive
  <2>6. Stops'
    BY <2>4, <2>5 DEF Stops
  <2> QED BY <1>0, <1>1, <2>3, <2>6, PlaceStep
<1>2. CASE Mishap /\ Over(k)
  BY <1>0, <1>2, OverTypes, PlaceStops, PlaceStep
<1> QED BY <1>1, <1>2 DEF StopWait

\* removeIfSame compares: what it is about to remove names no live process.
LEMMA StopCompareStep ==
  ASSUME KInv, NEW k \in Keepers, StopCompare(k) PROVE KInv'
<1> DEFINE same == watchPid # Nobody /\ watchPid = keeper[k].read
           spot == IF same THEN "remove" ELSE "again"
           c == [keeper[k] EXCEPT !.read = Nobody, !.at = spot]
<1>0. /\ KeeperTypeOK /\ keeper \in [Keepers -> Spots] /\ keeper[k] \in Spots /\ keeper[k].at = "file"
      /\ UNCHANGED <<boards, generation, genLock, process, held, marked, watchPid, mishaps, exposed>>
  BY DEF KInv, KeeperTypeOK, Spots, StopCompare
<1>1. spot \in {"remove", "again"} /\ (spot = "remove" => same)
  OBVIOUS
<1>2. same => ~Alive(watchPid)
  BY <1>0 DEF KInv, Stops, Stopped
<1>3. keeper' = [keeper EXCEPT ![k] = c]
  BY <1>0 DEF StopCompare
<1> HIDE DEF spot
<1>4. c \in Spots /\ c.at = spot /\ c.read = Nobody /\ c.pid = keeper[k].pid
  BY <1>0, <1>1 DEF Spots
<1> HIDE DEF c, Spots
<1>5. keeper' \in [Keepers -> Spots] /\ keeper'[k] = c /\ \A l \in Keepers \ {k} : keeper'[l] = keeper[l]
  BY <1>0, <1>3, <1>4
<1>6. Reading' /\ Stopped'
  BY <1>0, <1>1, <1>4, <1>5, WatcherKeeperAssumption DEF KInv, Stops, Reading, Stopped, ReadBy, Alive
<1>7. Removing'
  <2> SUFFICES ASSUME NEW l \in Keepers, NEW w \in Watchers, keeper'[l].at = "remove", watchPid = w, process[w].at = "running"
               PROVE  exposed = w
    BY <1>0 DEF Removing
  <2>1. l # k
    BY <1>1, <1>2, <1>4, <1>5 DEF Alive, NoProcess
  <2> QED BY <1>5, <2>1 DEF KInv, Stops, Removing
<1>8. Stops'
  BY <1>6, <1>7 DEF Stops
<1> QED BY <1>0, <1>5, <1>8, PlaceStep

\* It removes: of a running watcher only a record that was exposed.
LEMMA StopRemoveStep ==
  ASSUME KInv, NEW k \in Keepers, StopRemove(k) PROVE KInv'
<1>0. /\ KeeperTypeOK /\ keeper[k].at = "remove" /\ Nobody \notin Watchers /\ Keeping(k, "again") /\ watchPid' = Nobody
      /\ UNCHANGED <<boards, generation, genLock, process, held, marked, mishaps, exposed>>
  BY WatcherKeeperAssumption DEF KInv, StopRemove
<1>1. keeper' \in [Keepers -> Spots] /\ \A l \in Keepers : Stays(l)
  BY <1>0, KeepingTypes DEF Stays
<1>2. KeeperTypeOK'
  BY <1>0, <1>1 DEF KeeperTypeOK, Spots
<1>3. CloseInGeneration' /\ LockHolder' /\ Marks' /\ Closing'
  BY <1>0 DEF KInv, CloseInGeneration, LockHolder, Marks, Closing, Holds
<1>4. Pids'
  BY <1>0 DEF KInv, Pids, Stops, Removing
<1>5. Stops'
  BY <1>0, <1>1, StopsKept DEF Moved
<1> QED BY <1>2, <1>3, <1>4, <1>5 DEF KInv

LEMMA AgainStep ==
  ASSUME KInv, NEW k \in Keepers, LookAgain(k) \/ Await(k) PROVE KInv'
<1>0. /\ UNCHANGED <<boards, generation, genLock, held, marked, watchPid, exposed>> /\ (Mishap \/ UNCHANGED mishaps)
      /\ keeper[k].gen \in Gen
  BY DEF LookAgain, Await, KInv, KeeperTypeOK
<1>1. CASE Over(k) /\ UNCHANGED process
  BY <1>0, <1>1, OverTypes, PlaceStops, PlaceStep
<1>2. CASE Start(k, keeper[k].gen)
  BY <1>0, <1>2, StartStep
<1> QED BY <1>1, <1>2 DEF LookAgain, Await

LEMMA KeepStep ==
  ASSUME KInv, NEW k \in Keepers, Keep(k) PROVE KInv'
  BY EnsureStep, CompareStep, StopReadStep, StopOtherStep, StopWaitStep, StopCompareStep, StopRemoveStep, AgainStep
     DEF Keep, Stopping

\* `hand watch` in a terminal.
LEMMA ByHandStep ==
  ASSUME KInv, NEW c \in Commands, WatchByHand(c) PROVE KInv'
<1>1. generation \in Gen /\ c \in Keepers /\ Exe(c) \in Exes /\ process \in Processes
  BY DEF KInv, KeeperTypeOK, Keepers, Exe, Processes
<1>2. Launch(generation, Exe(c), process) /\ UNCHANGED <<boards, generation, genLock, held, marked, watchPid, exposed>>
  BY DEF WatchByHand
<1>3. process' \in Processes
  BY <1>1, <1>2, LaunchEffect
<1>4. Keeping(c, "done")
  BY DEF WatchByHand, Keeping
<1>5. keeper' \in [Keepers -> Spots] /\ \A l \in Keepers : Stays(l)
  BY <1>1, <1>4, KeepingTypes DEF Stays
<1>6. mishaps' \in 0 .. MaxMishaps
  BY MishapTypes DEF WatchByHand
<1>7. KeeperTypeOK'
  BY <1>2, <1>3, <1>5, <1>6 DEF KInv, KeeperTypeOK, Processes, Spots
<1> QED BY <1>1, <1>2, <1>5, <1>7, LaunchKeeps

-----------------------------------------------------------------------------
(* guardGeneration *)

LEMMA CloseStep ==
  ASSUME KInv, NEW x \in Closers, Guard(x) \/ CloseSupervisor(x) PROVE KInv'
<1>1. UNCHANGED <<boards, generation, process, held, marked, watchPid, keeper, mishaps, exposed>>
  BY DEF Guard, CloseSupervisor
<1>2. \/ /\ genLock' = x /\ generation = Holds(x)
         /\ x \in Watchers => process[x].at = "running"
      \/ genLock' = Nobody
  BY DEF Guard, CloseSupervisor, MayClose
<1>3. KeeperTypeOK'
  BY <1>1, <1>2 DEF KInv, KeeperTypeOK
<1>4. CloseInGeneration'
  BY <1>1, <1>2, WatcherKeeperAssumption DEF KInv, CloseInGeneration, Closers, Holds
<1>5. LockHolder' /\ Marks' /\ Pids' /\ Closing'
  BY <1>1, <1>2, WatcherKeeperAssumption DEF KInv, LockHolder, Marks, Pids, Closing, Alive
<1>6. Stops'
  BY <1>1, PlaceStops DEF Stays
<1> QED BY <1>3, <1>4, <1>5, <1>6 DEF KInv

-----------------------------------------------------------------------------

LEMMA KInvStep == KInv /\ [KeeperNext]_kVars => KInv'
<1> SUFFICES ASSUME KInv, [KeeperNext]_kVars PROVE KInv'
  OBVIOUS
<1>1. CASE UNCHANGED kVars
  <2>1. KeeperTypeOK'
    BY <1>1 DEF KInv, KeeperTypeOK, kVars
  <2>2. Stops'
    BY <1>1, PlaceStops DEF Stays, kVars
  <2> QED BY <1>1, <2>1, <2>2, StandingStep DEF Standing, kVars
<1>2. CASE KeeperNext
  BY <1>2, BoardStep, WatcherStep, KilledStep, ByHandStep, KeepStep, CloseStep DEF KeeperNext
<1> QED BY <1>1, <1>2

\* A supervisor is closed in the generation of the board that wants it closed,
\* from the look at the file to the end of the close, and what is on file of a
\* running watcher is its own number and generation (generation.go,
\* watch_ensure.go), with any number of boards, watchers and commands.  A record
\* that was written between the comparison and the removal of a stop, which takes
\* no lock (stop.go removeIfSame), may be gone, but never names another process.
THEOREM KeeperSafe == KeeperSpec => []KeeperSafety
<1>1. KInv => KeeperSafety
  BY SafeByInv
<1> QED BY <1>1, InitKInv, KInvStep, PTL DEF KeeperSpec

-----------------------------------------------------------------------------
(* The parts together *)

\* A step of the parts is a step of one of them, and the others stutter.
LEMMA PartSteps ==
  [LiveNext]_lvars => [UpdateNext]_uVars /\ [PageNext]_bvars /\ [HostNext]_hVars /\ [KeeperNext]_kVars
<1>1. ASSUME Updates, UpdateNext PROVE [UpdateNext]_uVars /\ [PageNext]_bvars /\ [HostNext]_hVars /\ [KeeperNext]_kVars
  BY <1>1 DEF Updates
<1>2. ASSUME OfPages, PageNext PROVE [UpdateNext]_uVars /\ [PageNext]_bvars /\ [HostNext]_hVars /\ [KeeperNext]_kVars
  BY <1>2 DEF OfPages
<1>3. ASSUME Hosts, HostNext PROVE [UpdateNext]_uVars /\ [PageNext]_bvars /\ [HostNext]_hVars /\ [KeeperNext]_kVars
  BY <1>3 DEF Hosts
<1>4. ASSUME Keeps, KeeperNext PROVE [UpdateNext]_uVars /\ [PageNext]_bvars /\ [HostNext]_hVars /\ [KeeperNext]_kVars
  BY <1>4 DEF Keeps
<1>5. ASSUME UNCHANGED lvars PROVE [UpdateNext]_uVars /\ [PageNext]_bvars /\ [HostNext]_hVars /\ [KeeperNext]_kVars
  BY <1>5 DEF lvars
<1> QED BY <1>1, <1>2, <1>3, <1>4, <1>5 DEF LiveNext

LEMMA PartSpecs ==
  LiveSpec => UpdateSpec /\ PageSpec /\ HostSpec /\ KeeperInit /\ [][KeeperNext]_kVars
<1>1. LiveInit => UpdateInit /\ PageInit /\ HostInit /\ KeeperInit
  BY DEF LiveInit
<1> QED BY <1>1, PartSteps, PTL DEF LiveSpec, UpdateSpec, PageSpec, HostSpec

\* Together they are as safe as each: a killed update leaves what the next one repairs, the pages have their types and
\* the host's open stores stay open while they are used.
THEOREM LiveSafe == LiveSpec => []ProcessesSafe
<1>1. UpdateSafety /\ PageTypeOK /\ HostSafety => ProcessesSafe
  BY DEF ProcessesSafe
<1> QED BY <1>1, PartSpecs, UpdateSafe, PageTyped, HostSafe, PTL

\* What holds of the steps of one part holds of the steps of all.
THEOREM LiveSteps == LiveSpec => []KeeperSafety /\ SwitchesRight /\ AnswersOnce /\ ServedCurrent
  BY PartSpecs, InitKInv, KInvStep, SafeByInv, UpdateSwitches, PressesOnce, HostServes, PTL
=============================================================================
