------------------------------- MODULE MCLive -------------------------------
(***************************************************************************)
(* SelfUpdate, BoardPage, HostFleets and WatcherKeeper for TLC, in one     *)
(* run.  They share nothing: part chooses which of them runs, and the      *)
(* others stay at their first state.                                       *)
(***************************************************************************)
EXTENDS SelfUpdate, BoardPage, HostFleets, WatcherKeeper

VARIABLE part

lvars == <<uVars, bvars, hVars, kVars, part>>

\* One first state for a part that does not run.
Resting ==
  /\ part # "update" => iroh = "old" /\ watcher = [f \in Fleets |-> "up"] /\ sup = [f \in Fleets |-> TRUE] /\ board
  /\ part \notin {"page", "press"} => rows = [t \in Targets |-> "running"]
  /\ part # "host" => home = CHOOSE h \in Homes : TRUE

Parts == {"update", "page", "press", "host", "boards", "commands"}
LiveInit == part \in Parts /\ UpdateInit /\ PageInit /\ HostInit /\ KeeperInit /\ Resting

Updates == part = "update" /\ UNCHANGED <<bvars, hVars, kVars, part>>
OfPages == part \in {"page", "press"} /\ UNCHANGED <<uVars, hVars, kVars, part>>
Hosts == part = "host" /\ UNCHANGED <<uVars, bvars, kVars, part>>
Keeps == part \in {"boards", "commands"} /\ UNCHANGED <<uVars, bvars, hVars, part>>

\* Part "update": killed twice, or once beside a step that fails.
UpdateBounds == kills' > 1 => fails' = 0

\* Part "page" is one browser while anything changes; it presses once.  A stream
\* drops, and a press dies, while a change is still to come.
Reader == CHOOSE p \in Pages : TRUE
OneReads ==
  /\ \A p \in Pages \ {Reader} : page'[p] = page[p] /\ cmd'[p] = cmd[p]
  /\ answered' # answered => \A t \in Targets : answered[t] = {}
  /\ losses' # losses => changes < MaxChanges /\ cmd[Reader].at \in {"idle", "note"}

\* Part "press" is every browser.  Screens ask; nothing else changes in the fleet
\* and no stream drops; a page is read when it has none to answer, one at a time.
Rendering(p) == page[p].at \in {"read", "queue"}
Asks ==
  /\ UNCHANGED <<rows, luvus, away, open, pending, losses>>
  /\ \A t \in Targets : changes' # changes /\ pane'[t] # pane[t] => pane'[t].dialog > 0
  /\ \A w \in Attempts : changes' # changes /\ signal'[w] # signal[w] => signal'[w] = [kind |-> "blocked", old |-> FALSE]
  /\ \A p \in Pages : Rendering(p)' /\ ~Rendering(p) =>
       /\ Screens # {} /\ page[p].shows.screens = {} /\ cmd[p] = NoCommand
       /\ \A q \in Pages : ~Rendering(q)
PageBounds == IF part = "page" THEN OneReads ELSE Asks

\* Part "boards" is every board and no command.  A second mishap is the end of a
\* board after a stop removed a record it was exposed to; closes of a supervisor
\* are of this part, a board's own while no watcher is alive.
\* Part "commands" is one board and the commands; the board ends first or not at all.
CloseBegins == genLock' \notin {Nobody, genLock}
OfBoards ==
  /\ \A c \in Commands : keeper'[c] = keeper[c]
  /\ mishaps' > 1 => exposed # Nobody /\ watchPid = Nobody /\ genLock = Nobody /\ boards' # boards
  /\ CloseBegins => exposed = Nobody
  /\ {genLock, genLock'} \cap Generations # {} => \A w \in Watchers : ~Alive(w)'
OfCommands ==
  /\ \A b, c \in Generations : b < c => boards'[c] = "none"
  /\ mishaps' > 1 => boards' = boards
  /\ ~CloseBegins
KeeperBounds == IF part = "boards" THEN OfBoards ELSE OfCommands

LiveNext ==
  \/ Updates /\ UpdateNext /\ UpdateBounds
  \/ OfPages /\ PageNext /\ PageBounds
  \/ Hosts /\ HostNext
  \/ Keeps /\ KeeperNext /\ KeeperBounds

\* The fairness of each part; part "press" needs none.  As part never changes, one
\* condition may stand for a step of each: it asks of a behaviour what the part it
\* is in asks.  The part is named first so that TLC looks at its step alone.
LiveFairness ==
  /\ WF_lvars(\/ part = "update" /\ UpdateStep /\ Updates
              \/ part = "page" /\ Stream(Reader) /\ OfPages
              \/ part = "host" /\ (\E r \in Requests : Serve(r)) /\ Hosts
              \/ part \in {"boards", "commands"} /\ (\E w \in Watchers : Watches(w)) /\ Keeps)
  /\ WF_lvars(\/ part = "update" /\ Begin(FALSE, FALSE) /\ Updates
              \/ part = "page" /\ Command(Reader) /\ OfPages
              \/ part = "host" /\ (\E r \in Requests : Cancelled(r) /\ Finish(r)) /\ Hosts
              \/ part \in {"boards", "commands"} /\ (\E x \in Closers : CloseSupervisor(x)) /\ Keeps)
  /\ \A b \in Generations :
       WF_lvars(\/ part = "host" /\ (\E n \in 1 .. Tries * MaxAsks : Grace(n)) /\ Hosts
                \/ part \in {"boards", "commands"} /\ (Keep(b) \/ ForgetGeneration(b)) /\ Keeps)
  /\ WF_lvars(\/ part = "host" /\ (\E n \in 1 .. Tries * MaxAsks : CloseRetired(n)) /\ Hosts
              \/ part \in {"boards", "commands"} /\ (\E c \in Commands : keeper[c].at # "idle" /\ Keep(c)) /\ Keeps)

LiveSpec == LiveInit /\ [][LiveNext]_lvars /\ LiveFairness

\* Of an update: a killed one leaves what the next one repairs.  Of pages: types.
\* Of the host's cache: its handles are open while in use.
ProcessesSafe == UpdateSafety /\ PageTypeOK /\ HostSafety

\* PageComplete, of the part that is about pages: an open page ends up with
\* what waits on the operator, whatever changed while it was rendered.
OpenPageComplete == <>[](part = "page" => Complete(Reader))
=============================================================================
