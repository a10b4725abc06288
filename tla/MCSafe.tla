------------------------------- MODULE MCSafe -------------------------------
(***************************************************************************)
(* Modules for TLC that are checked for safety only, in one run.  They     *)
(* share nothing: part chooses which of them runs, and the others stay at  *)
(* their first state.                                                      *)
(***************************************************************************)
EXTENDS AttemptLaunch, PhonePairing, PeerConnections, IrohForwarder, FleetImport,
        PathRewrite, BoardServices, LaunchScreens, Housekeeping, IdleWakes,
        WatchAlerts

VARIABLE part

safeVars == <<vars, pVars, cVars, lVars, iVars, rVars, wsVars, sVars, keepVars, iwVars, aVars, part>>

\* A source with two names for one repository, and one whose project conflicts.
Archives == {<<<<"r1", "r1">>, <<NoRepo, "r1">>, <<NoRepo, NoRepo>>>>,
             <<<<"r1", NoRepo>>, <<"r2", NoRepo>>, <<NoRepo, NoRepo>>>>}

\* The old and the new home of a fleet that moves inside the user's home, out
\* of it, into it, and into it by its own name.
UserHome == <<"/", "h">>
MovedHomes ==
  LET inner == <<"/", "h", "/", "f">>  other == <<"/", "h", "/", "t">>
      outer == <<"/", "f">>  far == <<"/", "t">> IN
  {[from |-> inner, to |-> other], [from |-> inner, to |-> far],
   [from |-> outer, to |-> other], [from |-> outer, to |-> inner]}
\* Both old homes in their spellings, and what may stand next to them.
CellChunks ==
  {<<"/", "h", "/", "f">>, <<"/", "f">>, <<"~", "/", "f">>, <<"~", "\\", "/", "f">>,
   <<"\\", "/", "h", "\\", "/", "f">>, <<"\\", "u002f", "h", "\\", "u002f", "f">>,
   <<"file:", "/", "/">>, <<"/">>, <<".">>, <<" ">>, <<"quote">>, <<"f">>}

\* One first state for a part that does not run.
Resting ==
  /\ part # "pairing" => laptop = [f \in Others |-> 0]
  /\ part # "launch" => harness = (CHOOSE h \in Harnesses : TRUE) /\ trouble = FALSE
  /\ part # "files" => chore = "inbox"
  /\ projects \in IF part = "import" THEN Archives ELSE {[f \in Homes |-> [n \in Names |-> NoRepo]]}

SafeInit ==
  /\ part \in {"attempts", "pairing", "peers", "forwarder", "import", "text", "services", "launch", "files", "rest",
              "alerts"}
  /\ Init /\ PairingInit /\ PeerInit /\ ForwarderInit /\ ImportInit /\ ServicesInit
  /\ ScreensInit /\ KeepingInit /\ IdleInit /\ AlertsInit /\ Resting
  /\ IF part = "text" THEN RewriteInit
     ELSE route = [from |-> UserHome, to |-> UserHome] /\ cell = <<>> /\ found = <<>> /\ stage = "old"

SafeNext ==
  \/ part = "attempts" /\ Next
     /\ UNCHANGED <<pVars, cVars, lVars, iVars, rVars, wsVars, sVars, keepVars, iwVars, aVars, part>>
  \/ part = "pairing" /\ PairingNext
     /\ UNCHANGED <<vars, cVars, lVars, iVars, rVars, wsVars, sVars, keepVars, iwVars, aVars, part>>
  \/ part = "peers" /\ PeerNext
     /\ UNCHANGED <<vars, pVars, lVars, iVars, rVars, wsVars, sVars, keepVars, iwVars, aVars, part>>
  \/ part = "forwarder" /\ ForwarderNext
     /\ UNCHANGED <<vars, pVars, cVars, iVars, rVars, wsVars, sVars, keepVars, iwVars, aVars, part>>
  \/ part = "import" /\ ImportNext
     /\ UNCHANGED <<vars, pVars, cVars, lVars, rVars, wsVars, sVars, keepVars, iwVars, aVars, part>>
  \/ part = "text" /\ RewriteNext
     /\ UNCHANGED <<vars, pVars, cVars, lVars, iVars, wsVars, sVars, keepVars, iwVars, aVars, part>>
  \/ part = "services" /\ ServicesNext
     /\ UNCHANGED <<vars, pVars, cVars, lVars, iVars, rVars, sVars, keepVars, iwVars, aVars, part>>
  \/ part = "launch" /\ ScreensNext
     /\ UNCHANGED <<vars, pVars, cVars, lVars, iVars, rVars, wsVars, keepVars, iwVars, aVars, part>>
  \/ part = "files" /\ KeepingNext
     /\ UNCHANGED <<vars, pVars, cVars, lVars, iVars, rVars, wsVars, sVars, iwVars, aVars, part>>
  \/ part = "rest" /\ IdleNext
     /\ UNCHANGED <<vars, pVars, cVars, lVars, iVars, rVars, wsVars, sVars, keepVars, aVars, part>>
  \/ part = "alerts" /\ AlertsNext
     /\ UNCHANGED <<vars, pVars, cVars, lVars, iVars, rVars, wsVars, sVars, keepVars, iwVars, part>>

\* What is explored of the attempts: the first worktree's HEAD detached, a
\* launcher that goes on past its grace, or a fault; the last not with the others.
\* Of an import: a change of the fleets meanwhile, or a
\* mishap; of pairing: a second try at a code, or a second thing that goes wrong;
\* of a board: two of a stop, a fault and exits of hand-iroh.
Calm ==
  /\ \A a \in AttemptId : tree[a].loose => a = 1
  /\ faults = 0 \/ \A a \in AttemptId : ~tree[a].loose /\ (row[a].over => launch[a] \in {"none", "done"})
  /\ edits = 0 \/ mishaps = 0
  /\ posts < 2 \/ events < 2
  /\ 0 \in {used.stop, used.fault, used.exit}

SafeSpec == SafeInit /\ [][SafeNext]_safeVars

\* Of boards: what is recorded beside them names the one that serves.
\* Of phones: codes work once and are guessed at within bounds; what a phone may
\* do over a connection ends with its row; the forwarder keeps its limits and
\* gives back what it took.
\* Of the watcher: it tells of each thing once, and resumes what ended by itself.
ServicesSafe == /\ part = "services" => ServicesSafety
                /\ part = "pairing" => PairingSafety
                /\ part = "peers" => PeerSafety
                /\ part = "forwarder" => ForwarderSafety
                /\ part = "alerts" => AlertsSafety
\* Of imports: nothing comes in twice or is mapped to something else.
ImportsSafe == part = "import" => ImportSafety
\* Of a move: a cell means of the new home what it meant of the old one.
TextsSafe == part = "text" => RewriteSafety
\* Of a launch: hand's keys answer what they were meant for, and the row says
\* what was left to the operator.
\* Of files: what is removed was old, and a trash and snapshots keep the rest.
TracesSafe == /\ part = "launch" => ScreensSafety
              /\ part = "files" => FilesSafety
=============================================================================
