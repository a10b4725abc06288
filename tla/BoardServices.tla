--------------------------- MODULE BoardServices ---------------------------
(***************************************************************************)
(* The life of a board process: what it records beside it when it starts   *)
(* and takes away when it ends, `hand open`, which starts one when none    *)
(* answers, `hand board stop`, and the hand-iroh it keeps running          *)
(* (cli/board.go, board_ensure.go, board_iroh.go, open.go, spawn.go,       *)
(* stop.go, update/pidfile.go, sidecar/sidecar.go).                        *)
(*                                                                         *)
(* What the board serves is left out, and so are the generation it records *)
(* (WatcherKeeper), --update-every, --peer-addr without --iroh, and a      *)
(* program that is no board answering at the recorded address.             *)
(***************************************************************************)
EXTENDS Naturals

CONSTANTS
  Boards,       \* the processes of boards, in the order they are started; numbers
  Ports,        \* the addresses boards are given
  DefaultPort,  \* the one of `hand board` and `hand open`
  Openers,      \* runs of `hand open`
  Attempts,     \* quick exits of hand-iroh after which it is given up
  MaxByHand,    \* boards started by hand or by a unit of the user's
  MaxStops,     \* runs of `hand board stop`, or other signals
  MaxFaults,    \* kills of a board and waits that run out
  MaxExits,     \* exits of hand-iroh while nobody asked for one
  None

ASSUME BoardServicesAssumption ==
  Boards \subseteq Nat /\ DefaultPort \in Ports /\ Attempts \in Nat \ {0} /\ None \notin Openers
ASSUME BoardServicesBounds == {MaxByHand, MaxStops, MaxFaults, MaxExits} \subseteq Nat

VARIABLES
  boards,     \* per process: where it is, its port, whether --iroh, asked to end
  side,       \* per process: its hand-iroh
  addr,       \* board.addr
  pidFile,    \* board.pid
  irohFile,   \* board.iroh: the state in it, or None
  startLock,  \* the opener that holds board.start.lock
  opener,     \* per run of `hand open`
  stop,       \* the run of `hand board stop`
  crowd,      \* a board was started while another one had not yet ended
  used        \* how much of each bound is spent

wsVars == <<boards, side, addr, pidFile, irohFile, startLock, opener, stop, crowd, used>>

Away == {"none", "gone", "refused"}
Running(b) == boards[b].at \notin Away
\* Whether the process listens: from its start until Serve has returned.
Listens(b) == boards[b].at \in {"listening", "addressed", "recorded", "serving"}
\* boardAddr: the address on file is of a board that answers.
Up == \E b \in Boards : boards[b].at = "serving" /\ addr = boards[b].port
CtxDone(b) == boards[b].asked \/ side[b].halted

Enters(b, place) == boards' = [boards EXCEPT ![b].at = place]
Spend(what) == used' = [used EXCEPT ![what] = @ + 1]

(***************************************************************************)
(* cmdBoard, from its start to the request it is asked to end by.          *)
(***************************************************************************)
\* The process starts and listens, or finds its address taken.
Started(b, port, iroh) ==
  /\ boards[b].at = "none" /\ \A c \in Boards : boards[c].at = "none" => b <= c
  /\ boards' = [boards EXCEPT ![b] = [at |-> IF \E c \in Boards : Listens(c) /\ boards[c].port = port THEN "refused" ELSE "listening",
                                      port |-> port, iroh |-> iroh, asked |-> FALSE]]
  /\ crowd' = (crowd \/ \E c \in Boards : Running(c))

StartByHand(b) ==
  /\ used.hand < MaxByHand /\ Spend("hand")
  /\ \E port \in Ports, iroh \in BOOLEAN : Started(b, port, iroh)
  /\ UNCHANGED <<side, addr, pidFile, irohFile, startLock, opener, stop>>

\* recordAddr
RecordAddr(b) ==
  /\ boards[b].at = "listening" /\ Enters(b, "addressed")
  /\ addr' = boards[b].port
  /\ UNCHANGED <<side, pidFile, irohFile, startLock, opener, stop, crowd, used>>

RecordPID(b) ==
  /\ boards[b].at = "addressed" /\ Enters(b, "recorded")
  /\ pidFile' = b
  /\ UNCHANGED <<side, addr, irohFile, startLock, opener, stop, crowd, used>>

\* recordIroh, and then the board serves and runs its sidecar.
RecordIroh(b) ==
  /\ boards[b].at = "recorded" /\ Enters(b, "serving")
  /\ irohFile' = IF boards[b].iroh THEN "starting" ELSE None
  /\ side' = [side EXCEPT ![b].at = IF boards[b].iroh THEN "resolve" ELSE "off",
                          ![b].status = IF boards[b].iroh THEN "starting" ELSE "none"]
  /\ UNCHANGED <<addr, pidFile, startLock, opener, stop, crowd, used>>

\* A signal asks it to end: Serve returns at once, the listener is closed.
Drain(b) ==
  /\ boards[b].at = "serving" /\ boards[b].asked /\ Enters(b, "draining")
  /\ UNCHANGED <<side, addr, pidFile, irohFile, startLock, opener, stop, crowd, used>>

\* What is deferred, in its order, once the sidecar has ended: the record of the
\* process is compared and then removed, without a lock.
ComparePID(b) ==
  /\ boards[b].at = "draining" /\ side[b].at \in {"off", "done"}
  /\ Enters(b, IF pidFile = b THEN "removing" ELSE "unrecorded")
  /\ UNCHANGED <<side, addr, pidFile, irohFile, startLock, opener, stop, crowd, used>>

RemovePID(b) ==
  /\ boards[b].at = "removing" /\ Enters(b, "unrecorded")
  /\ pidFile' = None
  /\ UNCHANGED <<side, addr, irohFile, startLock, opener, stop, crowd, used>>

\* The address is removed when it is the one this board wrote, and the process
\* is gone.
ForgetAddr(b) ==
  /\ boards[b].at = "unrecorded" /\ Enters(b, "gone")
  /\ addr' = IF addr = boards[b].port THEN None ELSE addr
  /\ UNCHANGED <<side, pidFile, irohFile, startLock, opener, stop, crowd, used>>

\* A killed board leaves its records; its hand-iroh ends with its input.
KillBoard(b) ==
  /\ Running(b) /\ used.fault < MaxFaults /\ Spend("fault")
  /\ Enters(b, "gone")
  /\ side' = [side EXCEPT ![b].at = "off"]
  /\ UNCHANGED <<addr, pidFile, irohFile, startLock, opener, stop, crowd>>

(***************************************************************************)
(* sidecar.Run: hand-iroh is started again after it ends, until it has     *)
(* ended early too often or the board ends.                                *)
(***************************************************************************)
\* set: the state is recorded where doctor reads it.
Set(b, at, status, quick) ==
  /\ side' = [side EXCEPT ![b].at = at, ![b].status = status, ![b].quick = quick]
  /\ irohFile' = status

Side(b) == UNCHANGED <<boards, addr, pidFile, startLock, opener, stop, crowd>>

\* Resolve, done before each start: a binary that is missing or of another
\* version ends the loop.
Resolve(b) ==
  /\ side[b].at = "resolve"
  /\ \/ side' = [side EXCEPT ![b].at = "once"] /\ UNCHANGED <<irohFile, used>>
     \/ /\ used.exit < MaxExits /\ Spend("exit")
        /\ side' = [side EXCEPT ![b].at = "done", ![b].status = IF CtxDone(b) THEN "stopped" ELSE "failed", ![b].lost = TRUE]
        /\ irohFile' = side'[b].status
  /\ Side(b)

\* Its ready line.
SayReady(b) == side[b].at = "once" /\ Set(b, "ready", "ready", side[b].quick) /\ UNCHANGED used /\ Side(b)

BugQuickExit(b) ==
  /\ side[b].at \in {"once", "ready"}
  /\ used.exit < MaxExits /\ Spend("exit")
  /\ \E stable \in BOOLEAN :
       LET quick == (IF stable THEN 0 ELSE side[b].quick) + 1 IN
       IF quick >= Attempts THEN Set(b, "done", "failed", quick)
       ELSE side' = [side EXCEPT ![b].at = "pause", ![b].quick = quick] /\ UNCHANGED irohFile
  /\ Side(b)

\* It ends, or is killed because no ready line came: after a long run the count
\* begins anew.
QuickExit(b) ==
  /\ side[b].at \in {"once", "ready"}
  /\ used.exit < MaxExits /\ Spend("exit")
  /\ \E stable \in BOOLEAN :
       LET quick == (IF stable THEN 0 ELSE side[b].quick) + 1 IN
       IF quick >= Attempts /\ ~CtxDone(b) THEN Set(b, "done", "failed", quick)
       ELSE side' = [side EXCEPT ![b].at = "pause", ![b].quick = quick] /\ UNCHANGED irohFile
  /\ Side(b)

\* The pause is over, which a board that ends may still take for the first.
Again(b) == side[b].at = "pause" /\ Set(b, "resolve", "starting", side[b].quick) /\ UNCHANGED used /\ Side(b)

\* The board ends: a running one loses its input and exits, or is killed.
SideEnds(b) ==
  /\ CtxDone(b) /\ side[b].at \in {"once", "ready", "pause"}
  /\ Set(b, "done", "stopped", side[b].quick)
  /\ UNCHANGED used /\ Side(b)

\* The peer listener fails: the sidecar is stopped, the board goes on.
PeerStops(b) ==
  /\ boards[b].at = "serving" /\ side[b].at \notin {"off", "done"} /\ ~side[b].halted
  /\ used.fault < MaxFaults /\ Spend("fault")
  /\ side' = [side EXCEPT ![b].halted = TRUE]
  /\ UNCHANGED <<boards, addr, pidFile, irohFile, startLock, opener, stop, crowd>>

(***************************************************************************)
(* ensureBoard, of `hand open`.                                            *)
(***************************************************************************)
Opening(o, place) == opener' = [opener EXCEPT ![o].at = place]
Unlocks(o) == startLock' = IF startLock = o THEN None ELSE startLock

OpenLook(o) ==
  /\ opener[o].at = "idle" /\ Opening(o, IF Up THEN "done" ELSE "waiting")
  /\ UNCHANGED <<boards, side, addr, pidFile, irohFile, startLock, stop, crowd, used>>

OpenLock(o) ==
  /\ opener[o].at = "waiting" /\ startLock = None
  /\ startLock' = o /\ Opening(o, "locked")
  /\ UNCHANGED <<boards, side, addr, pidFile, irohFile, stop, crowd, used>>

BugOpenAgain(o) ==
  /\ opener[o].at = "locked"
  /\ \E b \in Boards : Started(b, DefaultPort, irohFile # None) /\ opener' = [opener EXCEPT ![o] = [at |-> "await", board |-> b]]
  /\ UNCHANGED <<side, addr, pidFile, irohFile, startLock, stop, used>>

\* The second look, under the lock; then startBoard with the recorded --iroh.
OpenAgain(o) ==
  /\ opener[o].at = "locked"
  /\ \/ Up /\ Opening(o, "done") /\ Unlocks(o) /\ UNCHANGED <<boards, crowd>>
     \/ /\ ~Up
        /\ \E b \in Boards : Started(b, DefaultPort, irohFile # None) /\ opener' = [opener EXCEPT ![o] = [at |-> "await", board |-> b]]
        /\ UNCHANGED startLock
  /\ UNCHANGED <<side, addr, pidFile, irohFile, stop, used>>

\* await: a board answers; or the one it started has ended, or ten seconds have
\* gone by.
OpenAwait(o) ==
  /\ opener[o].at = "await"
  /\ \/ Up /\ Opening(o, "done") /\ UNCHANGED used
     \/ ~Up /\ ~Running(opener[o].board) /\ Opening(o, "failed") /\ UNCHANGED used
     \/ ~Up /\ used.fault < MaxFaults /\ Spend("fault") /\ Opening(o, "failed")
  /\ Unlocks(o)
  /\ UNCHANGED <<boards, side, addr, pidFile, irohFile, stop, crowd>>

(***************************************************************************)
(* `hand board stop` (stopPIDFile), and any other SIGTERM.                 *)
(***************************************************************************)
Signal(b) ==
  /\ Running(b) /\ ~boards[b].asked /\ used.stop < MaxStops /\ Spend("stop")
  /\ boards' = [boards EXCEPT ![b].asked = TRUE]
  /\ UNCHANGED <<side, addr, pidFile, irohFile, startLock, opener, stop, crowd>>

\* The process on file, when it lives, is asked to end.
StopRead ==
  /\ stop.at = "idle" /\ pidFile # None /\ used.stop < MaxStops /\ Spend("stop")
  /\ stop' = [at |-> IF Running(pidFile) THEN "wait" ELSE "compare", board |-> pidFile]
  /\ boards' = IF Running(pidFile) THEN [boards EXCEPT ![pidFile].asked = TRUE] ELSE boards
  /\ UNCHANGED <<side, addr, pidFile, irohFile, startLock, opener, crowd>>

\* It is gone, or the stop gives up waiting.
StopWait ==
  /\ stop.at = "wait"
  /\ \/ ~Running(stop.board) /\ stop' = [stop EXCEPT !.at = "compare"] /\ UNCHANGED used
     \/ Running(stop.board) /\ used.fault < MaxFaults /\ Spend("fault") /\ stop' = [stop EXCEPT !.at = "idle"]
  /\ UNCHANGED <<boards, side, addr, pidFile, irohFile, startLock, opener, crowd>>

\* removeIfSame: compared and then removed, without a lock.
StopCompare ==
  /\ stop.at = "compare" /\ stop' = [stop EXCEPT !.at = IF pidFile = stop.board THEN "remove" ELSE "idle"]
  /\ UNCHANGED <<boards, side, addr, pidFile, irohFile, startLock, opener, crowd, used>>

StopRemove ==
  /\ stop.at = "remove" /\ stop' = [stop EXCEPT !.at = "idle"]
  /\ pidFile' = None
  /\ UNCHANGED <<boards, side, addr, irohFile, startLock, opener, crowd, used>>

ServicesInit ==
  /\ boards = [b \in Boards |-> [at |-> "none", port |-> DefaultPort, iroh |-> FALSE, asked |-> FALSE]]
  /\ side = [b \in Boards |-> [at |-> "off", status |-> "none", quick |-> 0, halted |-> FALSE, lost |-> FALSE]]
  /\ addr = None /\ pidFile = None /\ irohFile = None /\ startLock = None
  /\ opener = [o \in Openers |-> [at |-> "idle", board |-> CHOOSE b \in Boards : TRUE]]
  /\ stop = [at |-> "idle", board |-> CHOOSE b \in Boards : TRUE]
  /\ crowd = FALSE
  /\ used = [hand |-> 0, stop |-> 0, fault |-> 0, exit |-> 0]

ServicesNext ==
  \/ \E b \in Boards :
       \/ StartByHand(b) \/ RecordAddr(b) \/ RecordPID(b) \/ RecordIroh(b)
       \/ Drain(b) \/ ComparePID(b) \/ RemovePID(b) \/ ForgetAddr(b) \/ KillBoard(b) \/ Signal(b)
       \/ Resolve(b) \/ SayReady(b) \/ QuickExit(b) \/ Again(b) \/ SideEnds(b) \/ PeerStops(b)
  \/ \E o \in Openers : OpenLook(o) \/ OpenLock(o) \/ OpenAgain(o) \/ OpenAwait(o)
  \/ StopRead \/ StopWait \/ StopCompare \/ StopRemove

ServicesSpec == ServicesInit /\ [][ServicesNext]_wsVars

(***************************************************************************)
(* Properties.                                                             *)
(***************************************************************************)
\* The type of each variable.
ServicesTypeOK ==
  /\ boards \in [Boards -> [at : Away \cup {"listening", "addressed", "recorded", "serving", "draining", "removing", "unrecorded"},
                            port : Ports, iroh : BOOLEAN, asked : BOOLEAN]]
  /\ side \in [Boards -> [at : {"off", "resolve", "once", "ready", "pause", "done"},
                          status : {"none", "starting", "ready", "failed", "stopped"},
                          quick : 0 .. Attempts + MaxExits, halted : BOOLEAN, lost : BOOLEAN]]
  /\ addr \in Ports \cup {None} /\ pidFile \in Boards \cup {None}
  /\ irohFile \in {None, "starting", "ready", "failed", "stopped"} /\ startLock \in Openers \cup {None}

\* Only boards one after the other, no kill and no wait that ran out.
Quietly == ~crowd /\ used.fault = 0

\* docs/vocabulary.md: board.start.lock makes two simultaneous calls of hand open
\* start one board.  While nobody else starts or stops one, each call ends with a
\* board that answers and no process is started in vain.
OneBoardForAll ==
  used.hand = 0 /\ used.stop = 0 /\ used.fault = 0 =>
    /\ \A o \in Openers : opener[o].at # "failed"
    /\ \A b, c \in Boards : boards[b].at # "refused" /\ (Running(b) /\ Running(c) => b = c)

\* What is recorded beside boards that came one after the other names the one
\* that serves: its address, and the state of its hand-iroh, or nothing when it
\* has none; and when none is left, no address is on file.
RecordsTrue ==
  Quietly =>
    /\ \A b \in Boards : boards[b].at = "serving" => /\ addr = boards[b].port
                                                     /\ irohFile = IF boards[b].iroh THEN side[b].status ELSE None
    /\ (\A b \in Boards : ~Running(b)) => addr = None

\* hand-iroh is given up only when its binary is wrong or after as many quick
\* exits in a row as are allowed, never because the board ended; and what runs no
\* more is told as failed or stopped.
GivenUpRightly ==
  \A b \in Boards : Running(b) =>
    /\ side[b].quick <= Attempts + (IF CtxDone(b) THEN MaxExits ELSE 0)
    /\ side[b].at = "done" => side[b].status \in {"failed", "stopped"}
    /\ side[b].at # "done" /\ side[b].quick >= Attempts => CtxDone(b)

\* A board that is asked to end takes its hand-iroh with it: none is started or
\* left when the records are removed, and the last word is not that it failed.
EndedAsStopped ==
  [][\A b \in Boards :
       /\ side[b].at # "done" /\ side'[b].at = "done" /\ CtxDone(b) => side'[b].status = "stopped"
       /\ boards'[b].at \in {"removing", "unrecorded"} => side'[b].at \in {"off", "done"}]_wsVars

ServicesSafety == ServicesTypeOK /\ OneBoardForAll /\ RecordsTrue /\ GivenUpRightly

\* docs/vocabulary.md: board.addr records where the running board listens.
AddressTold ==
  \A b \in Boards : boards[b].at = "serving" /\ (\A c \in Boards : Running(c) => c = b) => addr = boards[b].port
=============================================================================
