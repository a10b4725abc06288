---------------------------- MODULE WatchAlerts -----------------------------
(***************************************************************************)
(* What the watcher tells the operator, and the supervisor it resumes: a   *)
(* session reconciles when it opens and on every event and tick, alerts     *)
(* what ended and what was asked, delivers, and as it opens resumes a      *)
(* supervisor that ended by itself (cli/watch.go).                         *)
(*                                                                         *)
(* Commands run the same sync, end attempts and stop or resume the         *)
(* supervisor meanwhile.  A lock is taken for a while by a command; the    *)
(* watcher passes over a held one, except to resume.                       *)
(***************************************************************************)
EXTENDS Integers, FiniteSets

CONSTANTS Crew,       \* attempts
          Chief,      \* the supervisor: the row that was started last
          Batch,      \* decisions alerted by one pass (wakeBatch)
          MaxAsked, MaxHappens  \* bounds on decisions, and on what else happens

ASSUME AlertAssumption == Chief \notin Crew /\ Batch \in Nat \ {0} /\ MaxAsked \in Nat /\ MaxHappens \in Nat

VARIABLES
  watching,   \* where the watcher is: down, off (no stream), open, or in a pass
  opening,    \* that pass opens the session
  listed,     \* attempts that were live when the pass began, still to compare
  unsettled,  \* what its sync still has to look at
  standing,   \* rows: live, exited, stopped
  dead,       \* whose agents have exited
  locked,     \* attempts and supervisor held by a command
  asks, cursor,    \* decisions asked, and the watcher's place among them
  limitUp,    \* a usage limit is on the screen
  limited,    \* the supervisor the watcher told a limit of: none, this, earlier
  toldEnd, heard, limitTold, heardFrom,  \* only read by the properties
  happens

aVars == <<watching, opening, listed, unsettled, standing, dead, locked, asks, cursor,
           limitUp, limited, toldEnd, heard, limitTold, heardFrom, happens>>
crewRows == <<standing, dead, locked, limitUp>>
alerted == <<toldEnd, heard, limitTold, heardFrom>>

Everyone == Crew \cup {Chief}
Passing == {"list", "settle", "compare", "asks", "deliver", "resume", "relaunch"}

AlertsTypeOK ==
  /\ watching \in Passing \cup {"down", "off", "open"}
  /\ {opening, limitUp} \subseteq BOOLEAN /\ limited \in {"none", "this", "earlier"}
  /\ listed \subseteq Crew /\ unsettled \subseteq Everyone
  /\ dead \subseteq Everyone /\ locked \subseteq Everyone
  /\ standing \in [Everyone -> {"live", "exited", "stopped"}]
  /\ asks \in 0..MaxAsked /\ cursor \in 0..MaxAsked /\ heardFrom \in 0..MaxAsked

AlertsInit ==
  /\ watching = "down" /\ opening = FALSE /\ listed = {} /\ unsettled = {}
  /\ standing = [x \in Everyone |-> "live"] /\ dead = {} /\ locked = {}
  /\ asks = 0 /\ cursor = 0 /\ limitUp = FALSE /\ limited = "none"
  /\ toldEnd = [w \in Crew |-> 0] /\ heard = [d \in 1..MaxAsked |-> 0]
  /\ limitTold = 0 /\ heardFrom = 0 /\ happens = 0

(***************************************************************************)
(* The watcher.                                                            *)
(***************************************************************************)
\* A new process remembers nothing, and starts from the decisions asked so far.
StartWatch ==
  /\ watching = "down" /\ watching' = "off"
  /\ cursor' = asks /\ heardFrom' = asks /\ limited' = "none" /\ limitTold' = 0
  /\ UNCHANGED <<opening, listed, unsettled, crewRows, asks, toldEnd, heard, happens>>

Subscribe ==
  /\ watching = "off" /\ watching' = "list" /\ opening' = TRUE
  /\ UNCHANGED <<listed, unsettled, crewRows, asks, cursor, limited, alerted, happens>>
TickOrEvent ==
  /\ watching = "open" /\ watching' = "list" /\ opening' = FALSE
  /\ UNCHANGED <<listed, unsettled, crewRows, asks, cursor, limited, alerted, happens>>

\* reconcile: the live attempts are listed, then settled one by one with the
\* supervisor last, and those that are no longer live are alerted.
LiveAttempts ==
  /\ watching = "list" /\ watching' = "settle"
  /\ listed' = {w \in Crew : standing[w] = "live"}
  /\ unsettled' = listed' \cup {Chief}
  /\ UNCHANGED <<opening, crewRows, asks, cursor, limited, alerted, happens>>
SettleRow(x) ==
  /\ watching = "settle" /\ x \in unsettled /\ (x = Chief => unsettled = {Chief})
  /\ unsettled' = unsettled \ {x}
  /\ standing' = IF x \notin locked /\ x \in dead /\ standing[x] = "live"
              THEN [standing EXCEPT ![x] = "exited"] ELSE standing
  /\ watching' = IF x = Chief THEN "compare" ELSE watching
  /\ UNCHANGED <<opening, listed, dead, locked, limitUp, asks, cursor, limited, alerted, happens>>
Compare(w) ==
  /\ watching = "compare" /\ w \in listed /\ listed' = listed \ {w}
  /\ toldEnd' = [toldEnd EXCEPT ![w] = IF standing[w] = "live" THEN @ ELSE @ + 1]
  /\ UNCHANGED <<watching, opening, unsettled, crewRows, asks, cursor, limited, heard, limitTold, heardFrom, happens>>
Compared ==
  /\ watching = "compare" /\ listed = {} /\ watching' = "asks"
  /\ UNCHANGED <<opening, listed, unsettled, crewRows, asks, cursor, limited, alerted, happens>>

\* decisions: a batch of those after the cursor, which moves with each alert.
Decisions ==
  LET last == IF cursor + Batch < asks THEN cursor + Batch ELSE asks IN
  /\ watching = "asks" /\ watching' = "deliver"
  /\ cursor' = last
  /\ heard' = [d \in 1..MaxAsked |-> IF d \in cursor + 1..last THEN heard[d] + 1 ELSE heard[d]]
  /\ UNCHANGED <<opening, listed, unsettled, crewRows, asks, limited, toldEnd, limitTold, heardFrom, happens>>

\* deliver: a limit that was told of is over once the screen shows none or no
\* supervisor is live; one that delivery meets is told of once.  Delivery looks
\* at the screen only when it gets the lock and finds the supervisor at rest.
Deliver(rests) ==
  LET there == standing[Chief] = "live"
      still == IF there /\ limitUp THEN limited ELSE "none"
      meets == rests /\ there /\ Chief \notin dead \cup locked /\ limitUp
  IN /\ watching = "deliver" /\ watching' = IF opening THEN "resume" ELSE "open"
     /\ limited' = IF meets THEN "this" ELSE still
     /\ limitTold' = IF meets /\ still # "this" THEN limitTold + 1 ELSE limitTold
     /\ UNCHANGED <<opening, listed, unsettled, crewRows, asks, cursor, toldEnd, heard, heardFrom, happens>>

\* autoresume, once in a session: it waits for the lock, and looks again then.
\* Without a session to resume, or when the launch fails, it only says so.
Endings == {"exited"}
TakeLock ==
  /\ watching = "resume" /\ Chief \notin locked
  /\ IF standing[Chief] \in Endings THEN watching' = "relaunch" /\ locked' = locked \cup {Chief}
     ELSE watching' = "open" /\ UNCHANGED locked
  /\ UNCHANGED <<opening, listed, unsettled, standing, dead, limitUp, asks, cursor, limited, alerted, happens>>
ChiefAgain ==
  /\ standing' = [standing EXCEPT ![Chief] = "live"] /\ dead' = dead \ {Chief}
  /\ limitUp' = FALSE /\ limitTold' = 0
  /\ limited' = IF limited = "this" THEN "earlier" ELSE limited
Relaunch(failed) ==
  /\ watching = "relaunch" /\ locked' = locked \ {Chief} /\ opening' = FALSE
  /\ IF failed THEN watching' = "open" /\ UNCHANGED <<standing, dead, limitUp, limited, limitTold>>
     ELSE watching' = "deliver" /\ ChiefAgain
  /\ UNCHANGED <<listed, unsettled, asks, cursor, toldEnd, heard, heardFrom, happens>>

(***************************************************************************)
(* Everybody else.                                                         *)
(***************************************************************************)
Happen == happens < MaxHappens /\ happens' = happens + 1
Apart == UNCHANGED <<opening, listed, unsettled, cursor, limited, toldEnd, heard, heardFrom>>

\* Any step of a pass may fail, which ends the session, and the process may be
\* killed, which gives back the lock it held.
SessionFails(killed) ==
  /\ Happen /\ watching # "down" /\ (killed \/ watching \notin {"off"})
  /\ watching' = IF killed THEN "down" ELSE "off"
  /\ listed' = {} /\ unsettled' = {} /\ opening' = FALSE
  /\ locked' = IF watching = "relaunch" THEN locked \ {Chief} ELSE locked
  /\ UNCHANGED <<standing, dead, limitUp, asks, cursor, limited, alerted>>

AgentExits(x) ==
  /\ Happen /\ x \notin dead /\ dead' = dead \cup {x}
  /\ UNCHANGED <<watching, standing, locked, asks, limitUp, limitTold>> /\ Apart
\* The sync of a command, of one row.
CommandSettles(x) ==
  /\ Happen /\ x \in dead \ locked /\ standing[x] = "live"
  /\ standing' = [standing EXCEPT ![x] = "exited"]
  /\ UNCHANGED <<watching, dead, locked, asks, limitUp, limitTold>> /\ Apart
\* A command takes a lock to stop or to resume; it may end without doing so.
Lock(x) ==
  /\ Happen /\ x \notin locked /\ locked' = locked \cup {x}
  /\ UNCHANGED <<watching, standing, dead, asks, limitUp, limitTold>> /\ Apart
Unlock(x) ==
  /\ x \in locked /\ (x = Chief => watching # "relaunch") /\ locked' = locked \ {x}
  /\ UNCHANGED <<watching, standing, dead, asks, limitUp, limitTold, happens>> /\ Apart
CommandStops(x) ==
  /\ x \in locked /\ (x = Chief => watching # "relaunch") /\ standing[x] = "live"
  /\ standing' = [standing EXCEPT ![x] = "stopped"] /\ dead' = dead \cup {x}
  /\ locked' = locked \ {x}
  /\ UNCHANGED <<watching, asks, limitUp, limitTold, happens>> /\ Apart
CommandResumes ==
  /\ Chief \in locked /\ watching # "relaunch" /\ standing[Chief] # "live"
  /\ locked' = locked \ {Chief} /\ ChiefAgain
  /\ UNCHANGED <<watching, opening, listed, unsettled, asks, cursor, toldEnd, heard, heardFrom, happens>>
Ask ==
  /\ asks < MaxAsked /\ asks' = asks + 1
  /\ UNCHANGED <<watching, crewRows, limitTold, happens>> /\ Apart
Limit(up) ==
  /\ Happen /\ limitUp # up /\ Chief \notin dead /\ limitUp' = up /\ limitTold' = 0
  /\ UNCHANGED <<watching, standing, dead, locked, asks>> /\ Apart

AlertsNext ==
  \/ StartWatch \/ Subscribe \/ TickOrEvent \/ LiveAttempts \/ Compared \/ Decisions \/ TakeLock
  \/ \E x \in Everyone : \/ SettleRow(x) \/ AgentExits(x) \/ CommandSettles(x) \/ Lock(x)
                         \/ Unlock(x) \/ CommandStops(x)
  \/ \E w \in Crew : Compare(w)
  \/ \E b \in BOOLEAN : Deliver(b) \/ Relaunch(b) \/ SessionFails(b) \/ Limit(b)
  \/ CommandResumes \/ Ask

AlertsSpec == AlertsInit /\ [][AlertsNext]_aVars

(***************************************************************************)
(* Properties.                                                             *)
(***************************************************************************)
\* reconcile, watch.go:392: the end of an attempt is alerted at most once, by
\* whatever passes and processes, and never while its row is live.
EndsToldOnce == \A w \in Crew : toldEnd[w] <= 1 /\ (toldEnd[w] = 1 => standing[w] # "live")
\* decisions, watch.go:423: of the decisions asked since the process began, those
\* before its place were each alerted, and no decision was alerted twice.
AsksHeardOnce ==
  \A d \in 1..MaxAsked : /\ heard[d] <= 1
                         /\ d \in heardFrom + 1..cursor => heard[d] = 1
                         /\ heard[d] = 1 => d <= asks
\* deliver, watch.go:450: one process tells of a stretch at the limit once.
LimitToldOnce == limitTold <= 1
\* autoresume, watch.go:492: what the operator stopped is not brought back.
StoppedStays == watching = "relaunch" => standing[Chief] = "exited"

AlertsSafety == AlertsTypeOK /\ EndsToldOnce /\ AsksHeardOnce /\ LimitToldOnce /\ StoppedStays
=============================================================================
