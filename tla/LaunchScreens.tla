--------------------------- MODULE LaunchScreens ---------------------------
(***************************************************************************)
(* What hand does with the screen of an agent it has just launched         *)
(* (afterLaunch): it submits a brief that the harness only prefilled,      *)
(* answers the question whether to trust the folder, and notes on the row  *)
(* what it pressed and what it left to the operator.  Reading the screen,  *)
(* asking Luvus for the agent's status and pressing a key are calls of     *)
(* their own; the agent draws, and the operator may press, between any two *)
(* of them.  Luvus takes a key only for the revision of the screen that    *)
(* was read, but the agent takes it from its input whenever it gets there. *)
(***************************************************************************)
EXTENDS Naturals, Sequences

CONSTANTS Harnesses,   \* the harnesses that are launched
          MaxRev,      \* changes of the screen
          MaxPresses,  \* keys of the operator
          MaxLate,     \* waits for an agent that has not taken its key
          MaxDrops     \* keys the agent drops, answers Luvus fails to give

VARIABLES
  harness,  \* the one that was launched
  trouble,  \* its screen says that it cannot work: no such model, no login
  pane,     \* the screen, its revision, the keys waiting in the agent's input
  tending,   \* the run of afterLaunch
  noted,    \* the kinds of the events recorded on the row
  harm,     \* keys of hand's that answered a question they were not meant for
  own,      \* a key of hand's made the agent trust its own folder
  alone,    \* the agent submitted its brief by itself
  presses, lagged, drops

sVars == <<harness, trouble, pane, tending, noted, harm, own, alone, presses, lagged, drops>>

\* trustScreens and launchScreens: which harness asks to trust a folder, which
\* of those has a cursor that may stand elsewhere than on yes, which saves a
\* trust for the whole repository, and which may say that it cannot work.
Prefills == {"opencode"}
trustScreens == {"agy", "claude", "codex", "copilot"}
NoCursor == {"claude", "codex", "copilot"}
RepoNote == {"codex"}
launchScreens == {"opencode", "copilot"}

\* "yes" and "no": the trust question for the agent's own folder, by the row
\* the cursor is on; "other": the question for another folder or repository,
\* or one that cannot be read.  "box": the brief in the input box.  "taken":
\* the agent has its brief.  "dialog": any later question.
Asking == {"yes", "no", "other"}
Screens == {"blank", "banner", "box", "taken", "dialog", "gone"} \cup Asking
Key == [by : {"hand", "operator"}, key : {"enter", "move"}]

\* tries: the ByEnter of submitPrefilled; moved, pressed: the cursor was moved, a
\* key was sent; quiet: no question and not blank at the last look.
Run == [at : {"look", "judge", "press", "confirm", "keys", "trusted", "scan", "done", "off"},
        read : Screens, rev : Nat, last : Nat, seen : BOOLEAN, quiet : BOOLEAN, moved : BOOLEAN,
        retried : BOOLEAN, tries : Nat, entered : BOOLEAN,
        said : {"", "submitted", "unconfirmed", "unsubmitted", "accepted", "stayed",
                "unpressed", "elsewhere", "unasked"}]

submitTries == 3

ScreensTypeOK ==
  /\ pane \in [screen : Screens, rev : Nat, typed : Seq(Key)]
  /\ tending \in Run
  /\ noted \subseteq {"keys", "trusted", "blocked"}
  /\ harm \in BOOLEAN /\ own \in BOOLEAN /\ alone \in BOOLEAN

ScreensInit ==
  /\ harness \in Harnesses
  /\ trouble \in IF harness \in launchScreens THEN BOOLEAN ELSE {FALSE}
  /\ pane = [screen |-> "blank", rev |-> 1, typed |-> <<>>]
  /\ tending = [at |-> "look", read |-> "blank", rev |-> 0, last |-> 0, seen |-> FALSE,
               quiet |-> FALSE, moved |-> FALSE, retried |-> FALSE, tries |-> 0,
               entered |-> FALSE, said |-> ""]
  /\ noted = {} /\ harm = FALSE /\ own = FALSE /\ alone = FALSE
  /\ presses = 0 /\ lagged = 0 /\ drops = 0

Lost == drops < MaxDrops /\ drops' = drops + 1
agentVars == <<pane, harm, own, alone>>
bounded == <<presses, lagged, drops>>

-----------------------------------------------------------------------------
(* The agent and the operator *)

\* What the agent may draw next by itself.
Draws ==
  CASE pane.screen = "blank" /\ harness \in Prefills -> {"box", "taken"}
    [] pane.screen \in {"blank", "banner"} /\ harness \in trustScreens ->
         {"banner", "yes", "other", "taken"} \cup (IF harness \in NoCursor THEN {"no"} ELSE {})
    [] pane.screen = "box" -> {"taken"}
    [] pane.screen = "taken" -> {"dialog"}
    [] pane.screen = "dialog" -> {"taken"}
    [] OTHER -> {}

Draw(to) ==
  /\ pane.rev < MaxRev
  /\ \/ to \in Draws
     \/ to = pane.screen /\ to # "gone"
     \/ to = "gone" /\ pane.screen # "gone"
  /\ pane' = [pane EXCEPT !.screen = to, !.rev = @ + 1]
  /\ alone' = (alone \/ (harness \in Prefills /\ to = "taken" /\ pane.screen \in {"blank", "box"}))
  /\ UNCHANGED <<harness, trouble, tending, noted, harm, own, bounded>>

\* What a key makes of a screen.
Answered(screen, press) ==
  CASE press = "enter" /\ screen \in {"yes", "other", "box", "dialog"} -> "taken"
    [] press = "enter" /\ screen = "no" -> "gone"
    [] press = "move" /\ screen = "no" -> "yes"
    [] press = "move" /\ screen = "yes" -> "no"
    [] OTHER -> screen

\* The questions a key of hand's is never meant for.
Unmeant(press) ==
  {"other", "dialog"} \cup (IF press = "enter" THEN {"no"} ELSE {"yes"})

TakeKey ==
  /\ pane.typed # <<>> /\ pane.screen # "gone"
  /\ LET k == Head(pane.typed)
         byHand == k.by = "hand" IN
     /\ pane' = [screen |-> Answered(pane.screen, k.key), rev |-> pane.rev + 1, typed |-> Tail(pane.typed)]
     /\ harm' = (harm \/ (byHand /\ pane.screen \in Unmeant(k.key)))
     /\ own' = (own \/ (byHand /\ k.key = "enter" /\ pane.screen = "yes"))
  /\ UNCHANGED <<harness, trouble, tending, noted, alone, bounded>>

\* An agent that does not read its input yet drops what was typed.
DropKey ==
  /\ pane.typed # <<>> /\ Lost
  /\ pane' = [pane EXCEPT !.typed = Tail(@)]
  /\ UNCHANGED <<harness, trouble, tending, noted, harm, own, alone, presses, lagged>>

OperatorPresses(press) ==
  /\ presses < MaxPresses /\ pane.screen # "gone"
  /\ presses' = presses + 1
  /\ pane' = [pane EXCEPT !.typed = Append(@, [by |-> "operator", key |-> press])]
  /\ UNCHANGED <<harness, trouble, tending, noted, harm, own, alone, lagged, drops>>

\* What agent.explain may answer of a screen: it reads the same screen, and
\* knows little of one that is being drawn.
Explain ==
  CASE pane.screen \in {"blank", "banner"} -> {"idle", "working", "unknown"}
    [] pane.screen \in Asking -> {"blocked", "idle", "working"}
    [] pane.screen = "box" -> {"idle"}
    [] pane.screen = "taken" -> {"idle", "working", "done"}
    [] pane.screen = "dialog" -> {"blocked"}
    [] pane.screen = "gone" -> {}

-----------------------------------------------------------------------------
(* afterLaunch *)

Stands(step) == tending.at = step
Turns(r) == tending' = r /\ UNCHANGED <<harness, trouble, noted>>
Finish(r, said) == Turns([r EXCEPT !.at = "keys", !.said = said])

\* missed, and the end of submitPrefilled: what is said when looking ends.
missed ==
  IF harness \in Prefills THEN IF tending.tries > 0 THEN "unconfirmed" ELSE "unsubmitted"
  ELSE IF tending.seen THEN "unpressed" ELSE "unasked"

ReadScreen ==
  /\ Stands("look") /\ pane.screen # "gone"
  /\ Turns([tending EXCEPT !.at = "judge", !.read = pane.screen, !.rev = pane.rev])
  /\ UNCHANGED <<agentVars, bounded>>

\* The terminal is gone, or the time is over.
LookEnds ==
  /\ Stands("look")
  /\ Finish(tending, missed)
  /\ UNCHANGED <<agentVars, bounded>>

\* What the screen and the agent's status say: the brief is in the input box, or
\* no longer; opencode's own list has it; the agent waits, works, or left its
\* prompt.  The list and the status may fail to come.
markerInInputBox == tending.read = "box"
emptyInputBox == tending.read = "taken"
opencodeSubmitted == pane.screen \in {"taken", "dialog"}
idle == "idle" \in Explain
ran == Explain \cap {"working", "done"} # {}
leftIdle == Explain \ {"idle"} # {}
trustCleared == pane.screen \notin Asking \cup {"gone"}

\* submitPrefilled: opencode's own list has the brief, or its box is empty and
\* it runs; else Enter, while the brief is in the box and the agent is idle; else
\* wait a little.  The list and the status may fail to come.
submitPrefilled ==
  /\ Stands("judge") /\ harness \in Prefills
  /\ \/ /\ opencodeSubmitted \/ (emptyInputBox /\ ran)
        /\ Finish(tending, "submitted")
     \/ markerInInputBox /\ idle /\ Turns([tending EXCEPT !.at = "press"])
     \/ Turns([tending EXCEPT !.at = "look"])
  /\ UNCHANGED <<agentVars, bounded>>

\* names and same: the question names the agent's folder, and no repository
\* but the project's.
names(screen) == screen \in {"yes", "no"}

\* acceptTrust: a question is answered once it has stopped changing, when it
\* names the agent's folder: with Enter, when the cursor is on yes, else the
\* cursor is moved there, once.  Looking ends early when the agent shows
\* something else for a while.
acceptTrust ==
  LET read  == tending.read
      asked == read \in Asking
      ready == read \in {"yes", "other"} \/ (read = "no" /\ ~tending.moved)
      next  == [tending EXCEPT !.at = "look", !.seen = @ \/ asked, !.last = tending.rev,
                              !.quiet = ~ready /\ ~asked /\ read # "blank"]
  IN
  /\ Stands("judge") /\ harness \in trustScreens
  /\ IF ready /\ ~tending.moved /\ tending.rev # tending.last THEN Turns([next EXCEPT !.quiet = FALSE])
     ELSE IF ready /\ ~names(read) THEN Finish(next, "elsewhere")
     ELSE IF ready THEN Turns([next EXCEPT !.at = "press"])
     ELSE \/ Turns(next)
          \/ /\ next.quiet /\ Explain \cap {"working", "idle", "done"} # {}
             /\ Finish(next, IF next.seen THEN "unpressed" ELSE "unasked")
  /\ UNCHANGED <<agentVars, bounded>>

\* Luvus takes a key for the revision that was read, and no other.
KeysTaken == pane.screen # "gone" /\ tending.rev = pane.rev

ByEnter == tending.read # "no"
Sent == [tending EXCEPT !.at = IF ByEnter THEN "confirm" ELSE "look",
                       !.tries = IF harness \in Prefills THEN @ + 1 ELSE @,
                       !.entered = @ \/ ByEnter, !.moved = @ \/ ~ByEnter, !.retried = FALSE]
Typed == [pane EXCEPT !.typed = Append(@, [by |-> "hand", key |-> IF ByEnter THEN "enter" ELSE "move"])]

Press ==
  /\ Stands("press") /\ KeysTaken
  /\ pane' = Typed
  /\ Turns(Sent)
  /\ UNCHANGED <<harm, own, alone, bounded>>

\* The screen has changed: look again; a trust question only once.
Conflict ==
  /\ Stands("press") /\ pane.screen # "gone" /\ ~KeysTaken
  /\ IF harness \in trustScreens /\ tending.retried THEN Finish(tending, "unpressed")
     ELSE Turns([tending EXCEPT !.at = "look", !.retried = TRUE])
  /\ UNCHANGED <<agentVars, bounded>>

\* Another error, or no answer, with the key typed or not.
PressFails ==
  /\ Stands("press")
  /\ \/ pane.screen = "gone" /\ UNCHANGED <<pane, drops>>
     \/ Lost /\ (UNCHANGED pane \/ (KeysTaken /\ pane' = Typed))
  /\ Finish(tending, IF harness \in Prefills THEN missed ELSE "unpressed")
  /\ UNCHANGED <<harm, own, alone, presses, lagged>>

\* The agent reacted.
Reacted ==
  /\ Stands("confirm")
  /\ IF harness \in Prefills
     THEN leftIdle /\ Finish(tending, "submitted")
     ELSE trustCleared /\ Finish(tending, "accepted")
  /\ UNCHANGED <<agentVars, bounded>>

\* It did not in time.
NoReaction ==
  /\ Stands("confirm")
  /\ IF harness \in Prefills THEN idle \/ pane.screen = "gone" ELSE ~trustCleared
  /\ lagged' = IF pane.typed # <<>> THEN lagged + 1 ELSE lagged
  /\ lagged' <= MaxLate
  /\ CASE harness \notin Prefills -> Finish(tending, "stayed")
       [] harness \in Prefills /\ tending.tries = submitTries -> Finish(tending, "unconfirmed")
       [] OTHER -> Turns([tending EXCEPT !.at = "look"])
  /\ UNCHANGED <<agentVars, presses, drops>>

\* afterLaunch records what it pressed.
NoteKeys ==
  /\ Stands("keys")
  /\ noted' = IF tending.entered \/ tending.moved THEN noted \cup {"keys"} ELSE noted
  /\ tending' = [tending EXCEPT !.at = "trusted"]
  /\ UNCHANGED <<harness, trouble, agentVars, bounded>>

\* savedTrust: Enter was sent to a question whose answer is saved.
savedTrust == harness \in RepoNote /\ tending.said \in {"accepted", "stayed"}

NoteTrusted ==
  /\ Stands("trusted")
  /\ noted' = IF savedTrust THEN noted \cup {"trusted"} ELSE noted
  /\ tending' = [tending EXCEPT !.at = "scan"]
  /\ UNCHANGED <<harness, trouble, agentVars, bounded>>

\* scanLaunch: the screen says what is wrong.
scanLaunch == trouble /\ pane.screen \in {"box", "taken", "banner"}

\* What is left to the operator is recorded: an unsubmitted or unconfirmed
\* brief, a question that was not answered, and trouble that shows.
NoteBlocked ==
  /\ Stands("scan")
  /\ LET blocked == \/ tending.said \in {"unconfirmed", "unsubmitted", "stayed", "unpressed", "elsewhere"}
                    \/ tending.said # "submitted" /\ scanLaunch
     IN  noted' = IF blocked THEN noted \cup {"blocked"} ELSE noted
  /\ tending' = [tending EXCEPT !.at = "done"]
  /\ UNCHANGED <<harness, trouble, agentVars, bounded>>

\* The command is killed, or a note cannot be written.
LaunchKilled ==
  /\ tending.at \notin {"done", "off"}
  /\ Turns([tending EXCEPT !.at = "off"])
  /\ UNCHANGED <<agentVars, bounded>>

ScreensNext ==
  \/ \E to \in Screens : Draw(to)
  \/ TakeKey \/ DropKey \/ \E press \in {"enter", "move"} : OperatorPresses(press)
  \/ ReadScreen \/ LookEnds \/ submitPrefilled \/ acceptTrust
  \/ Press \/ Conflict \/ PressFails \/ Reacted \/ NoReaction
  \/ NoteKeys \/ NoteTrusted \/ NoteBlocked \/ LaunchKilled

ScreensSpec == ScreensInit /\ [][ScreensNext]_sVars
-----------------------------------------------------------------------------
(* Properties *)

\* No key of hand's quits the agent, trusts a folder that is not its own, or
\* answers a later question, unless the operator pressed keys at the same time;
\* an Enter for a brief may, when the agent submitted it by itself meanwhile or
\* took longer than hand waits.
KeysMeant ==
  harm => \/ presses > 0
          \/ harness \in Prefills /\ (alone \/ lagged > 0)

\* Once a launch is over the row says what the operator needs to know: a brief
\* said to be submitted is, a question said to be answered is off the screen,
\* a trust that hand gave and the harness keeps is recorded, and a question or
\* a brief that hand saw and that still waits is recorded as blocked.
NotesTrue ==
  Stands("done") =>
    /\ tending.said = "submitted" => pane.screen \notin {"blank", "box"}
    /\ tending.said = "accepted" => pane.screen \notin Asking
    /\ own /\ harness \in RepoNote => "trusted" \in noted \/ drops > 0
    /\ (harness \in Prefills /\ pane.screen = "box") \/ (tending.seen /\ pane.screen \in Asking)
         => "blocked" \in noted

ScreensSafety == ScreensTypeOK /\ KeysMeant /\ NotesTrue
=============================================================================
