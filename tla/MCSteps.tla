------------------------------- MODULE MCSteps -------------------------------
(***************************************************************************)
(* FleetMove and TurnSignals for TLC, in one run.  They share nothing:     *)
(* slice chooses which of them runs, and the other stays at one first      *)
(* state.  In "races" moves of a fleet overtake each other; in "alone" one *)
(* move is finished by two commands at once while work starts and calls    *)
(* fail; "signals" is TurnSignals.                                         *)
(***************************************************************************)
EXTENDS FleetMove, TurnSignals

VARIABLE slice

Alone == INSTANCE FleetMove WITH MaxMoves <- 1, MaxFault <- 2, Deed <- Deed \cup {"work"}

sVars == <<vars, tVars, slice>>
In(s) == slice = s /\ UNCHANGED slice
Moves(s) == In(s) /\ UNCHANGED tVars
Signals == In("signals") /\ UNCHANGED <<vars>>

StepsInit ==
  /\ slice \in {"races", "alone", "signals"}
  /\ Init /\ SignalsInit
  /\ slice # "signals" => sort = (CHOOSE s \in Sorts : TRUE) /\ agent = "idle"

\* The last deed is left to the worker that asks, in a run without losses.
FewDeeds == deeds' < MaxDeeds \/ (sort = "ask" /\ losses' = 0)

StepsNext ==
  \/ Moves("races") /\ Next
  \/ Moves("alone") /\ Alone!Next
  \/ Signals /\ SignalsNext /\ FewDeeds

\* The fairness of each slice.  As slice never changes, one condition may stand
\* for a step of each: it asks of a behaviour what the slice it is in asks.
MoveOrTurn(move, turn) == (Moves("alone") /\ move) \/ (Signals /\ turn)
StepsFairness ==
  /\ \A p \in Proc : WF_sVars(MoveOrTurn(Alone!Proceed(p), Loop))
  /\ SF_sVars(MoveOrTurn(\E p \in Proc : Alone!FinishPending(p), Handle))
  /\ SF_sVars(MoveOrTurn(\E p \in Proc : Alone!BeginRewrite(p), HeldTurns))
  /\ SF_sVars(MoveOrTurn(\E p \in Proc : Alone!InitHome(p), BeginTick))
  /\ WF_sVars(MoveOrTurn(Alone!Work(FALSE), Tick))
  /\ WF_sVars(Signals /\ List) /\ WF_sVars(Signals /\ NoteSent) /\ WF_sVars(Signals /\ NoteKeys)

StepsSpec == StepsInit /\ [][StepsNext]_sVars /\ StepsFairness

\* MoveFindable for one move at a time: whatever it was killed or failed at,
\* the marker tells where the fleet is, and without one nothing is left to do.
AloneFindable == slice = "alone" => MoveFindable

\* A move that was interrupted, or a folder moved by hand, settles when the
\* operator runs the commands Hand names (MoveSettles, for one move).
AloneSettles == []<>(slice = "alone" => Settled)
=============================================================================
