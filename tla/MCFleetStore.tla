---------------------------- MODULE MCFleetStore ----------------------------
(* FleetStore for TLC. *)
EXTENDS FleetStore

\* What is explored: two tasks whose workers continue each other's branches
\* and report, or one task with one worker, its decision, timers and plan;
\* not the product of both.
Slices ==
  \/ /\ \A d \in DecisionId : decision[d].status = "none"
     /\ \A w \in TimerId : timer[w].status = "none"
     /\ \A t \in TaskId : plan[t] = 0 /\ delivered[t] = {}
  \/ /\ \A a \in AttemptId \ {1} : attempt[a].status = "none"
     /\ \A r \in ReportId : report[r].task = NoTask
     /\ \A t \in TaskId \ {1} : task[t] = "none"
=============================================================================
