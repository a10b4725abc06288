----------------------------- MODULE InputQueue -----------------------------
(***************************************************************************)
(* What the operator is promised of the messages sent to the supervisor    *)
(* (docs/vocabulary.md, Supervisor input): every message goes into a queue *)
(* that outlives supervisors; they are put to the supervisor in the order  *)
(* they were sent, and one is taken off the queue only after it was put to *)
(* it.  A message whose record was lost is put to it again: at least once. *)
(***************************************************************************)
EXTENDS Naturals

CONSTANT InputId

VARIABLES
  sent,   \* messages accepted
  seen,   \* messages put to a supervisor at least once
  done    \* messages recorded as delivered

Init == sent = {} /\ seen = {} /\ done = {}

Accept(i) ==
  /\ i \notin sent /\ \A j \in sent : j < i
  /\ sent' = sent \cup {i}
  /\ UNCHANGED <<seen, done>>

Present(i) ==
  /\ i \in sent \ done /\ \A j \in sent \ done : i <= j
  /\ seen' = seen \cup {i}
  /\ UNCHANGED <<sent, done>>

Record(i) ==
  /\ i \in seen \ done
  /\ done' = done \cup {i}
  /\ UNCHANGED <<sent, seen>>

Next == \E i \in InputId : Accept(i) \/ Present(i) \/ Record(i)

Spec == Init /\ [][Next]_<<sent, seen, done>>
=============================================================================
