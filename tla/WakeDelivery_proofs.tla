------------------------ MODULE WakeDelivery_proofs ------------------------
(***************************************************************************)
(* Proofs about WakeDelivery for any number of runs, supervisors, messages *)
(* and events, and any number of faults: its types, that messages reach    *)
(* the supervisor in order and wakes are not passed over, that each row    *)
(* goes on from the one it continues, and that the message queue is the    *)
(* one the operator is promised (InputQueue).                              *)
(***************************************************************************)
EXTENDS WakeDelivery, FiniteSetTheorems, TLAPS

-----------------------------------------------------------------------------
(* The inductive invariant *)

\* The file lock: only one run is inside it.
LockKept == \A p, q \in Run : run[p].at # "idle" /\ run[q].at # "idle" => p = q

\* Of messages: ids are given out in order; one reached an agent only after it
\* was sent, and is recorded as delivered only after it reached one.
QueueKept ==
  /\ \A i, j \in InputId : j < i /\ input[i] # "none" => input[j] # "none"
  /\ \A i \in InputId : told[i] > 0 => input[i] # "none"
  /\ \A i \in InputId : input[i] = "delivered" => told[i] > 0

\* What a delivery has read: messages still pending, none of them with an
\* earlier pending one that is not on the list; one about to be recorded was put
\* to an agent.
ListSound(p) ==
  /\ run[p].at \in {"send", "mark"} =>
       /\ run[p].todo \subseteq Pending
       /\ \A i \in run[p].todo, j \in Pending : j < i => j \in run[p].todo
  /\ run[p].at = "mark" => \E i \in InputId : First(p, i) /\ told[i] > 0
ListKept == \A p \in Run : ListSound(p)

\* A message is recorded next in the run that put it to an agent.
Unrecorded(i) == \E p \in Run : At(p, "mark") /\ First(p, i)

\* A fault stands for every time a message was put to an agent and not recorded.
ToldOnce ==
  \A i \in InputId :
    /\ told[i] <= 1 + faults
    /\ input[i] # "delivered" => told[i] <= faults \/ Unrecorded(i)

\* The model a row that continues s runs.
Carried(s) == IF sup[s].switch = NoModel THEN sup[s].model ELSE sup[s].switch

\* Of rows: only the latest is live; a row continues an earlier one that ended.
RowsKept ==
  /\ \A s, o \in SupId : Live(s) /\ s < o => sup[o].status = "none"
  /\ \A s \in SupId : sup[s].status = "none" => sup[s] = NoRow
  /\ \A s \in SupId : sup[s].prev # NoSup =>
       sup[s].prev < s /\ sup[sup[s].prev].status \in EndStatus

\* What a run has in hand of the rows: they are as it read them.
RowsSound(p) ==
  /\ run[p].at \in {"send", "mark", "wake", "prompt", "advance", "stop", "end"} =>
       run[p].sup \in SupId /\ Running(run[p].sup)
  /\ run[p].at \in {"create", "started"} =>
       run[p].sup \in SupId /\ sup[run[p].sup].status = "launching"
  /\ run[p].at \in {"stop", "end"} =>
       /\ run[p].prev = NoSup
       /\ run[p].then = "deliver" => run[p].model # NoModel /\ run[p].model = sup[run[p].sup].switch
  /\ run[p].at = "end" => run[p].to # "failed"
  /\ run[p].at = "add" /\ run[p].prev # NoSup =>
       sup[run[p].prev].status \in EndStatus /\ run[p].model = Carried(run[p].prev)
RunRows == \A p \in Run : RowsSound(p)

\* A row from which wakes may still go on: nothing that came after it has run.
Current(s) ==
  /\ sup[s].status \notin {"none", "failed"}
  /\ \A o \in SupId : s < o => sup[o].status \in {"none", "failed", "launching"}

\* The run that put an event to an agent moves the cursor over it next.
Unpassed(e) == \E p \in Run : At(p, "advance") /\ e \in run[p].batch

\* Of events: ids are given out in order; one was shown only after it was
\* recorded; cursors stand at an event there is.
EventsKept ==
  /\ \A e, d \in EventId : d < e /\ event[e] # "none" => event[d] # "none"
  /\ \A e \in EventId : shown[e] > 0 => event[e] # "none"
  /\ \A s \in SupId : sup[s].cursor \in {0} \cup UsedEvents

\* A fault stands for every time an event beyond the cursor was shown.
ShownOnce ==
  /\ \A e \in EventId : shown[e] <= 1 + faults
  /\ \A s \in SupId, e \in EventId :
       Current(s) /\ sup[s].cursor < e => shown[e] <= faults \/ Unpassed(e)

\* Every event from a to b was shown to an agent or needs no attention any more.
Passed(a, b) == \A e \in UsedEvents : a < e /\ e <= b => shown[e] > 0 \/ e \in stale

\* What a run has in hand of the events: a digest holds all that matters up to
\* its last event, and a row about to be added takes wakes from where those
\* before it were shown.
EventsSound(p) ==
  /\ run[p].at = "add" =>
       /\ run[p].cur \in {0} \cup UsedEvents
       /\ Passed(run[p].since, run[p].cur)
       /\ \A e \in EventId : run[p].cur < e => shown[e] <= faults
  /\ run[p].at \in {"wake", "prompt", "advance"} => run[p].cur = sup[run[p].sup].cursor
  /\ run[p].at \in {"prompt", "advance"} =>
       /\ run[p].last \in UsedEvents /\ run[p].cur < run[p].last
       /\ \A e \in run[p].batch : e \in UsedEvents /\ run[p].cur < e /\ e <= run[p].last
       /\ \A e \in UsedEvents : run[p].cur < e /\ e <= run[p].last => e \in run[p].batch \cup stale
  /\ run[p].at = "advance" => \A e \in run[p].batch : shown[e] > 0
RunEvents == \A p \in Run : EventsSound(p)

\* One of the messages, one of the rows, one of the events.
Messages == QueueKept /\ InputsInOrder /\ ListKept /\ ToldOnce
SupRows == RowsKept /\ SwitchCarried /\ RunRows
Wakes == EventsKept /\ CursorSkipsNothing /\ ShownOnce /\ RunEvents

DInv == TypeOK /\ LockKept /\ Messages /\ SupRows /\ Wakes

-----------------------------------------------------------------------------
(* Type correctness *)

\* The records a run goes on with are runs' records.
LEMMA RunTypes ==
  ASSUME TypeOK, NEW r \in RunState, NEW s \in SupId \cup {NoSup}
  PROVE  /\ Idle \in RunState
         /\ \A step \in {"idle", "send", "mark", "wake", "prompt", "advance", "stop", "end", "add",
                        "create", "started"} : [r EXCEPT !.at = step] \in RunState
         /\ [Idle EXCEPT !.at = "send", !.sup = s, !.todo = Pending] \in RunState
         /\ \A n \in Nat, f \in BOOLEAN :
              [Idle EXCEPT !.at = "wake", !.sup = s, !.cur = n, !.force = f] \in RunState
         /\ \A m \in Model \cup {NoModel}, then \in {"deliver", "harness"} :
              [Idle EXCEPT !.at = "stop", !.sup = s, !.model = m, !.then = then] \in RunState
         /\ [Idle EXCEPT !.at = "stop", !.sup = s] \in RunState
         /\ \A todo \in SUBSET InputId : [r EXCEPT !.at = "send", !.todo = todo] \in RunState
         /\ \A last \in EventId, batch \in SUBSET EventId :
              [r EXCEPT !.at = "prompt", !.last = last, !.batch = batch] \in RunState
         /\ \A n \in Nat, m \in Model \cup {NoModel} :
              [Idle EXCEPT !.at = "add", !.cur = n, !.since = n, !.model = m] \in RunState
         /\ \A cur, since \in Nat, m \in Model \cup {NoModel} :
              [Idle EXCEPT !.at = "add", !.cur = cur, !.since = since, !.prev = s, !.model = m] \in RunState
         /\ \A to \in {"stopped", "exited"} : [r EXCEPT !.at = "end", !.to = to] \in RunState
         /\ \A cur, since \in Nat :
              /\ [r EXCEPT !.at = "add", !.prev = s, !.cur = cur, !.since = since] \in RunState
              /\ [r EXCEPT !.at = "add", !.cur = cur, !.since = since, !.then = "done"] \in RunState
         /\ [r EXCEPT !.at = "create", !.sup = s] \in RunState
  <1> USE IdAssumption
  <1>1. Idle \in RunState
    BY DEF RunState, Idle, EndStatus
  <1>2. /\ \A step \in {"idle", "send", "mark", "wake", "prompt", "advance", "stop", "end", "add",
                        "create", "started"} : [r EXCEPT !.at = step] \in RunState
        /\ \A todo \in SUBSET InputId : [r EXCEPT !.at = "send", !.todo = todo] \in RunState
        /\ \A last \in EventId, batch \in SUBSET EventId :
             [r EXCEPT !.at = "prompt", !.last = last, !.batch = batch] \in RunState
    BY ZenonT(40) DEF RunState
  <1>3. ASSUME NEW to \in {"stopped", "exited"} PROVE [r EXCEPT !.at = "end", !.to = to] \in RunState
    BY DEF RunState, EndStatus
  <1>4. [r EXCEPT !.at = "create", !.sup = s] \in RunState
    BY DEF RunState
  <1>5. ASSUME NEW cur \in Nat, NEW since \in Nat
        PROVE  [r EXCEPT !.at = "add", !.prev = s, !.cur = cur, !.since = since] \in RunState
    BY ZenonT(40) DEF RunState
  <1>6. ASSUME NEW cur \in Nat, NEW since \in Nat
        PROVE  [r EXCEPT !.at = "add", !.cur = cur, !.since = since, !.then = "done"] \in RunState
    BY DEF RunState
  <1>7. [Idle EXCEPT !.at = "send", !.sup = s, !.todo = Pending] \in RunState
    <2>1. Pending \subseteq InputId
      BY DEF Pending
    <2> QED
      BY ZenonT(40), <2>1, <1>1 DEF RunState
  <1>8. ASSUME NEW n \in Nat, NEW f \in BOOLEAN
        PROVE  [Idle EXCEPT !.at = "wake", !.sup = s, !.cur = n, !.force = f] \in RunState
    <2> DEFINE begun == [Idle EXCEPT !.at = "wake", !.sup = s, !.cur = n]
    <2>1. begun \in RunState
      BY ZenonT(40), <1>1 DEF RunState
    <2>2. [begun EXCEPT !.force = f] \in RunState
      <3> HIDE DEF begun
      <3> QED
        BY <2>1 DEF RunState
    <2> QED
      BY <2>2
  <1>9. ASSUME NEW m \in Model \cup {NoModel}, NEW then \in {"deliver", "harness"}
        PROVE  [Idle EXCEPT !.at = "stop", !.sup = s, !.model = m, !.then = then] \in RunState
    BY ZenonT(40), <1>1 DEF RunState
  <1>10. [Idle EXCEPT !.at = "stop", !.sup = s] \in RunState
    BY ZenonT(40), <1>1 DEF RunState
  <1>11. ASSUME NEW n \in Nat, NEW m \in Model \cup {NoModel}
         PROVE  [Idle EXCEPT !.at = "add", !.cur = n, !.since = n, !.model = m] \in RunState
    BY <1>1 DEF RunState
  <1>12. ASSUME NEW cur \in Nat, NEW since \in Nat, NEW m \in Model \cup {NoModel}
         PROVE  [Idle EXCEPT !.at = "add", !.cur = cur, !.since = since, !.prev = s, !.model = m] \in RunState
    <2> DEFINE begun == [Idle EXCEPT !.at = "add", !.cur = cur, !.since = since]
    <2>1. begun \in RunState
      BY <1>1 DEF RunState
    <2> HIDE DEF begun
    <2>2. [begun EXCEPT !.prev = s, !.model = m] \in RunState
      BY ZenonT(40), <2>1 DEF RunState
    <2> QED
      BY <2>2 DEF begun
  <1> QED
    BY <1>1, <1>2, <1>3, <1>4, <1>5, <1>6, <1>7, <1>8, <1>9, <1>10, <1>11, <1>12

\* The rows a step writes are supervisor rows.
LEMMA SupTypes ==
  ASSUME NEW r \in SupRow
  PROVE  /\ \A st \in LiveStatus \cup EndStatus : [r EXCEPT !.status = st] \in SupRow
         /\ \A held \in BOOLEAN : [r EXCEPT !.status = "running", !.held = held] \in SupRow
         /\ \A m \in Model \cup {NoModel} : [r EXCEPT !.switch = m] \in SupRow
         /\ \A n \in Nat : [r EXCEPT !.cursor = n] \in SupRow
         /\ \A cur, since \in Nat, m \in Model \cup {NoModel}, prev \in SupId \cup {NoSup} :
              [NoRow EXCEPT !.status = "launching", !.cursor = cur, !.since = since, !.model = m,
                            !.prev = prev] \in SupRow
  BY ZenonT(40) DEF SupRow, NoRow, LiveStatus, EndStatus

\* Going on with a run's record keeps run's type.
LEMMA GotoType ==
  ASSUME run \in [Run -> RunState], NEW p \in Run, NEW r \in RunState, Goto(p, r)
  PROVE  run' \in [Run -> RunState]
  BY DEF Goto

\* What a delivery begins with is a run's record.
LEMMA SendingType ==
  ASSUME TypeOK, NEW s \in SupId, NEW quiet \in BOOLEAN, NEW forced \in BOOLEAN
  PROVE  Sending(s, quiet, forced) \in RunState
  <1>1. /\ [Idle EXCEPT !.at = "send", !.sup = s, !.todo = Pending] \in RunState
        /\ [Idle EXCEPT !.at = "wake", !.sup = s, !.cur = sup[s].cursor, !.force = forced] \in RunState
        /\ Idle \in RunState
    <2>1. sup[s].cursor \in Nat
      BY DEF TypeOK, SupRow
    <2>2. Idle \in RunState
      BY IdAssumption DEF RunState, Idle, EndStatus
    <2> QED
      BY <2>1, <2>2, RunTypes
  <1> QED
    BY <1>1 DEF Sending

\* Every step of a run, of the commands beside it, of the agents and of Luvus
\* keeps the types, as long as what a run has in hand is as it read it.
LEMMA TypeStep == TypeOK /\ RunRows /\ [Next]_vars => TypeOK'
  <1> SUFFICES ASSUME TypeOK, RunRows, [Next]_vars PROVE TypeOK'
    OBVIOUS
  <1> USE IdAssumption
  <1>a. ASSUME NEW p \in Run, NEW r \in RunState, Goto(p, r), UNCHANGED <<rows, luvus, history, faults>>
        PROVE  TypeOK'
    BY <1>a, GotoType DEF TypeOK, rows, luvus, history
  <1>r. \A p \in Run : run[p] \in RunState
    BY DEF TypeOK
  <1>s. \A s \in SupId : sup[s] \in SupRow
    BY DEF TypeOK
  <1>i. Idle \in RunState
    BY DEF RunState, Idle, EndStatus
  <1>1. CASE Around
    <2>1. ASSUME NEW i \in InputId, Send(i) PROVE TypeOK'
      BY <2>1 DEF TypeOK, Send, AddSupervisorInput, luvus, history
    <2>2. ASSUME NEW e \in EventId, GoStale(e) PROVE TypeOK'
      BY <2>2 DEF TypeOK, GoStale, luvus, history
    <2>3. ASSUME NEW e \in EventId, NEW k \in {"wake", "progress"}, Emit(e, k) PROVE TypeOK'
      BY <2>3 DEF TypeOK, Emit, luvus, history
    <2>4. ASSUME NEW s \in SupId, NEW m \in Model, Switch(s, m) PROVE TypeOK'
      <3>1. sup' \in [SupId -> SupRow]
        BY <2>4, <1>s, SupTypes DEF TypeOK, Switch, SetSupervisorSwitch
      <3> QED
        BY <2>4, <3>1 DEF TypeOK, Switch, luvus, history
    <2>5. ASSUME NEW s \in SupId, CancelSwitch(s) PROVE TypeOK'
      <3>1. sup' \in [SupId -> SupRow]
        BY <2>5, <1>s, SupTypes DEF TypeOK, CancelSwitch
      <3> QED
        BY <2>5, <3>1 DEF TypeOK, CancelSwitch, luvus, history
    <2>6. ASSUME NEW s \in SupId, Interrupt(s) PROVE TypeOK'
      BY <2>6 DEF TypeOK, Interrupt, rows, history, AgentStatus, Alive, Attentive
    <2>7. ASSUME NEW s \in SupId, LateCreate(s) PROVE TypeOK'
      BY <2>7 DEF TypeOK, LateCreate, rows, history, AgentStatus, Alive, Attentive
    <2>8. ASSUME NEW s \in SupId, NEW to \in Alive, AgentActs(s, to) PROVE TypeOK'
      BY <2>8 DEF TypeOK, AgentActs, rows, history, AgentStatus
    <2>9. ASSUME NEW S \in SUBSET SupId, AgentsEnd(S) PROVE TypeOK'
      BY <2>9 DEF TypeOK, AgentsEnd, Fault, rows, history, AgentStatus
    <2> QED
      BY <1>1, <2>1, <2>2, <2>3, <2>4, <2>5, <2>6, <2>7, <2>8, <2>9 DEF Around
  <1>2. CASE Settle
    <2> SUFFICES ASSUME NEW s \in SupId, NEW to \in {"exited", "interrupted"},
                        SettleLaunching(s) \/ SettleStray(s) \/ SettleRunning(s, to)
                 PROVE  TypeOK'
      BY <1>2 DEF Settle
    <2>1. agent' \in [SupId -> AgentStatus]
      BY DEF TypeOK, SettleLaunching, SettleStray, SettleRunning, Close, AgentStatus, rows
    <2>2. \A st \in {"failed", "exited", "interrupted"} : [sup[s] EXCEPT !.status = st] \in SupRow
      BY <1>s, SupTypes DEF EndStatus
    <2>3. sup' \in [SupId -> SupRow]
      BY <2>2 DEF TypeOK, SettleLaunching, SettleStray, SettleRunning, rows
    <2> QED
      BY <2>1, <2>3 DEF TypeOK, SettleLaunching, SettleStray, SettleRunning, rows, history
  <1>3. ASSUME NEW p \in Run, Operate(p) PROVE TypeOK'
    <2>1. ASSUME NEW s \in SupId, ForceBegin(p, s) PROVE TypeOK'
      BY <2>1, <1>a, SendingType DEF ForceBegin
    <2>2. ASSUME NEW s \in SupId, Stop(p, s) PROVE TypeOK'
      BY <2>2, <1>a, <1>i, RunTypes DEF Stop
    <2>3. ASSUME NEW s \in SupId, NEW m \in Model, SwitchHarness(p, s, m) PROVE TypeOK'
      <3>1. [Idle EXCEPT !.at = "stop", !.sup = s, !.model = m, !.then = "harness"] \in RunState
        BY <1>i, RunTypes
      <3> QED
        BY <2>3, <3>1, <1>a DEF SwitchHarness
    <2>4. ASSUME NEW m \in Model, NEW n \in {0} \cup EventId, Start(p, m, n) PROVE TypeOK'
      BY <2>4, <1>a, <1>i, RunTypes DEF Start
    <2> QED
      BY <1>3, <2>1, <2>2, <2>3, <2>4 DEF Operate
  <1>4. ASSUME NEW p \in Run, Watch(p) \/ AutoResume(p) PROVE TypeOK'
    <2>1. ASSUME NEW s \in SupId, DeliverBegin(p, s) PROVE TypeOK'
      BY <2>1, <1>a, SendingType DEF DeliverBegin
    <2>2. ASSUME NEW s \in SupId, ApplySwitch(p, s) PROVE TypeOK'
      <3>1. sup[s].switch \in Model \cup {NoModel}
        BY DEF TypeOK, SupRow
      <3>2. [Idle EXCEPT !.at = "stop", !.sup = s, !.model = sup[s].switch, !.then = "deliver"] \in RunState
        BY <3>1, <1>i, RunTypes
      <3> QED
        BY <2>2, <3>2, <1>a DEF ApplySwitch
    <2>3. ASSUME NEW s \in SupId, Resume(p, s) PROVE TypeOK'
      <3> DEFINE m == IF sup[s].switch = NoModel THEN sup[s].model ELSE sup[s].switch
      <3>1. m \in Model \cup {NoModel} /\ sup[s].cursor \in Nat /\ sup[s].since \in Nat
        BY DEF TypeOK, SupRow
      <3> HIDE DEF m
      <3>2. [Idle EXCEPT !.at = "add", !.cur = sup[s].cursor, !.since = sup[s].since, !.prev = s,
                         !.model = m] \in RunState
        BY <3>1, <1>i, RunTypes
      <3> QED
        BY <2>3, <3>2, <1>a DEF Resume, m
    <2> QED
      BY <1>4, <2>1, <2>2, <2>3 DEF Watch, AutoResume
  <1>5. ASSUME NEW p \in Run, Proceed(p) PROVE TypeOK'
    <2>1. ASSUME NEW i \in InputId, InputTaken(p, i) PROVE TypeOK'
      <3>1. run' \in [Run -> RunState]
        BY <2>1, <1>r, RunTypes, GotoType DEF InputTaken, TypeOK
      <3>2. agent' \in [SupId -> AgentStatus]
        BY <2>1 DEF InputTaken, Prompt, TypeOK, AgentStatus, Alive, Attentive
      <3> QED
        BY <2>1, <3>1, <3>2 DEF InputTaken, TypeOK, rows
    <2>2. ASSUME NEW i \in InputId, MarkInput(p, i) PROVE TypeOK'
      <3>1. run[p].todo \ {i} \in SUBSET InputId
        BY <1>r DEF RunState
      <3>2. run' \in [Run -> RunState]
        BY <2>2, <3>1, <1>r, <1>i, RunTypes, GotoType DEF MarkInput, TypeOK
      <3> QED
        BY <2>2, <3>2 DEF MarkInput, TypeOK, luvus, history
    <2>3. ASSUME ReadWakes(p) PROVE TypeOK'
      <3>1. PICK last \in WakeEvents(run[p].cur) :
              Goto(p, [run[p] EXCEPT !.at = "prompt", !.last = last,
                                     !.batch = {e \in WakeEvents(run[p].cur) : e <= last}])
        BY <2>3 DEF ReadWakes
      <3>2. WakeEvents(run[p].cur) \subseteq EventId
        BY DEF WakeEvents, WakeEventsAfter, UsedEvents
      <3>3. [run[p] EXCEPT !.at = "prompt", !.last = last,
                           !.batch = {e \in WakeEvents(run[p].cur) : e <= last}] \in RunState
        BY <1>r, <3>2, RunTypes
      <3> QED
        BY <2>3, <3>1, <3>3, <1>a DEF ReadWakes
    <2>4. ASSUME WakeTaken(p) PROVE TypeOK'
      <3>1. run' \in [Run -> RunState]
        BY <2>4, <1>r, RunTypes, GotoType DEF WakeTaken, TypeOK
      <3>2. agent' \in [SupId -> AgentStatus]
        BY <2>4 DEF WakeTaken, Prompt, TypeOK, AgentStatus, Alive, Attentive
      <3>3. shown' \in [EventId -> Nat]
        BY <2>4 DEF WakeTaken, Show, TypeOK
      <3> QED
        BY <2>4, <3>1, <3>2, <3>3 DEF WakeTaken, TypeOK, rows
    <2>5. ASSUME Advance(p) PROVE TypeOK'
      <3>1. run[p].last \in Nat
        <4>1. run[p].last \in EventId \cup {0}
          BY <1>r DEF RunState
        <4>2. \A e \in EventId \cup {0} : e \in Nat
          BY IdAssumption
        <4> QED
          BY <4>1, <4>2
      <3>2. sup' \in [SupId -> SupRow]
        BY <2>5, <3>1, <1>s, SupTypes DEF Advance, TypeOK
      <3>3. run' \in [Run -> RunState]
        BY <2>5, <1>i, GotoType DEF Advance, TypeOK
      <3> QED
        BY <2>5, <3>2, <3>3 DEF Advance, TypeOK, luvus, history
    <2>6. ASSUME StopAgent(p) PROVE TypeOK'
      <3>1. run' \in [Run -> RunState]
        BY <2>6, <1>r, RunTypes, GotoType DEF StopAgent, TypeOK
      <3>2. agent' \in [SupId -> AgentStatus]
        BY <2>6 DEF StopAgent, TypeOK, AgentStatus
      <3> QED
        BY <2>6, <3>1, <3>2 DEF StopAgent, TypeOK, rows, history
    <2>7. ASSUME NEW n \in {0} \cup EventId, EndRow(p, n) PROVE TypeOK'
      <3>1. run[p].sup \in SupId
        BY <2>7 DEF EndRow, At, RunRows, RowsSound
      <3>2. sup[run[p].sup].cursor \in Nat /\ sup[run[p].sup].since \in Nat /\ n \in Nat
        <4>1. sup[run[p].sup].cursor \in Nat /\ sup[run[p].sup].since \in Nat
          BY <3>1, <1>s DEF SupRow
        <4> QED
          BY <4>1
      <3>3. run[p].then \in {"done", "deliver", "harness"} /\ run[p].to \in EndStatus
        BY <1>r DEF RunState
      <3>4. run' \in [Run -> RunState]
        BY ZenonT(40), <2>7, <3>1, <3>2, <3>3, <1>r, <1>i, RunTypes, GotoType DEF EndRow, TypeOK
      <3>5. sup' \in [SupId -> SupRow]
        BY <2>7, <3>3, <1>s, SupTypes DEF EndRow, TypeOK
      <3> QED
        BY <2>7, <3>4, <3>5 DEF EndRow, TypeOK, luvus, history
    <2>8. ASSUME NEW s \in SupId, AddSupervisor(p, s) PROVE TypeOK'
      <3>1. run' \in [Run -> RunState]
        BY <2>8, <1>r, RunTypes, GotoType DEF AddSupervisor, TypeOK
      <3>2. /\ run[p].cur \in Nat /\ run[p].since \in Nat /\ run[p].model \in Model \cup {NoModel}
            /\ run[p].prev \in SupId \cup {NoSup}
        BY <1>r DEF RunState
      <3>3. sup' \in [SupId -> SupRow]
        BY ZenonT(40), <2>8, <3>2, <1>s, SupTypes DEF AddSupervisor, TypeOK
      <3> QED
        BY <2>8, <3>1, <3>3 DEF AddSupervisor, TypeOK, luvus, history
    <2>9. ASSUME NEW status \in {"idle", "working", "blocked"}, Create(p, status) PROVE TypeOK'
      <3>1. run' \in [Run -> RunState]
        BY <2>9, <1>r, RunTypes, GotoType DEF Create, TypeOK
      <3>2. agent' \in [SupId -> AgentStatus]
        BY <2>9 DEF Create, TypeOK, AgentStatus, Alive, Attentive
      <3> QED
        BY <2>9, <3>1, <3>2 DEF Create, TypeOK, rows, history
    <2>10. ASSUME NEW held \in BOOLEAN, Started(p, held) PROVE TypeOK'
      <3>1. run[p].sup \in SupId
        BY <2>10 DEF Started, At, RunRows, RowsSound
      <3>2. run' \in [Run -> RunState]
        BY <2>10, <3>1, <1>i, SendingType, GotoType DEF Started, TypeOK
      <3>3. sup' \in [SupId -> SupRow]
        <4>1. \A s \in SupId : [sup[s] EXCEPT !.status = "running", !.held = held] \in SupRow
          BY <1>s, SupTypes
        <4>2. run[p].sup \in SupId
          BY <2>10 DEF Started, At, RunRows, RowsSound
        <4>3. sup' = sup \/ sup' = [sup EXCEPT ![run[p].sup] = [sup[run[p].sup] EXCEPT !.status = "running", !.held = held]]
          BY <2>10, <4>2 DEF Started, SupervisorRunning, TypeOK
        <4> QED
          BY <4>1, <4>2, <4>3 DEF TypeOK
      <3>4. agent' \in [SupId -> AgentStatus]
        BY <2>10 DEF Started, TypeOK, AgentStatus
      <3> QED
        BY <2>10, <3>2, <3>3, <3>4 DEF Started, TypeOK, history
    <2> QED
      BY <1>5, <2>1, <2>2, <2>3, <2>4, <2>5, <2>6, <2>7, <2>8, <2>9, <2>10 DEF Proceed
  <1>6. ASSUME NEW p \in Run, Fail(p) PROVE TypeOK'
    <2>1. ASSUME NEW i \in InputId, InputUnknown(p, i) PROVE TypeOK'
      <3>1. run' \in [Run -> RunState]
        BY <2>1, <1>i, GotoType DEF InputUnknown, TypeOK
      <3>2. agent' \in [SupId -> AgentStatus]
        BY <2>1 DEF InputUnknown, Prompt, TypeOK, AgentStatus, Alive, Attentive
      <3> QED
        BY <2>1, <3>1, <3>2 DEF InputUnknown, Fault, TypeOK, rows
    <2>2. ASSUME WakeUnknown(p) PROVE TypeOK'
      <3>1. run' \in [Run -> RunState]
        BY <2>2, <1>i, GotoType DEF WakeUnknown, TypeOK
      <3>2. agent' \in [SupId -> AgentStatus]
        BY <2>2 DEF WakeUnknown, Prompt, TypeOK, AgentStatus, Alive, Attentive
      <3>3. shown' \in [EventId -> Nat]
        BY <2>2 DEF WakeUnknown, Show, TypeOK
      <3> QED
        BY <2>2, <3>1, <3>2, <3>3 DEF WakeUnknown, Fault, TypeOK, rows
    <2>3. ASSUME CreateRefused(p) PROVE TypeOK'
      <3>1. run' \in [Run -> RunState]
        BY <2>3, <1>i, GotoType DEF CreateRefused, TypeOK
      <3>2. sup' \in [SupId -> SupRow]
        <4>1. \A s \in SupId : [sup[s] EXCEPT !.status = "failed"] \in SupRow
          BY <1>s, SupTypes DEF EndStatus
        <4>2. run[p].sup \in SupId /\ sup[run[p].sup].status = "launching"
          BY <2>3 DEF CreateRefused, At, RunRows, RowsSound
        <4> QED
          BY <2>3, <4>1, <4>2 DEF CreateRefused, TypeOK
      <3> QED
        BY <2>3, <3>1, <3>2 DEF CreateRefused, Fault, TypeOK, luvus, history
    <2>4. ASSUME CreateUnknown(p) PROVE TypeOK'
      <3>1. run' \in [Run -> RunState]
        BY <2>4, <1>i, GotoType DEF CreateUnknown, TypeOK
      <3>2. agent' \in [SupId -> AgentStatus] /\ late' \subseteq SupId
        BY <2>4 DEF CreateUnknown, Close, TypeOK, AgentStatus, At, RunRows, RowsSound
      <3> QED
        BY <2>4, <3>1, <3>2 DEF CreateUnknown, Fault, TypeOK, rows, history
    <2>5. ASSUME GiveUp(p) PROVE TypeOK'
      BY <2>5, <1>i, <1>a DEF GiveUp
    <2>6. ASSUME Killed(p) PROVE TypeOK'
      <3>1. run' \in [Run -> RunState]
        BY <2>6, <1>i, GotoType DEF Killed, TypeOK
      <3> QED
        BY <2>6, <3>1 DEF Killed, Fault, TypeOK, rows, luvus, history
    <2> QED
      BY <1>6, <2>1, <2>2, <2>3, <2>4, <2>5, <2>6 DEF Fail
  <1>7. CASE UNCHANGED vars
    BY <1>7 DEF vars, rows, luvus, history, TypeOK
  <1> QED
    BY <1>1, <1>2, <1>3, <1>4, <1>5, <1>6, <1>7 DEF Next
-----------------------------------------------------------------------------
(* The lock *)

\* A step of run p, which holds the lock or takes it when it is free.
Goes(p, r) == r \in RunState /\ (LockFree \/ run[p].at # "idle") /\ Goto(p, r)

\* Afterwards every other run is outside the lock, and p is where it went.
LEMMA OthersIdle ==
  ASSUME TypeOK, LockKept, NEW p \in Run, NEW r, Goes(p, r)
  PROVE  /\ run'[p] = r
         /\ \A q \in Run : q # p => run[q].at = "idle" /\ run'[q].at = "idle"
  BY DEF TypeOK, LockKept, Goes, LockFree, Goto

\* So there is one run in the lock at most.
LEMMA LockHeld ==
  ASSUME TypeOK, LockKept, NEW p \in Run, NEW r, Goes(p, r)
  PROVE  LockKept'
  BY OthersIdle DEF LockKept

-----------------------------------------------------------------------------
(* Messages *)

\* A step that neither takes nor records a message keeps what is known of them,
\* if it reads the pending ones whenever it goes on to deliver, and a message
\* put to an agent is left unrecorded only at the price of a fault.
LEMMA MessagesKept ==
  ASSUME TypeOK, LockKept, Messages, UNCHANGED <<input, told>>, faults' \in Nat, faults <= faults',
         NEW p \in Run, NEW r, Goes(p, r), r.at # "mark", r.at = "send" => r.todo = Pending,
         At(p, "mark") => faults' = faults + 1
  PROVE  Messages'
  <1>1. QueueKept' /\ InputsInOrder'
    BY DEF Messages, QueueKept, InputsInOrder
  <1>2. ListKept'
    BY OthersIdle DEF ListKept, ListSound, Pending
  <1>3. ToldOnce'
    <2> SUFFICES ASSUME NEW i \in InputId
                 PROVE  told[i] <= 1 + faults' /\ (input[i] # "delivered" => told[i] <= faults')
      BY DEF ToldOnce
    <2>1. told[i] \in Nat /\ faults \in Nat
      BY DEF TypeOK
    <2>2. told[i] <= 1 + faults /\ (input[i] # "delivered" => told[i] <= faults \/ Unrecorded(i))
      BY DEF Messages, ToldOnce
    <2>3. CASE At(p, "mark")
      BY <2>1, <2>2, <2>3
    <2>4. CASE ~At(p, "mark")
      <3>1. ~Unrecorded(i)
        BY <2>4, OthersIdle DEF Unrecorded, At
      <3> QED
        BY <2>1, <2>2, <3>1
    <2> QED
      BY <2>3, <2>4
  <1> QED
    BY <1>1, <1>2, <1>3 DEF Messages

\* A new message comes after all those there are.
LEMMA SendMessages ==
  ASSUME TypeOK, Messages, NEW i \in InputId, Send(i)
  PROVE  Messages'
  <1> USE IdAssumption
  <1>0. /\ input[i] = "none" /\ input' = [input EXCEPT ![i] = "queued"]
        /\ \A j \in InputId : j < i <=> input[j] # "none"
        /\ UNCHANGED <<told, run, faults>>
    BY DEF Send, AddSupervisorInput, NextId, history
  <1>1. /\ input'[i] = "queued" /\ \A j \in InputId : j # i => input'[j] = input[j]
        /\ Pending' = Pending \cup {i}
    BY <1>0 DEF TypeOK, Pending
  <1>2. QueueKept'
    BY <1>0, <1>1 DEF Messages, QueueKept
  <1>3. InputsInOrder'
    BY <1>0, <1>1 DEF Messages, InputsInOrder
  <1>4. ListKept'
    <2>1. \A j \in Pending : ~(i < j)
      BY <1>0 DEF Pending
    <2> QED
      BY <1>0, <1>1, <2>1 DEF Messages, ListKept, ListSound, First
  <1>5. ToldOnce'
    BY <1>0, <1>1 DEF Messages, QueueKept, ToldOnce, Unrecorded, At, First, TypeOK
  <1> QED
    BY <1>2, <1>3, <1>4, <1>5 DEF Messages

\* The message put to an agent is the earliest pending one.
LEMMA FirstIsNext ==
  ASSUME TypeOK, Messages, NEW p \in Run, run[p].at \in {"send", "mark"}, NEW i \in InputId, First(p, i)
  PROVE  /\ input[i] = "queued"
         /\ \A j \in InputId : j < i => input[j] = "delivered"
         /\ \A j \in InputId : First(p, j) => j = i
  <1> USE IdAssumption
  <1>1. /\ i \in run[p].todo /\ run[p].todo \subseteq Pending
        /\ \A j \in Pending : j < i => j \in run[p].todo
        /\ \A j \in run[p].todo : i <= j
    BY DEF Messages, ListKept, ListSound, First
  <1>2. input[i] = "queued"
    BY <1>1 DEF Pending
  <1>3. ASSUME NEW j \in InputId, j < i PROVE input[j] = "delivered"
    <2>1. input[j] # "none"
      BY <1>2, <1>3 DEF Messages, QueueKept
    <2>2. j \notin Pending
      BY <1>1, <1>3
    <2> QED
      BY <2>1, <2>2 DEF Pending, TypeOK
  <1>4. ASSUME NEW j \in InputId, First(p, j) PROVE j = i
    BY <1>1, <1>4 DEF First
  <1> QED
    BY <1>2, <1>3, <1>4

\* Putting it to the agent keeps the order, and counts one more.
LEMMA TakenMessages ==
  ASSUME TypeOK, LockKept, Messages, NEW p \in Run, NEW i \in InputId, InputTaken(p, i) \/ InputUnknown(p, i)
  PROVE  Messages'
  <1> USE IdAssumption
  <1>0. /\ run[p].at = "send" /\ First(p, i) /\ UNCHANGED input
        /\ told' = [told EXCEPT ![i] = @ + 1] /\ faults \in Nat /\ told[i] \in Nat
    BY DEF InputTaken, InputUnknown, At, rows, TypeOK
  <1>1. told'[i] = told[i] + 1 /\ \A j \in InputId : j # i => told'[j] = told[j]
    BY <1>0 DEF TypeOK
  <1>2. input[i] = "queued" /\ \A j \in InputId : j < i => input[j] = "delivered"
    BY <1>0, FirstIsNext
  <1>3. QueueKept' /\ InputsInOrder'
    BY <1>0, <1>1, <1>2 DEF Messages, QueueKept, InputsInOrder
  <1>4. \A j \in InputId : input[j] # "delivered" => told[j] <= faults
    <2>1. \A j \in InputId : ~Unrecorded(j)
      BY <1>0 DEF Unrecorded, At, LockKept
    <2> QED
      BY <2>1 DEF Messages, ToldOnce
  <1>5. CASE InputTaken(p, i)
    <2>1. /\ run'[p] = [run[p] EXCEPT !.at = "mark"] /\ UNCHANGED faults
          /\ \A q \in Run : q # p => run'[q] = run[q]
      BY <1>5 DEF InputTaken, Goto, TypeOK
    <2>2. run'[p].at = "mark" /\ run'[p].todo = run[p].todo
      BY <2>1 DEF TypeOK, RunState
    <2>3. First(p, i)'
      BY <1>0, <2>2 DEF First
    <2>4. ListKept'
      <3>1. \A q \in Run : q # p => run'[q].at = "idle"
        BY <1>0, <2>1 DEF LockKept
      <3>2. Pending' = Pending /\ told'[i] > 0
        BY <1>0, <1>1 DEF Pending
      <3>3. ListSound(p)'
        BY <1>0, <2>2, <2>3, <3>2 DEF Messages, ListKept, ListSound
      <3> QED
        BY <3>1, <3>3 DEF ListKept, ListSound
    <2>5. Unrecorded(i)'
      BY <2>2, <2>3 DEF Unrecorded, At
    <2>6. ToldOnce'
      BY <1>0, <1>1, <1>2, <1>4, <2>1, <2>5 DEF Messages, ToldOnce
    <2> QED
      BY <1>3, <2>4, <2>6 DEF Messages
  <1>6. CASE InputUnknown(p, i)
    <2>1. run'[p] = Idle /\ faults' = faults + 1 /\ \A q \in Run : q # p => run'[q] = run[q]
      BY <1>6 DEF InputUnknown, Fault, Goto, TypeOK
    <2>2. ListKept'
      BY <1>0, <2>1 DEF Messages, ListKept, ListSound, Pending, Idle, LockKept
    <2>3. ToldOnce'
      <3> SUFFICES ASSUME NEW j \in InputId PROVE told'[j] <= faults + 1 + 1 /\ (input[j] # "delivered" => told'[j] <= faults + 1)
        BY <1>0, <2>1 DEF ToldOnce
      <3>1. told[j] \in Nat /\ told[j] <= 1 + faults /\ (input[j] # "delivered" => told[j] <= faults)
        BY <1>4 DEF TypeOK, Messages, ToldOnce
      <3>2. CASE j = i
        BY <1>0, <1>1, <1>2, <3>1, <3>2
      <3>3. CASE j # i
        BY <1>0, <1>1, <3>1, <3>3
      <3> QED
        BY <3>2, <3>3
    <2> QED
      BY <1>3, <2>2, <2>3 DEF Messages
  <1> QED
    BY <1>5, <1>6

\* Recording it leaves the rest of the list.
LEMMA MarkMessages ==
  ASSUME TypeOK, LockKept, Messages, NEW p \in Run, NEW i \in InputId, MarkInput(p, i)
  PROVE  Messages'
  <1> USE IdAssumption
  <1>0. /\ run[p].at = "mark" /\ First(p, i) /\ UNCHANGED <<told, faults>> /\ i \in run[p].todo
        /\ input' = [input EXCEPT ![i] = "delivered"]
        /\ run[p].todo \subseteq Pending
        /\ \A a \in run[p].todo, j \in Pending : j < a => j \in run[p].todo
    BY DEF MarkInput, At, First, history, Messages, ListKept, ListSound
  <1>1. told[i] > 0 /\ \A j \in InputId : First(p, j) => j = i
    <2>1. PICK j \in InputId : First(p, j) /\ told[j] > 0
      BY <1>0 DEF Messages, ListKept, ListSound
    <2> QED
      BY <1>0, <2>1, FirstIsNext
  <1>2. /\ input'[i] = "delivered" /\ \A j \in InputId : j # i => input'[j] = input[j]
        /\ Pending' = Pending \ {i}
    BY <1>0 DEF TypeOK, Pending
  <1>3. QueueKept' /\ InputsInOrder'
    BY <1>0, <1>1, <1>2 DEF Messages, QueueKept, InputsInOrder
  <1>4. \A q \in Run : q # p => run'[q] = run[q] /\ run[q].at = "idle"
    BY <1>0 DEF MarkInput, Goto, TypeOK, LockKept
  <1>5. \/ run'[p].at = "idle"
        \/ run'[p].at = "send" /\ run'[p].todo = run[p].todo \ {i}
    BY DEF MarkInput, Goto, Idle, TypeOK, RunState
  <1>6. ListKept'
    BY <1>0, <1>2, <1>4, <1>5 DEF ListKept, ListSound
  <1>7. ToldOnce'
    <2>1. \A j \in InputId : j # i => ~Unrecorded(j)
      BY <1>1, <1>4 DEF Unrecorded, At
    <2> QED
      BY <1>0, <1>2, <2>1 DEF Messages, ToldOnce
  <1> QED
    BY <1>3, <1>6, <1>7 DEF Messages
\* What a delivery begins with: the pending messages, the wakes, or nothing.
LEMMA SendingCases ==
  ASSUME TypeOK, NEW s \in SupId, NEW quiet \in BOOLEAN, NEW forced \in BOOLEAN,
         NEW r, r = Sending(s, quiet, forced)
  PROVE  /\ r.at \in {"send", "wake", "idle"}
         /\ r.at = "send" => r.todo = Pending
         /\ r.at # "idle" => r.sup = s
         /\ r.at = "wake" => r.cur = sup[s].cursor
  <1>1. CASE Pending # {}
    BY <1>1 DEF Sending, Idle
  <1>2. CASE Pending = {} /\ quiet
    BY <1>2 DEF Sending, Idle
  <1>3. CASE Pending = {} /\ ~quiet
    BY <1>3 DEF Sending, Idle
  <1> QED
    BY <1>1, <1>2, <1>3

\* A row that was ended: nothing more to do, or a row to add.
LEMMA EndRowGoes ==
  ASSUME TypeOK, RunRows, NEW p \in Run, NEW n \in {0} \cup EventId, EndRow(p, n)
  PROVE  \E r \in RunState :
           /\ Goto(p, r)
           /\ \/ r = Idle
              \/ /\ run[p].then = "deliver" /\ r.at = "add" /\ r.prev = run[p].sup
                 /\ r.cur = sup[run[p].sup].cursor /\ r.since = sup[run[p].sup].since
                 /\ r.model = run[p].model
              \/ /\ r.at = "add" /\ r.cur = n /\ r.since = n /\ r.prev = run[p].prev
  <1> USE IdAssumption
  <1>0. /\ run[p] \in RunState /\ run[p].then \in {"done", "deliver", "harness"} /\ Idle \in RunState
        /\ n \in Nat
    <2>1. run[p] \in RunState /\ n \in Nat
      BY DEF TypeOK
    <2>2. Idle \in RunState
      BY DEF RunState, Idle, EndStatus
    <2> QED
      BY <2>1, <2>2 DEF RunState
  <1>1. CASE run[p].then = "done"
    BY <1>0, <1>1 DEF EndRow
  <1>2. CASE run[p].then = "deliver"
    <2> DEFINE s == run[p].sup
               r == [run[p] EXCEPT !.at = "add", !.prev = s, !.cur = sup[s].cursor, !.since = sup[s].since]
    <2>1. Goto(p, r)
      BY <1>2 DEF EndRow
    <2>2. /\ r.at = "add" /\ r.prev = s /\ r.cur = sup[s].cursor /\ r.since = sup[s].since
          /\ r.model = run[p].model
      BY <1>0 DEF RunState
    <2>3. s \in SupId /\ sup[s].cursor \in Nat /\ sup[s].since \in Nat
      BY DEF EndRow, At, RunRows, RowsSound, TypeOK, SupRow
    <2>4. r \in RunState
      BY <1>0, <2>3, RunTypes
    <2> QED
      BY <1>2, <2>1, <2>2, <2>4
  <1>3. CASE run[p].then = "harness"
    <2> DEFINE r == [run[p] EXCEPT !.at = "add", !.cur = n, !.since = n, !.then = "done"]
    <2>1. Goto(p, r)
      BY <1>3 DEF EndRow
    <2>2. r.at = "add" /\ r.cur = n /\ r.since = n /\ r.prev = run[p].prev
      BY <1>0 DEF RunState
    <2>3. r \in RunState
      BY <1>0, RunTypes
    <2> QED
      BY <2>1, <2>2, <2>3
  <1> QED
    BY <1>0, <1>1, <1>2, <1>3

\* Every step of a run is one of a run that holds the lock or takes it.
LEMMA RunGoes ==
  ASSUME TypeOK, TypeOK', NEW p \in Run,
         Operate(p) \/ Watch(p) \/ AutoResume(p) \/ Proceed(p) \/ Fail(p)
  PROVE  Goes(p, run'[p])
  <1>0. ASSUME NEW r, Goto(p, r), LockFree \/ run[p].at # "idle" PROVE Goes(p, run'[p])
    BY <1>0 DEF Goes, Goto, TypeOK
  <1>1. CASE Operate(p)
    BY <1>0, <1>1 DEF Operate, ForceBegin, Stop, SwitchHarness, Start
  <1>2. CASE Watch(p)
    BY <1>0, <1>2 DEF Watch, DeliverBegin, ApplySwitch
  <1>3. CASE AutoResume(p)
    BY <1>0, <1>3 DEF AutoResume, Resume
  <1>4. CASE Proceed(p)
    <2>1. ASSUME NEW i \in InputId, InputTaken(p, i) \/ MarkInput(p, i) PROVE Goes(p, run'[p])
      BY <1>0, <2>1 DEF InputTaken, MarkInput, At
    <2>2. CASE ReadWakes(p) \/ WakeTaken(p) \/ Advance(p) \/ StopAgent(p)
      BY <1>0, <2>2 DEF ReadWakes, WakeTaken, Advance, StopAgent, At
    <2>3. ASSUME NEW n \in {0} \cup EventId, EndRow(p, n) PROVE Goes(p, run'[p])
      BY <1>0, <2>3 DEF EndRow, At
    <2>4. ASSUME NEW s \in SupId, AddSupervisor(p, s) PROVE Goes(p, run'[p])
      BY <1>0, <2>4 DEF AddSupervisor, At
    <2>5. ASSUME NEW status \in {"idle", "working", "blocked"}, Create(p, status) PROVE Goes(p, run'[p])
      BY <1>0, <2>5 DEF Create, At
    <2>6. ASSUME NEW held \in BOOLEAN, Started(p, held) PROVE Goes(p, run'[p])
      BY <1>0, <2>6 DEF Started, At
    <2> QED
      BY <1>4, <2>1, <2>2, <2>3, <2>4, <2>5, <2>6 DEF Proceed
  <1>5. CASE Fail(p)
    BY <1>0, <1>5 DEF Fail, InputUnknown, WakeUnknown, CreateRefused, CreateUnknown, GiveUp,
       Killed, At
  <1> QED
    BY <1>1, <1>2, <1>3, <1>4, <1>5

\* Beside the runs, faults are only added.
LEMMA AroundFaults ==
  ASSUME TypeOK, Around \/ Settle \/ UNCHANGED vars
  PROVE  UNCHANGED run /\ UNCHANGED history /\ faults <= faults'
  <1>1. CASE Around
    BY <1>1 DEF TypeOK, Around, Send, GoStale, Emit, Switch, CancelSwitch, Interrupt, LateCreate,
       AgentActs,
       AgentsEnd, Fault
  <1>2. CASE Settle
    BY <1>2 DEF TypeOK, Settle, SettleLaunching, SettleRunning, SettleStray
  <1>3. CASE UNCHANGED vars
    BY <1>3 DEF TypeOK, vars
  <1> QED
    BY <1>1, <1>2, <1>3

\* Every step keeps the lock to one run.
LEMMA LockStep ==
  ASSUME TypeOK, TypeOK', LockKept, [Next]_vars
  PROVE  LockKept'
  <1>1. CASE Around \/ Settle \/ UNCHANGED vars
    BY <1>1, AroundFaults DEF LockKept
  <1>2. ASSUME NEW p \in Run, Operate(p) \/ Watch(p) \/ AutoResume(p) \/ Proceed(p) \/ Fail(p)
        PROVE  LockKept'
    BY <1>2, RunGoes, LockHeld
  <1> QED
    BY <1>1, <1>2 DEF Next

\* Every step keeps what is known of the messages.
LEMMA MessagesStep ==
  ASSUME TypeOK, TypeOK', LockKept, Messages, RunRows, [Next]_vars
  PROVE  Messages'
  <1>1. CASE Around \/ Settle \/ UNCHANGED vars
    <2>1. ASSUME NEW i \in InputId, Send(i) PROVE Messages'
      BY <2>1, SendMessages
    <2>2. CASE UNCHANGED input
      <3>1. UNCHANGED <<input, told, run>> /\ faults <= faults'
        BY <1>1, <2>2, AroundFaults DEF history
      <3>2. QueueKept' /\ InputsInOrder' /\ ListKept'
        BY <3>1 DEF Messages, QueueKept, InputsInOrder, ListKept, ListSound, Pending, First
      <3>3. ToldOnce'
        BY <3>1 DEF Messages, ToldOnce, Unrecorded, At, First, TypeOK
      <3> QED
        BY <3>2, <3>3 DEF Messages
    <2>3. CASE Settle \/ UNCHANGED vars
      BY <2>2, <2>3 DEF Settle, SettleLaunching, SettleRunning, SettleStray, rows, vars
    <2>4. CASE Around
      BY <2>1, <2>2, <2>4 DEF Around, GoStale, Emit, Switch, CancelSwitch, Interrupt, LateCreate,
         AgentActs,
         AgentsEnd, rows
    <2> QED
      BY <1>1, <2>3, <2>4
  <1>2. ASSUME NEW p \in Run, Operate(p) \/ Watch(p) \/ AutoResume(p) \/ Proceed(p) \/ Fail(p)
        PROVE  Messages'
    <2> DEFINE r == run'[p]
    <2>0. Goes(p, r) /\ faults \in Nat /\ faults' \in Nat
      BY <1>2, RunGoes DEF TypeOK
    <2>a. ASSUME UNCHANGED <<input, told>>, faults <= faults', r.at # "mark", r.at = "send" => r.todo = Pending,
                 At(p, "mark") => faults' = faults + 1
          PROVE  Messages'
      BY <2>0, <2>a, MessagesKept
    <2>b. ASSUME NEW q, Goto(p, q) PROVE r = q
      BY <2>b DEF Goto, TypeOK
    <2>c. run[p] \in RunState
      BY DEF TypeOK
    <2> HIDE DEF r
    <2>1. ASSUME NEW s \in SupId, NEW quiet \in BOOLEAN, NEW forced \in BOOLEAN, Goto(p, Sending(s, quiet, forced)),
                 UNCHANGED <<input, told, faults>>, ~At(p, "mark")
          PROVE  Messages'
      <3>1. r.at # "mark" /\ (r.at = "send" => r.todo = Pending)
        BY <2>1, <2>b, SendingCases
      <3> QED
        BY <2>0, <2>1, <2>a, <3>1
    <2>2. ASSUME LockFree PROVE ~At(p, "mark")
      BY <2>2 DEF LockFree, At
    <2>3. CASE Operate(p)
      <3>1. ASSUME NEW s \in SupId, ForceBegin(p, s) PROVE Messages'
        BY <3>1, <2>1, <2>2 DEF ForceBegin, rows, history
      <3>2. ASSUME NEW s \in SupId, Stop(p, s) \/ \E m \in Model : SwitchHarness(p, s, m) PROVE Messages'
        <4>1. r.at = "stop"
          BY <3>2, <2>b DEF Stop, SwitchHarness, Idle
        <4>2. UNCHANGED <<input, told, faults>> /\ ~At(p, "mark")
          BY <3>2, <2>2 DEF Stop, SwitchHarness, rows, history
        <4> QED
          BY <4>1, <4>2, <2>0, <2>a
      <3>3. ASSUME NEW m \in Model, NEW n \in {0} \cup EventId, Start(p, m, n) PROVE Messages'
        <4>1. r.at = "add"
          BY <3>3, <2>b DEF Start, Idle
        <4> QED
          BY <3>3, <4>1, <2>0, <2>a, <2>2 DEF Start, rows, history
      <3> QED
        BY <2>3, <3>1, <3>2, <3>3 DEF Operate
    <2>4. CASE Watch(p) \/ AutoResume(p)
      <3>1. ASSUME NEW s \in SupId, DeliverBegin(p, s) PROVE Messages'
        BY <3>1, <2>1, <2>2 DEF DeliverBegin, rows, history
      <3>2. ASSUME NEW s \in SupId, ApplySwitch(p, s) \/ Resume(p, s) PROVE Messages'
        <4>1. r.at \in {"stop", "add"}
          BY ZenonT(40), <3>2, <2>b DEF ApplySwitch, Resume, Idle
        <4> QED
          BY <3>2, <4>1, <2>0, <2>a, <2>2 DEF ApplySwitch, Resume, rows, history
      <3> QED
        BY <2>4, <3>1, <3>2 DEF Watch, AutoResume
    <2>5. CASE Proceed(p)
      <3>1. ASSUME NEW i \in InputId, InputTaken(p, i) \/ MarkInput(p, i) PROVE Messages'
        BY <3>1, TakenMessages, MarkMessages
      <3>2. CASE ReadWakes(p) \/ WakeTaken(p) \/ Advance(p) \/ StopAgent(p)
        <4>1. r.at \in {"prompt", "advance", "idle", "end"}
          <5>1. CASE ReadWakes(p) \/ WakeTaken(p)
            BY <2>c, <2>b, <5>1 DEF ReadWakes, WakeTaken, RunState
          <5>2. CASE Advance(p)
            BY <2>b, <5>2 DEF Advance, Idle
          <5>3. CASE StopAgent(p)
            <6>1. \E to : Goto(p, [run[p] EXCEPT !.at = "end", !.to = to])
              BY <5>3 DEF StopAgent
            <6> QED
              BY <2>c, <2>b, <6>1 DEF RunState
          <5> QED
            BY <3>2, <5>1, <5>2, <5>3
        <4>2. UNCHANGED <<input, told, faults>> /\ ~At(p, "mark")
          BY <3>2 DEF ReadWakes, WakeTaken, Advance, StopAgent, rows, history, At
        <4> QED
          BY <4>1, <4>2, <2>0, <2>a
      <3>3. ASSUME NEW n \in {0} \cup EventId, EndRow(p, n) PROVE Messages'
        <4>1. r.at \in {"idle", "add"}
          <5>1. PICK q \in RunState : Goto(p, q) /\ (q = Idle \/ q.at = "add")
            BY <3>3, EndRowGoes
          <5> QED
            BY <5>1, <2>b DEF Idle
        <4> QED
          BY <3>3, <4>1, <2>0, <2>a DEF EndRow, history, At
      <3>4. ASSUME NEW s \in SupId, AddSupervisor(p, s) PROVE Messages'
        <4>1. r.at = "create"
          BY <3>4, <2>b, <2>c DEF AddSupervisor, RunState
        <4> QED
          BY <3>4, <4>1, <2>0, <2>a DEF AddSupervisor, history, At
      <3>5. ASSUME NEW status \in {"idle", "working", "blocked"}, Create(p, status) PROVE Messages'
        <4>1. r.at = "started"
          BY <3>5, <2>b, <2>c DEF Create, RunState
        <4> QED
          BY <3>5, <4>1, <2>0, <2>a DEF Create, rows, history, At
      <3>6. ASSUME NEW held \in BOOLEAN, Started(p, held) PROVE Messages'
        <4>1. /\ UNCHANGED <<input, told, faults>> /\ ~At(p, "mark") /\ run[p].sup \in SupId
              /\ Goto(p, Idle) \/ Goto(p, Sending(run[p].sup, agent[run[p].sup] # "working", FALSE))
          BY <3>6 DEF Started, history, At, RunRows, RowsSound
        <4>2. CASE Goto(p, Idle)
          BY <4>1, <4>2, <2>0, <2>a, <2>b DEF Idle
        <4> QED
          BY <4>1, <4>2, <2>1
      <3> QED
        BY <2>5, <3>1, <3>2, <3>3, <3>4, <3>5, <3>6 DEF Proceed
    <2>6. CASE Fail(p)
      <3>1. ASSUME NEW i \in InputId, InputUnknown(p, i) PROVE Messages'
        BY <3>1, TakenMessages
      <3>2. CASE WakeUnknown(p) \/ CreateRefused(p) \/ CreateUnknown(p) \/ Killed(p)
        <4>1. r.at = "idle" /\ faults' = faults + 1 /\ UNCHANGED <<input, told>>
          BY <3>2, <2>b DEF WakeUnknown, CreateRefused, CreateUnknown, Killed, Fault, Idle, rows,
             history
        <4> QED
          BY <4>1, <2>0, <2>a
      <3>3. CASE GiveUp(p)
        <4>1. ~At(p, "mark")
          <5> SUFFICES ASSUME At(p, "mark"), \A i \in run[p].todo : First(p, i) => input[i] # "queued" PROVE FALSE
            BY <3>3 DEF GiveUp, At
          <5>1. PICK i \in InputId : First(p, i)
            BY DEF Messages, ListKept, ListSound, At
          <5> QED
            BY <5>1, FirstIsNext DEF First, At
        <4>2. r.at = "idle" /\ UNCHANGED <<input, told, faults>>
          BY <3>3, <2>b DEF GiveUp, Idle, rows, history
        <4> QED
          BY <4>1, <4>2, <2>0, <2>a
      <3> QED
        BY <2>6, <3>1, <3>2, <3>3 DEF Fail
    <2> QED
      BY <1>2, <2>3, <2>4, <2>5, <2>6
  <1> QED
    BY <1>1, <1>2 DEF Next
-----------------------------------------------------------------------------
(* Supervisor rows *)

\* At most one row is live.
LEMMA OneLive ==
  ASSUME TypeOK, RowsKept, NEW s \in SupId, NEW o \in SupId, Live(s), Live(o)
  PROVE  s = o
  BY IdAssumption DEF RowsKept, Live, LiveStatus

\* A live row that goes on or ends: the rows still continue ones that ended,
\* with the model those were to run.
LEMMA LiveRowChanges ==
  ASSUME TypeOK, RowsKept, SwitchCarried, NEW t \in SupId, NEW r \in SupRow, Live(t),
         sup' = [sup EXCEPT ![t] = r], r.status \in {"running"} \cup EndStatus,
         r.switch = sup[t].switch, r.model = sup[t].model, r.prev = sup[t].prev
  PROVE  RowsKept' /\ SwitchCarried'
  <1> USE IdAssumption
  <1>0. sup'[t] = r /\ \A s \in SupId : s # t => sup'[s] = sup[s]
    BY DEF TypeOK
  <1>1. \A s \in SupId : sup[s].prev # NoSup => sup[s].prev \in SupId /\ sup[s].prev # t /\ sup[s].prev < s
    <2> SUFFICES ASSUME NEW s \in SupId, sup[s].prev # NoSup
                 PROVE  sup[s].prev \in SupId /\ sup[s].prev # t /\ sup[s].prev < s
      OBVIOUS
    <2>1. sup[s].prev \in SupId
      BY DEF TypeOK, SupRow
    <2> QED
      BY <2>1 DEF RowsKept, Live, LiveStatus, EndStatus
  <1>2. ASSUME NEW s \in SupId, NEW o \in SupId, Live(s)', s < o PROVE sup'[o].status = "none"
    <2>1. s = t
      BY <1>0, <1>2, OneLive DEF Live
    <2> QED
      BY <1>0, <1>2, <2>1 DEF RowsKept
  <1>3. ASSUME NEW s \in SupId, sup'[s].status = "none" PROVE sup'[s] = NoRow
    BY <1>0, <1>3 DEF RowsKept, EndStatus
  <1>4. ASSUME NEW s \in SupId, sup'[s].prev # NoSup
        PROVE  sup'[s].prev < s /\ sup'[sup'[s].prev].status \in EndStatus
    BY <1>0, <1>1, <1>4 DEF RowsKept
  <1>5. ASSUME NEW s \in SupId, sup'[s].prev # NoSup, sup'[s].status # "failed"
        PROVE  sup'[s].model = IF sup'[sup'[s].prev].switch = NoModel THEN sup'[sup'[s].prev].model
                               ELSE sup'[sup'[s].prev].switch
    <2>1. sup[s].prev # NoSup /\ sup[s].status # "failed" /\ sup'[s].model = sup[s].model /\ sup'[s].prev = sup[s].prev
      BY <1>0, <1>5 DEF Live, LiveStatus
    <2>2. sup'[sup[s].prev] = sup[sup[s].prev]
      BY <1>0, <1>1, <2>1
    <2> QED
      BY <2>1, <2>2 DEF SwitchCarried
  <1> QED
    BY <1>2, <1>3, <1>4, <1>5 DEF RowsKept, SwitchCarried

\* A switch set on the running row, or canceled on it or on the last that
\* started, is one that no row has been started with.
LEMMA SwitchChanges ==
  ASSUME TypeOK, RowsKept, SwitchCarried, NEW t \in SupId, NEW m \in Model \cup {NoModel},
         sup' = [sup EXCEPT ![t].switch = m], Running(t) \/ LastStarted(t)
  PROVE  RowsKept' /\ SwitchCarried'
  <1> USE IdAssumption
  <1>0. /\ \A s \in SupId : s # t => sup'[s] = sup[s]
        /\ \A s \in SupId : sup'[s].status = sup[s].status /\ sup'[s].prev = sup[s].prev /\ sup'[s].model = sup[s].model
    BY DEF TypeOK, SupRow
  <1>1. sup[t].status # "none"
    BY DEF Running, LastStarted
  <1>2. RowsKept'
    BY <1>0, <1>1 DEF RowsKept, Live
  <1>3. ASSUME NEW s \in SupId, sup[s].prev # NoSup, sup[s].status # "failed"
        PROVE  sup[s].prev \in SupId /\ sup[s].prev # t
    <2>1. sup[s].prev \in SupId /\ sup[s].prev < s /\ sup[sup[s].prev].status \in EndStatus
      BY <1>3 DEF TypeOK, SupRow, RowsKept
    <2>2. sup[s].status # "none"
      BY <1>3 DEF RowsKept, NoRow
    <2> QED
      BY <1>3, <2>1, <2>2 DEF Running, LastStarted, EndStatus
  <1>4. SwitchCarried'
    BY <1>0, <1>3 DEF SwitchCarried
  <1> QED
    BY <1>2, <1>4

\* A row that is added continues the one its launch was told of.
LEMMA AddedRow ==
  ASSUME TypeOK, TypeOK', RowsKept, SwitchCarried, RunRows, NEW p \in Run, NEW s \in SupId, AddSupervisor(p, s)
  PROVE  RowsKept' /\ SwitchCarried' /\ sup'[s].status = "launching"
  <1> USE IdAssumption
  <1>0. /\ \A o \in SupId : ~Live(o) /\ (o < s <=> sup[o].status # "none")
        /\ sup[s].status = "none"
        /\ run[p].prev # NoSup => sup[run[p].prev].status \in EndStatus /\ run[p].model = Carried(run[p].prev)
        /\ run[p].prev \in SupId \cup {NoSup}
    BY DEF AddSupervisor, NextId, UsedSups, At, RunRows, RowsSound, TypeOK, RunState
  <1>1. /\ \A o \in SupId : o # s => sup'[o] = sup[o]
        /\ sup'[s].status = "launching" /\ sup'[s].prev = run[p].prev /\ sup'[s].model = run[p].model
    BY DEF AddSupervisor, TypeOK, NoRow
  <1>2. \A o \in SupId : sup[o].prev # NoSup => sup[o].prev \in SupId /\ sup[o].prev # s
    BY <1>0 DEF TypeOK, SupRow, RowsKept, EndStatus
  <1>3. \A a, o \in SupId : Live(a)' /\ a < o => sup'[o].status = "none"
    BY <1>0, <1>1 DEF Live
  <1>4. \A o \in SupId : sup'[o].status = "none" => sup'[o] = NoRow
    BY <1>0, <1>1 DEF RowsKept
  <1>5. ASSUME NEW o \in SupId, sup'[o].prev # NoSup
        PROVE  sup'[o].prev < o /\ sup'[sup'[o].prev].status \in EndStatus
    <2>1. CASE o = s
      <3>1. run[p].prev \in SupId /\ sup[run[p].prev].status \in EndStatus
        BY <1>0, <1>1, <1>5, <2>1
      <3>2. run[p].prev # s /\ run[p].prev < s
        BY <1>0, <3>1 DEF EndStatus
      <3> QED
        BY <1>1, <2>1, <3>1, <3>2
    <2>2. CASE o # s
      BY <1>1, <1>2, <1>5, <2>2 DEF RowsKept
    <2> QED
      BY <2>1, <2>2
  <1>6. ASSUME NEW o \in SupId, sup'[o].prev # NoSup, sup'[o].status # "failed"
        PROVE  sup'[o].model = IF sup'[sup'[o].prev].switch = NoModel THEN sup'[sup'[o].prev].model
                               ELSE sup'[sup'[o].prev].switch
    <2>1. CASE o = s
      <3>1. run[p].prev \in SupId /\ run[p].prev # s /\ run[p].model = Carried(run[p].prev)
        BY <1>0, <1>1, <1>6, <2>1 DEF EndStatus
      <3> QED
        BY <1>1, <2>1, <3>1 DEF Carried
    <2>2. CASE o # s
      <3>1. sup'[o] = sup[o] /\ sup'[sup[o].prev] = sup[sup[o].prev]
        BY <1>1, <1>2, <1>6, <2>2
      <3> QED
        BY <1>6, <3>1 DEF SwitchCarried
    <2> QED
      BY <2>1, <2>2
  <1> QED
    BY <1>1, <1>3, <1>4, <1>5, <1>6 DEF RowsKept, SwitchCarried

\* Of what runs have in hand, only that of the run that went on can change.
LEMMA RowsOfOthers ==
  ASSUME TypeOK, LockKept, NEW p \in Run, NEW r, Goes(p, r), RowsSound(p)'
  PROVE  RunRows'
  BY OthersIdle DEF RunRows, RowsSound
\* Every step keeps the rows, how they continue each other, and what runs have
\* in hand of them.
LEMMA SupRowsStep ==
  ASSUME TypeOK, TypeOK', LockKept, SupRows, [Next]_vars
  PROVE  SupRows'
  <1> USE DEF SupRows
  <1>s. \A s \in SupId : sup[s] \in SupRow
    BY DEF TypeOK
  <1>a. ASSUME UNCHANGED sup PROVE RowsKept' /\ SwitchCarried'
    BY <1>a DEF RowsKept, SwitchCarried, Live
  <1>b. ASSUME UNCHANGED <<sup, run>> PROVE SupRows'
    BY <1>a, <1>b DEF RunRows, RowsSound, Running, Carried
  <1>c. ASSUME LockFree, UNCHANGED run PROVE RunRows'
    BY <1>c DEF LockFree, RunRows, RowsSound
  <1>1. CASE Around
    <2>1. CASE UNCHANGED sup
      BY <1>1, <1>b, <2>1, AroundFaults
    <2>2. ASSUME NEW t \in SupId, NEW m \in Model, Switch(t, m) PROVE SupRows'
      <3>1. Running(t) /\ sup[t].switch = NoModel /\ sup' = [sup EXCEPT ![t].switch = m] /\ UNCHANGED run
        BY <2>2 DEF Switch, SetSupervisorSwitch
      <3>2. /\ \A s \in SupId : sup'[s].status = sup[s].status
            /\ \A s \in SupId : s # t => sup'[s] = sup[s]
        BY <3>1 DEF TypeOK, SupRow
      <3>3. ASSUME NEW p \in Run PROVE RowsSound(p)'
        <4>1. RowsSound(p) /\ run[p].prev \in SupId \cup {NoSup}
          BY DEF RunRows, TypeOK, RunState
        <4>2. run[p].prev \in SupId /\ sup[run[p].prev].status \in EndStatus => run[p].prev # t
          BY <3>1 DEF Running, EndStatus
        <4> QED
          BY <3>1, <3>2, <4>1, <4>2 DEF RowsSound, Running, Carried
      <3> QED
        BY <3>1, <3>3, SwitchChanges DEF RunRows
    <2>3. ASSUME NEW t \in SupId, CancelSwitch(t) PROVE SupRows'
      BY <2>3, <1>c, SwitchChanges DEF CancelSwitch
    <2> QED
      BY <1>1, <2>1, <2>2, <2>3 DEF Around, Send, GoStale, Emit, Interrupt, LateCreate, AgentActs,
         AgentsEnd, rows
  <1>2. CASE Settle
    <2> SUFFICES ASSUME NEW s \in SupId, NEW to \in {"exited", "interrupted"},
                        SettleLaunching(s) \/ SettleStray(s) \/ SettleRunning(s, to)
                 PROVE  SupRows'
      BY <1>2 DEF Settle
    <2>1. LockFree /\ UNCHANGED run
      BY DEF SettleLaunching, SettleStray, SettleRunning
    <2>2. CASE SettleStray(s)
      BY <2>1, <2>2, <1>a, <1>c DEF SettleStray, rows
    <2>3. CASE SettleLaunching(s) \/ SettleRunning(s, to)
      <3>1. PICK end \in EndStatus : Live(s) /\ sup' = [sup EXCEPT ![s].status = end]
        BY <2>3 DEF SettleLaunching, SettleRunning, Running, Live, LiveStatus, EndStatus
      <3>2. /\ sup' = [sup EXCEPT ![s] = [sup[s] EXCEPT !.status = end]]
            /\ [sup[s] EXCEPT !.status = end] \in SupRow
        BY <1>s, <3>1, SupTypes DEF TypeOK
      <3>3. LET r == [sup[s] EXCEPT !.status = end] IN
              r.status = end /\ r.switch = sup[s].switch /\ r.model = sup[s].model /\ r.prev = sup[s].prev
        BY <1>s DEF SupRow
      <3>4. RowsKept' /\ SwitchCarried'
        BY <3>1, <3>2, <3>3, LiveRowChanges
      <3> QED
        BY <2>1, <3>4, <1>c
    <2> QED
      BY <2>2, <2>3
  <1>3. ASSUME NEW p \in Run, Operate(p) \/ Watch(p) \/ AutoResume(p) \/ Proceed(p) \/ Fail(p)
        PROVE  SupRows'
    <2> DEFINE r == run'[p]
    <2>0. Goes(p, r) /\ run[p] \in RunState /\ RowsSound(p)
      BY <1>3, RunGoes DEF RunRows, TypeOK
    <2>a. ASSUME RowsKept', SwitchCarried', RowsSound(p)' PROVE SupRows'
      BY <2>0, <2>a, RowsOfOthers
    <2>b. ASSUME NEW q, Goto(p, q) PROVE run'[p] = q
      BY <2>b DEF Goto, TypeOK
    <2>c. ASSUME run'[p].at = "idle" PROVE RowsSound(p)'
      BY <2>c DEF RowsSound
    <2>d. ASSUME NEW s \in SupId, Running(s)', NEW quiet \in BOOLEAN, NEW forced \in BOOLEAN,
                 Goto(p, Sending(s, quiet, forced))
          PROVE  RowsSound(p)'
      BY <2>b, <2>d, SendingCases DEF RowsSound
    <2> HIDE DEF r
    <2>1. CASE Operate(p) \/ Watch(p) \/ AutoResume(p)
      <3>0. UNCHANGED sup
        BY <2>1 DEF Operate, Watch, AutoResume, ForceBegin, Stop, SwitchHarness, Start,
           DeliverBegin, ApplySwitch,
           Resume, rows
      <3>1. ASSUME NEW s \in SupId, ForceBegin(p, s) PROVE RowsSound(p)'
        BY <3>0, <3>1, <2>d DEF ForceBegin, Running
      <3>2. ASSUME NEW s \in SupId, DeliverBegin(p, s) PROVE RowsSound(p)'
        BY <3>0, <3>2, <2>d DEF DeliverBegin, Running
      <3>3. ASSUME NEW s \in SupId, Stop(p, s) PROVE RowsSound(p)'
        BY ZenonT(40), <3>0, <3>3, <2>b DEF Stop, Idle, RowsSound, Running
      <3>4. ASSUME NEW s \in SupId, NEW m \in Model, SwitchHarness(p, s, m) PROVE RowsSound(p)'
        BY ZenonT(40), <3>0, <3>4, <2>b DEF SwitchHarness, Idle, RowsSound, Running
      <3>5. ASSUME NEW s \in SupId, ApplySwitch(p, s) PROVE RowsSound(p)'
        <4>1. /\ run'[p].at = "stop" /\ run'[p].sup = s /\ run'[p].prev = NoSup
              /\ run'[p].model = sup[s].switch
          BY ZenonT(40), <3>5, <2>b DEF ApplySwitch, Idle
        <4> QED
          BY <3>0, <3>5, <4>1 DEF ApplySwitch, RowsSound, Running
      <3>6. ASSUME NEW m \in Model, NEW n \in {0} \cup EventId, Start(p, m, n) PROVE RowsSound(p)'
        BY ZenonT(40), <3>6, <2>b DEF Start, Idle, RowsSound
      <3>7. ASSUME NEW s \in SupId, Resume(p, s) PROVE RowsSound(p)'
        <4>1. sup[s].status \in EndStatus
          BY <3>7, <1>s DEF Resume, LastStarted, Live, LiveStatus, EndStatus, SupRow
        <4>2. run'[p].at = "add" /\ run'[p].prev = s /\ run'[p].model = Carried(s)
          BY ZenonT(40), <3>7, <2>b DEF Resume, Idle, Carried
        <4> QED
          BY <3>0, <4>1, <4>2 DEF RowsSound, Carried
      <3> QED
        BY <2>1, <3>0, <3>1, <3>2, <3>3, <3>4, <3>5, <3>6, <3>7, <1>a, <2>a DEF Operate, Watch,
           AutoResume
    <2>2. CASE Proceed(p)
      <3>1. ASSUME UNCHANGED sup, run[p].at \in {"send", "mark", "wake", "prompt", "advance"},
                   run'[p].sup = run[p].sup, run'[p].at \in {"send", "mark", "wake", "prompt", "advance", "idle"}
            PROVE  SupRows'
        BY <3>1, <2>0, <2>a, <1>a DEF RowsSound, Running
      <3>2. ASSUME NEW i \in InputId, InputTaken(p, i) PROVE SupRows'
        <4>1. run'[p].at = "mark" /\ run'[p].sup = run[p].sup
          BY <3>2, <2>0, <2>b DEF InputTaken, RunState
        <4> QED
          BY <3>1, <3>2, <4>1 DEF InputTaken, At, rows
      <3>3. ASSUME NEW i \in InputId, MarkInput(p, i) PROVE SupRows'
        <4>1. run'[p] = Idle \/ (run'[p].at = "send" /\ run'[p].sup = run[p].sup)
          BY <3>3, <2>0, <2>b DEF MarkInput, RunState
        <4> QED
          BY <3>1, <3>3, <4>1, <2>a, <2>c, <1>a DEF MarkInput, At, Idle
      <3>4. CASE ReadWakes(p)
        <4>1. run'[p].at = "prompt" /\ run'[p].sup = run[p].sup
          BY <3>4, <2>0, <2>b DEF ReadWakes, RunState
        <4> QED
          BY <3>1, <3>4, <4>1 DEF ReadWakes, At, rows
      <3>5. CASE WakeTaken(p)
        <4>1. run'[p].at = "advance" /\ run'[p].sup = run[p].sup
          BY <3>5, <2>0, <2>b DEF WakeTaken, RunState
        <4> QED
          BY <3>1, <3>5, <4>1 DEF WakeTaken, At, rows
      <3>6. CASE Advance(p)
        <4> DEFINE s == run[p].sup
                   q == [sup[s] EXCEPT !.cursor = run[p].last]
        <4>1. s \in SupId /\ Running(s) /\ run'[p] = Idle /\ sup' = [sup EXCEPT ![s].cursor = run[p].last]
          BY <3>6, <2>0, <2>b DEF Advance, At, RowsSound
        <4>2. sup' = [sup EXCEPT ![s] = q]
          BY <4>1
        <4>3. /\ q.status = "running" /\ q.switch = sup[s].switch /\ q.model = sup[s].model
              /\ q.prev = sup[s].prev
          BY <4>1, <1>s DEF SupRow, Running
        <4>4. sup'[s] = q /\ q \in SupRow
          BY <4>1, <4>2 DEF TypeOK
        <4> HIDE DEF q
        <4>5. RowsKept' /\ SwitchCarried'
          BY <4>1, <4>2, <4>3, <4>4, LiveRowChanges DEF Live, LiveStatus, Running
        <4> QED
          BY <4>1, <4>5, <2>a, <2>c DEF Idle
      <3>7. CASE StopAgent(p)
        <4>1. PICK to \in {"stopped", "exited"} : Goto(p, [run[p] EXCEPT !.at = "end", !.to = to])
          BY <3>7 DEF StopAgent
        <4>2. /\ run'[p].at = "end" /\ run'[p].sup = run[p].sup /\ run'[p].to = to /\ run'[p].prev = run[p].prev
              /\ run'[p].then = run[p].then /\ run'[p].model = run[p].model
          BY <4>1, <2>0, <2>b DEF RunState
        <4>3. run[p].at = "stop" /\ UNCHANGED sup
          BY <3>7 DEF StopAgent, At, rows
        <4> QED
          BY <4>2, <4>3, <2>0, <2>a, <1>a DEF RowsSound, Running
      <3>8. ASSUME NEW n \in {0} \cup EventId, EndRow(p, n) PROVE SupRows'
        <4> DEFINE s == run[p].sup
                   q == [sup[s] EXCEPT !.status = run[p].to]
        <4>1. /\ s \in SupId /\ Running(s) /\ run[p].at = "end" /\ run[p].to \in EndStatus
              /\ sup' = [sup EXCEPT ![s].status = run[p].to]
          BY <3>8, <2>0 DEF EndRow, At, RowsSound, RunState
        <4>2. sup' = [sup EXCEPT ![s] = q]
          BY <4>1
        <4>3. /\ q.status \in EndStatus /\ q.switch = sup[s].switch /\ q.model = sup[s].model
              /\ q.prev = sup[s].prev
          BY <4>1, <1>s DEF SupRow
        <4>4. sup'[s] = q /\ q \in SupRow
          BY <4>1, <4>2 DEF TypeOK
        <4> HIDE DEF q
        <4>5. RowsKept' /\ SwitchCarried'
          BY <4>1, <4>2, <4>3, <4>4, LiveRowChanges DEF Live, LiveStatus, Running
        <4>6. PICK x \in RunState :
                /\ Goto(p, x)
                /\ \/ x = Idle
                   \/ run[p].then = "deliver" /\ x.at = "add" /\ x.prev = s /\ x.model = run[p].model
                   \/ x.at = "add" /\ x.prev = run[p].prev
          BY <3>8, EndRowGoes
        <4>7. RowsSound(p)'
          <5>1. CASE x = Idle
            BY <5>1, <4>6, <2>b, <2>c DEF Idle
          <5>2. CASE run[p].then = "deliver" /\ x.at = "add" /\ x.prev = s /\ x.model = run[p].model
            BY <5>2, <4>1, <4>3, <4>4, <4>6, <2>0, <2>b DEF RowsSound, Carried
          <5>3. CASE x.at = "add" /\ x.prev = run[p].prev
            BY <5>3, <4>1, <4>6, <2>0, <2>b DEF RowsSound
          <5> QED
            BY <4>6, <5>1, <5>2, <5>3
        <4> QED
          BY <4>5, <4>7, <2>a
      <3>9. ASSUME NEW s \in SupId, AddSupervisor(p, s) PROVE SupRows'
        <4>1. RowsKept' /\ SwitchCarried' /\ sup'[s].status = "launching"
          BY <3>9, AddedRow
        <4>2. run'[p].at = "create" /\ run'[p].sup = s
          BY <3>9, <2>0, <2>b DEF AddSupervisor, RunState
        <4> QED
          BY <4>1, <4>2, <2>a DEF RowsSound
      <3>10. ASSUME NEW status \in {"idle", "working", "blocked"}, Create(p, status) PROVE SupRows'
        <4>1. run[p].at = "create" /\ run'[p].at = "started" /\ run'[p].sup = run[p].sup /\ UNCHANGED sup
          BY <3>10, <2>0, <2>b DEF Create, RunState, At, rows
        <4> QED
          BY <4>1, <2>0, <2>a, <1>a DEF RowsSound
      <3>11. ASSUME NEW held \in BOOLEAN, Started(p, held) PROVE SupRows'
        <4> DEFINE s == run[p].sup
                   q == [sup[s] EXCEPT !.status = "running", !.held = held]
        <4>1. s \in SupId /\ sup[s].status = "launching"
          BY <3>11, <2>0 DEF Started, At, RowsSound
        <4>2. /\ sup' = [sup EXCEPT ![s].status = "running", ![s].held = held]
              /\ Goto(p, Idle) \/ Goto(p, Sending(s, agent[s] # "working", FALSE))
          BY <3>11, <4>1 DEF Started, SupervisorRunning
        <4>3. sup' = [sup EXCEPT ![s] = q]
          BY <4>1, <4>2 DEF TypeOK
        <4>4. /\ q.status = "running" /\ q.switch = sup[s].switch /\ q.model = sup[s].model
              /\ q.prev = sup[s].prev
          BY <4>1, <1>s DEF SupRow
        <4>5. sup'[s] = q /\ q \in SupRow
          BY <4>1, <4>3 DEF TypeOK
        <4> HIDE DEF q
        <4>6. RowsKept' /\ SwitchCarried'
          BY <4>1, <4>3, <4>4, <4>5, LiveRowChanges DEF Live, LiveStatus
        <4>7. CASE Goto(p, Idle)
          BY <4>6, <4>7, <2>a, <2>b, <2>c DEF Idle
        <4>8. CASE Goto(p, Sending(s, agent[s] # "working", FALSE))
          BY <4>1, <4>4, <4>5, <4>6, <4>8, <2>a, <2>d DEF Running
        <4> QED
          BY <4>2, <4>7, <4>8
      <3> QED
        BY <2>2, <3>2, <3>3, <3>4, <3>5, <3>6, <3>7, <3>8, <3>9, <3>10, <3>11 DEF Proceed
    <2>3. CASE Fail(p)
      <3>1. run'[p] = Idle
        BY <2>3, <2>b DEF Fail, InputUnknown, WakeUnknown, CreateRefused, CreateUnknown, GiveUp,
           Killed
      <3>2. RowsKept' /\ SwitchCarried'
        <4>1. CASE CreateRefused(p)
          <5> DEFINE s == run[p].sup
                     q == [sup[s] EXCEPT !.status = "failed"]
          <5>1. s \in SupId /\ sup[s].status = "launching"
            BY <4>1, <2>0 DEF CreateRefused, At, RowsSound
          <5>2. sup' = [sup EXCEPT ![s] = q]
            BY <4>1, <5>1 DEF CreateRefused
          <5>3. /\ q.status = "failed" /\ q.switch = sup[s].switch /\ q.model = sup[s].model
                /\ q.prev = sup[s].prev
            BY <5>1, <1>s DEF SupRow
          <5>4. q \in SupRow
            BY <5>1, <1>s, SupTypes DEF EndStatus
          <5> HIDE DEF q
          <5> QED
            BY <5>1, <5>2, <5>3, <5>4, LiveRowChanges DEF Live, LiveStatus, EndStatus
        <4>2. CASE UNCHANGED sup
          BY <4>2, <1>a
        <4> QED
          BY <2>3, <4>1, <4>2 DEF Fail, InputUnknown, WakeUnknown, CreateUnknown, GiveUp, Killed,
             rows
      <3> QED
        BY <3>1, <3>2, <2>a, <2>c DEF Idle
    <2> QED
      BY <1>3, <2>1, <2>2, <2>3
  <1>4. CASE UNCHANGED vars
    BY <1>4, <1>b DEF vars, rows
  <1> QED
    BY <1>1, <1>2, <1>3, <1>4 DEF Next
-----------------------------------------------------------------------------
(* Wakes *)

\* A digest takes every event after the cursor that still matters, up to its last.
LEMMA BatchComplete ==
  ASSUME TypeOK, NEW cur \in Nat, NEW last \in WakeEvents(cur)
  PROVE  /\ last \in UsedEvents /\ cur < last
         /\ \A e \in WakeEvents(cur) : e \in UsedEvents /\ cur < e
         /\ \A e \in UsedEvents : cur < e /\ e <= last => e \in WakeEvents(cur) \/ e \in stale
  <1> USE IdAssumption
  <1> DEFINE fresh == {e \in UsedEvents \ stale : e > cur}
             upto(e) == {o \in fresh : o <= e}
  <1>1. WakeEvents(cur) = WakeEventsAfter(cur)
    BY DEF WakeEvents
  <1>2. WakeEventsAfter(cur) = {e \in fresh : Cardinality(upto(e)) <= WakeBatch}
    BY DEF WakeEventsAfter
  <1>3. fresh \subseteq UsedEvents /\ UsedEvents \subseteq EventId /\ UsedEvents \subseteq Nat
    BY DEF UsedEvents
  <1>4. \A e \in WakeEvents(cur) : e \in fresh
    BY <1>1, <1>2
  <1>5. ASSUME NEW e \in UsedEvents, cur < e, e <= last, e \notin stale PROVE e \in WakeEvents(cur)
    <2>1. e \in fresh /\ last \in fresh
      BY <1>3, <1>4, <1>5
    <2>2. upto(e) \subseteq upto(last)
      <3>1. e \in Nat /\ last \in Nat /\ \A o \in fresh : o \in Nat
        BY <1>3, <2>1
      <3>2. \A o \in fresh : o <= e => o <= last
        BY <1>5, <3>1
      <3> QED
        BY <3>2
    <2>3. IsFiniteSet(EventId) /\ upto(last) \subseteq EventId
      BY <1>3
    <2>4. IsFiniteSet(upto(last))
      BY <2>3, FS_Subset
    <2>5. /\ Cardinality(upto(e)) <= Cardinality(upto(last))
          /\ IsFiniteSet(upto(e))
      BY <2>2, <2>4, FS_Subset
    <2>6. Cardinality(upto(e)) \in Nat /\ Cardinality(upto(last)) \in Nat
      BY <2>4, <2>5, FS_CardinalityType
    <2>7. Cardinality(upto(last)) <= WakeBatch
      BY <1>1, <1>2
    <2>8. Cardinality(upto(e)) <= WakeBatch
      BY <2>5, <2>6, <2>7
    <2> QED
      BY <1>1, <1>2, <2>1, <2>8
  <1>6. \A e \in fresh : e \in UsedEvents /\ cur < e
    BY <1>3
  <1> QED
    BY <1>4, <1>5, <1>6

\* Rows that keep their cursors, and events that only become stale or more.
LEMMA CursorsKept ==
  ASSUME EventsKept, CursorSkipsNothing, UNCHANGED <<event, shown>>, stale \subseteq stale',
         \A s \in SupId : sup'[s].cursor = sup[s].cursor /\ sup'[s].since = sup[s].since
  PROVE  EventsKept' /\ CursorSkipsNothing'
  BY DEF EventsKept, CursorSkipsNothing, UsedEvents

\* A step that shows nothing and moves no cursor keeps what was shown beyond the
\* cursors, if a digest that was shown is left unrecorded only at the price of a
\* fault.
LEMMA ShownKept ==
  ASSUME TypeOK, LockKept, ShownOnce, UNCHANGED shown, faults' \in Nat, faults <= faults',
         NEW p \in Run, NEW r, Goes(p, r), At(p, "advance") => faults' = faults + 1,
         \A s \in SupId : Current(s)' => Current(s) /\ sup'[s].cursor = sup[s].cursor
  PROVE  ShownOnce'
  <1>0. \A e \in EventId : shown[e] \in Nat /\ shown[e] <= 1 + faults /\ faults \in Nat
    BY DEF TypeOK, ShownOnce
  <1>1. \A e \in EventId : shown'[e] <= 1 + faults'
    BY <1>0
  <1>2. ASSUME NEW s \in SupId, NEW e \in EventId, Current(s)', sup'[s].cursor < e PROVE shown[e] <= faults'
    <2>1. CASE At(p, "advance")
      BY <1>0, <2>1
    <2>2. CASE ~At(p, "advance")
      <3>1. ~Unpassed(e)
        BY <2>2, OthersIdle DEF Unpassed, At
      <3>2. shown[e] <= faults
        BY <1>2, <3>1 DEF ShownOnce
      <3> QED
        BY <1>0, <3>2
    <2> QED
      BY <2>1, <2>2
  <1> QED
    BY <1>1, <1>2 DEF ShownOnce

\* When a live row goes on or ends, no other row becomes current.
LEMMA CurrentKept ==
  ASSUME TypeOK, RowsKept, NEW t \in SupId, Live(t),
         \A s \in SupId : s # t => sup'[s] = sup[s],
         sup'[t].status \in {"running"} \cup EndStatus, Running(t) => sup'[t].status # "failed"
  PROVE  \A s \in SupId : Current(s)' => Current(s)
  <1> USE IdAssumption
  <1> SUFFICES ASSUME NEW s \in SupId, Current(s)' PROVE Current(s)
    OBVIOUS
  <1>1. CASE s = t
    BY <1>1 DEF Current, RowsKept, Live, LiveStatus
  <1>2. CASE s < t
    <2>1. sup[t].status = "launching"
      BY <1>2 DEF Current, Live, LiveStatus, Running, EndStatus
    <2> QED
      BY <1>2, <2>1 DEF Current
  <1>3. CASE t < s
    BY <1>3 DEF Current, RowsKept
  <1> QED
    BY <1>1, <1>2, <1>3

\* The running row is the only one that is current.
LEMMA RunningCurrent ==
  ASSUME TypeOK, RowsKept, NEW t \in SupId, Running(t)
  PROVE  Current(t) /\ \A s \in SupId : Current(s) => s = t
  <1> USE IdAssumption
  <1>1. Live(t) /\ \A o \in SupId : t < o => sup[o].status = "none"
    BY DEF RowsKept, Live, LiveStatus, Running
  <1>2. Current(t)
    BY <1>1 DEF Current, Running
  <1>3. ASSUME NEW s \in SupId, Current(s), s # t PROVE FALSE
    <2>1. CASE s < t
      BY <1>3, <2>1 DEF Current, Running
    <2>2. CASE t < s
      BY <1>1, <1>3, <2>2 DEF Current
    <2> QED
      BY <1>3, <2>1, <2>2
  <1> QED
    BY <1>2, <1>3

\* Of what runs have in hand, only that of the run that went on can change.
LEMMA EventsOfOthers ==
  ASSUME TypeOK, LockKept, NEW p \in Run, NEW r, Goes(p, r), EventsSound(p)'
  PROVE  RunEvents'
  BY OthersIdle DEF RunEvents, EventsSound

\* A launch that begins at the newest event: nothing after it was shown.
LEMMA NewestEvent ==
  ASSUME TypeOK, Wakes, NEW n, LastEventSeq(n)
  PROVE  /\ n \in {0} \cup UsedEvents /\ Passed(n, n)
         /\ \A e \in EventId : n < e => shown[e] <= faults
  <1> USE IdAssumption
  <1>1. n \in {0} \cup UsedEvents /\ UsedEvents \subseteq Nat /\ n \in Nat /\ \A e \in UsedEvents : e <= n
    <2>1. UsedEvents \subseteq EventId
      BY DEF UsedEvents
    <2> QED
      BY <2>1 DEF LastEventSeq
  <1>2. Passed(n, n)
    BY <1>1 DEF Passed
  <1>3. ASSUME NEW e \in EventId, n < e PROVE shown[e] <= faults
    <2>1. e \notin UsedEvents
      BY <1>1, <1>3
    <2>2. ~(shown[e] > 0)
      BY <2>1 DEF Wakes, EventsKept, UsedEvents
    <2> QED
      BY <2>2 DEF TypeOK
  <1> QED
    BY <1>1, <1>2, <1>3

\* A launch that goes on from a current row: what came after its cursor was not
\* shown but at the price of a fault.
LEMMA FromCurrent ==
  ASSUME TypeOK, Wakes, NEW s \in SupId, Current(s), \A e \in EventId : ~Unpassed(e)
  PROVE  /\ sup[s].cursor \in {0} \cup UsedEvents /\ Passed(sup[s].since, sup[s].cursor)
         /\ \A e \in EventId : sup[s].cursor < e => shown[e] <= faults
  BY DEF Wakes, EventsKept, CursorSkipsNothing, Passed, ShownOnce
\* A new event comes after all those there are, and so after every cursor.
LEMMA EmitWakes ==
  ASSUME TypeOK, Wakes, NEW x \in EventId, NEW k \in {"wake", "progress"}, Emit(x, k)
  PROVE  Wakes'
  <1> USE IdAssumption
  <1>0. /\ event[x] = "none" /\ event' = [event EXCEPT ![x] = k]
        /\ \A e \in EventId : e < x <=> event[e] # "none"
        /\ UNCHANGED <<sup, stale, run, shown, faults>>
    BY DEF Emit, NextId, UsedEvents, history
  <1>1. /\ event'[x] # "none" /\ \A e \in EventId : e # x => event'[e] = event[e]
        /\ UsedEvents' = UsedEvents \cup {x}
    BY <1>0 DEF TypeOK, UsedEvents
  <1>2. /\ UsedEvents \subseteq Nat /\ x \in Nat /\ x > 0 /\ \A e \in UsedEvents : e < x
        /\ \A c \in {0} \cup UsedEvents : ~(x <= c)
    <2>1. UsedEvents \subseteq EventId /\ \A e \in UsedEvents : e < x
      BY <1>0 DEF UsedEvents
    <2>2. UsedEvents \subseteq Nat /\ x \in Nat /\ x > 0
      BY <2>1
    <2> QED
      BY <2>1, <2>2
  <1>3. EventsKept'
    <2>1. \A e, d \in EventId : d < e /\ event'[e] # "none" => event'[d] # "none"
      BY <1>0, <1>1 DEF Wakes, EventsKept
    <2>2. \A e \in EventId : shown[e] > 0 => event'[e] # "none"
      BY <1>1 DEF Wakes, EventsKept
    <2>3. \A s \in SupId : sup[s].cursor \in {0} \cup UsedEvents'
      BY <1>1 DEF Wakes, EventsKept
    <2> QED
      BY <1>0, <2>1, <2>2, <2>3 DEF EventsKept
  <1>4. CursorSkipsNothing'
    <2>1. \A s \in SupId : ~(x <= sup[s].cursor)
      BY <1>2 DEF Wakes, EventsKept
    <2> QED
      BY <1>0, <1>1, <2>1 DEF Wakes, CursorSkipsNothing
  <1>5. ShownOnce'
    BY <1>0 DEF Wakes, ShownOnce, Current, Unpassed, At
  <1>6. ASSUME NEW p \in Run PROVE EventsSound(p)'
    <2>1. EventsSound(p)
      BY DEF Wakes, RunEvents
    <2>2. CASE run[p].at = "add"
      <3>1. ~(x <= run[p].cur) /\ run[p].cur \in {0} \cup UsedEvents'
        BY <1>1, <1>2, <2>1, <2>2 DEF EventsSound
      <3> QED
        BY <1>0, <1>1, <2>1, <2>2, <3>1 DEF EventsSound, Passed
    <2>3. CASE run[p].at \in {"prompt", "advance"}
      <3>1. ~(x <= run[p].last) /\ run[p].last \in UsedEvents'
        BY <1>1, <1>2, <2>1, <2>3 DEF EventsSound
      <3> QED
        BY <1>0, <1>1, <2>1, <2>3, <3>1 DEF EventsSound
    <2>4. CASE run[p].at \notin {"add", "prompt", "advance"}
      BY <1>0, <2>1, <2>4 DEF EventsSound
    <2> QED
      BY <2>2, <2>3, <2>4
  <1> QED
    BY <1>3, <1>4, <1>5, <1>6 DEF Wakes, RunEvents

\* What goes on beside the runs keeps what is known of the wakes.
LEMMA AroundWakes ==
  ASSUME TypeOK, TypeOK', RowsKept, RunRows, Wakes, Around \/ Settle \/ UNCHANGED vars
  PROVE  Wakes'
  <1> USE DEF Wakes
  <1>f. faults \in Nat /\ faults' \in Nat /\ \A e \in EventId : shown[e] \in Nat
    BY DEF TypeOK
  <1>r. \A p \in Run : run[p].at \in {"wake", "prompt", "advance"} => run[p].sup \in SupId
    BY DEF RunRows, RowsSound
  <1>a. ASSUME UNCHANGED <<event, run>>, stale \subseteq stale',
               \A s \in SupId : /\ sup'[s].cursor = sup[s].cursor /\ sup'[s].since = sup[s].since
                                /\ sup'[s].status = sup[s].status
        PROVE  Wakes'
    <2>1. UNCHANGED shown /\ faults <= faults'
      BY AroundFaults DEF history
    <2>2. EventsKept' /\ CursorSkipsNothing'
      BY <1>a, <2>1, CursorsKept
    <2>3. ShownOnce'
      BY <1>a, <1>f, <2>1 DEF ShownOnce, Current, Unpassed, At
    <2>4. ASSUME NEW p \in Run PROVE EventsSound(p)'
      <3>1. EventsSound(p) /\ run' = run /\ event' = event
        BY <1>a DEF RunEvents
      <3>2. run[p].at \in {"wake", "prompt", "advance"} => sup'[run[p].sup].cursor = sup[run[p].sup].cursor
        BY <1>a, <1>r
      <3> QED
        BY <1>a, <1>f, <2>1, <3>1, <3>2 DEF EventsSound, UsedEvents, Passed
    <2> QED
      BY <2>2, <2>3, <2>4 DEF RunEvents
  <1>1. CASE Around
    <2>1. ASSUME NEW e \in EventId, NEW k \in {"wake", "progress"}, Emit(e, k) PROVE Wakes'
      BY <2>1, EmitWakes
    <2>2. ASSUME NEW s \in SupId, (\E m \in Model : Switch(s, m)) \/ CancelSwitch(s) PROVE Wakes'
      <3>1. PICK m : sup' = [sup EXCEPT ![s].switch = m]
        BY <2>2 DEF Switch, SetSupervisorSwitch, CancelSwitch
      <3>2. \A o \in SupId : /\ sup'[o].cursor = sup[o].cursor /\ sup'[o].since = sup[o].since
                             /\ sup'[o].status = sup[o].status
        BY <3>1 DEF TypeOK, SupRow
      <3> QED
        BY <2>2, <3>2, <1>a DEF Switch, CancelSwitch
    <2>3. ASSUME NEW e \in EventId, GoStale(e) PROVE Wakes'
      BY <2>3, <1>a DEF GoStale
    <2>4. CASE UNCHANGED <<sup, event, stale>>
      BY <1>1, <2>4, <1>a, AroundFaults
    <2> QED
      BY <1>1, <2>1, <2>2, <2>3, <2>4 DEF Around, Send, Interrupt, LateCreate, AgentActs,
         AgentsEnd, rows
  <1>2. CASE Settle
    <2> SUFFICES ASSUME NEW t \in SupId, NEW to \in {"exited", "interrupted"},
                        SettleLaunching(t) \/ SettleStray(t) \/ SettleRunning(t, to)
                 PROVE  Wakes'
      BY <1>2 DEF Settle
    <2>1. LockFree /\ UNCHANGED <<run, event, stale, shown, faults>>
      BY DEF SettleLaunching, SettleStray, SettleRunning, rows, history
    <2>2. CASE SettleStray(t)
      BY <2>1, <2>2, <1>a DEF SettleStray, rows
    <2>3. CASE SettleLaunching(t) \/ SettleRunning(t, to)
      <3>1. PICK end \in EndStatus : /\ Live(t) /\ sup' = [sup EXCEPT ![t].status = end]
                                     /\ Running(t) => end # "failed"
        BY <2>3 DEF SettleLaunching, SettleRunning, Running, Live, LiveStatus, EndStatus
      <3>2. /\ sup'[t].status = end /\ \A s \in SupId : s # t => sup'[s] = sup[s]
            /\ \A s \in SupId : sup'[s].cursor = sup[s].cursor /\ sup'[s].since = sup[s].since
        BY <3>1 DEF TypeOK, SupRow
      <3>3. \A s \in SupId : Current(s)' => Current(s)
        BY <3>1, <3>2, CurrentKept
      <3>4. EventsKept' /\ CursorSkipsNothing'
        BY <2>1, <3>2, CursorsKept
      <3>5. ShownOnce'
        BY <2>1, <3>2, <3>3 DEF ShownOnce, Unpassed, At
      <3>6. RunEvents'
        BY <2>1 DEF LockFree, RunEvents, EventsSound
      <3> QED
        BY <3>4, <3>5, <3>6
    <2> QED
      BY <2>2, <2>3
  <1>3. CASE UNCHANGED vars
    BY <1>3, <1>a DEF vars, rows
  <1> QED
    BY <1>1, <1>2, <1>3
\* A digest that reached an agent: its events count one more, and the cursor
\* moves over them next, or a fault is charged for them.
LEMMA TakenWakes ==
  ASSUME TypeOK, TypeOK', LockKept, RowsKept, RunRows, Wakes, NEW p \in Run, WakeTaken(p) \/ WakeUnknown(p)
  PROVE  Wakes'
  <1> USE IdAssumption DEF Wakes
  <1> DEFINE s == run[p].sup
  <1>0. /\ run[p].at = "prompt" /\ s \in SupId /\ Running(s) /\ EventsSound(p)
        /\ UNCHANGED <<sup, event, stale>> /\ run[p] \in RunState
        /\ shown' = [e \in EventId |-> IF e \in run[p].batch THEN shown[e] + 1 ELSE shown[e]]
    BY DEF WakeTaken, WakeUnknown, At, rows, Show, RunRows, RowsSound, RunEvents, TypeOK
  <1>1. /\ run[p].cur = sup[s].cursor /\ run[p].last \in UsedEvents /\ run[p].cur < run[p].last
        /\ \A e \in run[p].batch : e \in UsedEvents /\ run[p].cur < e /\ e <= run[p].last
        /\ \A e \in UsedEvents : run[p].cur < e /\ e <= run[p].last => e \in run[p].batch \cup stale
    BY <1>0 DEF EventsSound
  <1>2. \A q \in Run : q # p => run[q].at = "idle"
    BY <1>0 DEF LockKept
  <1>3. \A o \in SupId : Current(o) => o = s
    BY <1>0, RunningCurrent
  <1>4. /\ faults \in Nat
        /\ \A e \in EventId : shown[e] \in Nat /\ shown[e] <= 1 + faults
        /\ \A e \in EventId : sup[s].cursor < e => shown[e] <= faults
    <2>1. \A e \in EventId : ~Unpassed(e)
      BY <1>0, <1>2 DEF Unpassed, At
    <2>2. Current(s)
      BY <1>0, RunningCurrent
    <2> QED
      BY <1>0, <2>1, <2>2 DEF ShownOnce, TypeOK
  <1>5. /\ \A e \in EventId : e \in run[p].batch => shown'[e] = shown[e] + 1 /\ shown[e] <= faults
        /\ \A e \in EventId : e \notin run[p].batch => shown'[e] = shown[e]
    BY <1>0, <1>1, <1>4
  <1>9. ASSUME NEW e \in EventId
        PROVE  /\ shown[e] > 0 \/ e \in run[p].batch => shown'[e] > 0
               /\ shown'[e] <= 1 + faults
    <2>0. shown[e] \in Nat /\ faults \in Nat /\ shown[e] <= 1 + faults
      BY <1>4
    <2>1. CASE e \in run[p].batch
      <3>1. shown'[e] = shown[e] + 1 /\ shown[e] <= faults
        BY <1>5, <2>1
      <3> QED
        BY <2>0, <3>1
    <2>2. CASE e \notin run[p].batch
      <3>1. shown'[e] = shown[e]
        BY <1>5, <2>2
      <3> QED
        BY <2>0, <2>2, <3>1
    <2> QED
      BY <2>1, <2>2
  <1>6. EventsKept' /\ CursorSkipsNothing'
    <2>1. EventsKept'
      BY <1>0, <1>1, <1>5 DEF EventsKept, UsedEvents
    <2> QED
      BY <1>0, <1>9, <2>1 DEF CursorSkipsNothing, UsedEvents
  <1>7. CASE WakeTaken(p)
    <2>1. run'[p] = [run[p] EXCEPT !.at = "advance"] /\ UNCHANGED faults /\ \A q \in Run : q # p => run'[q] = run[q]
      BY <1>7 DEF WakeTaken, Goto, TypeOK
    <2>2. /\ run'[p].at = "advance" /\ run'[p].cur = run[p].cur /\ run'[p].last = run[p].last
          /\ run'[p].batch = run[p].batch /\ run'[p].sup = run[p].sup
      BY <1>0, <2>1 DEF RunState
    <2>3. \A e \in EventId : shown'[e] <= 1 + faults
      BY <1>9
    <2>4. ASSUME NEW o \in SupId, NEW e \in EventId, Current(o)', sup'[o].cursor < e
          PROVE  shown'[e] <= faults' \/ Unpassed(e)'
      <3>1. Current(o)
        BY <1>0, <2>4 DEF Current
      <3>2. o = s /\ sup[s].cursor < e
        BY <1>0, <1>3, <2>4, <3>1
      <3>3. e \in run[p].batch => Unpassed(e)'
        BY <2>2 DEF Unpassed, At
      <3> QED
        BY <1>4, <1>5, <2>1, <3>2, <3>3
    <2>5. ShownOnce'
      BY <2>1, <2>3, <2>4 DEF ShownOnce
    <2>6. EventsSound(p)'
      <3>1. \A e \in run[p].batch : shown'[e] > 0
        BY <1>1, <1>9 DEF UsedEvents
      <3> QED
        BY <1>0, <1>1, <2>2, <3>1 DEF EventsSound, UsedEvents
    <2>7. RunEvents'
      BY <1>2, <2>1, <2>6 DEF RunEvents, EventsSound
    <2> QED
      BY <1>6, <2>5, <2>7
  <1>8. CASE WakeUnknown(p)
    <2>1. run'[p] = Idle /\ faults' = faults + 1 /\ \A q \in Run : q # p => run'[q] = run[q]
      BY <1>8 DEF WakeUnknown, Fault, Goto, TypeOK
    <2>2. ASSUME NEW e \in EventId PROVE shown'[e] <= faults' /\ shown'[e] <= 1 + faults'
      <3>1. shown'[e] <= 1 + faults /\ shown'[e] \in Nat /\ faults \in Nat
        BY <1>4, <1>9 DEF TypeOK
      <3> QED
        BY <2>1, <3>1
    <2>4. ShownOnce'
      BY <2>2 DEF ShownOnce
    <2>5. RunEvents'
      BY <1>2, <2>1 DEF RunEvents, EventsSound, Idle
    <2> QED
      BY <1>6, <2>4, <2>5
  <1> QED
    BY <1>7, <1>8

\* The cursor moves to the last event of a digest that reached the agent.
LEMMA AdvanceWakes ==
  ASSUME TypeOK, TypeOK', LockKept, RowsKept, RunRows, Wakes, NEW p \in Run, Advance(p)
  PROVE  Wakes'
  <1> USE IdAssumption DEF Wakes
  <1> DEFINE s == run[p].sup
  <1>0. /\ run[p].at = "advance" /\ s \in SupId /\ Running(s) /\ EventsSound(p)
        /\ UNCHANGED <<event, stale, shown, faults>>
        /\ sup' = [sup EXCEPT ![s].cursor = run[p].last]
    BY DEF Advance, At, RunRows, RowsSound, RunEvents, history
  <1>1. /\ run[p].cur = sup[s].cursor /\ run[p].last \in UsedEvents
        /\ \A e \in run[p].batch : e \in UsedEvents /\ e <= run[p].last /\ shown[e] > 0
        /\ \A e \in UsedEvents : run[p].cur < e /\ e <= run[p].last => e \in run[p].batch \cup stale
    BY <1>0 DEF EventsSound
  <1>2. /\ \A q \in Run : q # p => run[q].at = "idle" /\ run'[q] = run[q]
        /\ run'[p] = Idle
    BY <1>0 DEF LockKept, Advance, Goto, TypeOK
  <1>3. /\ sup'[s].cursor = run[p].last /\ \A o \in SupId : o # s => sup'[o] = sup[o]
        /\ \A o \in SupId : sup'[o].status = sup[o].status /\ sup'[o].since = sup[o].since
    BY <1>0 DEF TypeOK, SupRow
  <1>4. UsedEvents \subseteq Nat /\ run[p].last \in Nat /\ sup[s].cursor \in Nat /\ sup[s].since \in Nat
    <2>1. UsedEvents \subseteq EventId
      BY DEF UsedEvents
    <2> QED
      BY <1>0, <1>1, <2>1 DEF TypeOK, SupRow
  <1>5. EventsKept'
    BY <1>0, <1>1, <1>3 DEF EventsKept, UsedEvents
  <1>6. CursorSkipsNothing'
    <2> SUFFICES ASSUME NEW o \in SupId, NEW e \in UsedEvents, sup'[o].since < e, e <= sup'[o].cursor
                 PROVE  shown[e] > 0 \/ e \in stale
      BY <1>0 DEF CursorSkipsNothing, UsedEvents
    <2>1. CASE o # s
      BY <1>3, <2>1 DEF CursorSkipsNothing
    <2>2. CASE o = s /\ e <= sup[s].cursor
      BY <1>3, <2>2 DEF CursorSkipsNothing
    <2>3. CASE o = s /\ sup[s].cursor < e
      BY <1>1, <1>3, <2>3
    <2> QED
      BY <1>4, <2>1, <2>2, <2>3
  <1>7. ShownOnce'
    <2> SUFFICES ASSUME NEW o \in SupId, NEW e \in EventId, Current(o)', sup'[o].cursor < e
                 PROVE  shown[e] <= faults
      BY <1>0 DEF ShownOnce
    <2>1. Current(o)
      BY <1>3 DEF Current
    <2>2. o = s
      BY <1>0, <2>1, RunningCurrent
    <2>3. run[p].last < e /\ sup[s].cursor < e
      <3>1. sup[s].cursor < run[p].last /\ e \in Nat
        BY <1>0, <1>1 DEF EventsSound
      <3> QED
        BY <1>3, <1>4, <2>2, <3>1
    <2>4. e \notin run[p].batch
      BY <1>1, <1>4, <2>3
    <2>5. ~Unpassed(e)
      BY <1>0, <1>2, <2>4 DEF Unpassed, At
    <2> QED
      BY <2>1, <2>2, <2>3, <2>5 DEF ShownOnce
  <1>8. RunEvents'
    BY <1>2 DEF RunEvents, EventsSound, Idle
  <1> QED
    BY <1>5, <1>6, <1>7, <1>8

\* A row that is added takes wakes from where its launch was told.
LEMMA AddedWakes ==
  ASSUME TypeOK, TypeOK', LockKept, Wakes, NEW p \in Run, NEW s \in SupId, AddSupervisor(p, s)
  PROVE  Wakes'
  <1> USE IdAssumption DEF Wakes
  <1>0. /\ run[p].at = "add" /\ EventsSound(p) /\ UNCHANGED <<event, stale, shown, faults>>
        /\ run[p] \in RunState /\ Goto(p, [run[p] EXCEPT !.at = "create", !.sup = s])
        /\ \A o \in SupId : o < s <=> sup[o].status # "none"
    BY DEF AddSupervisor, At, RunEvents, history, TypeOK, NextId, UsedSups
  <1>1. /\ \A o \in SupId : o # s => sup'[o] = sup[o]
        /\ sup'[s].status = "launching" /\ sup'[s].cursor = run[p].cur /\ sup'[s].since = run[p].since
        /\ sup[s].status = "none"
    BY DEF AddSupervisor, NextId, UsedSups, TypeOK, NoRow
  <1>2. /\ run'[p].at = "create" /\ \A q \in Run : q # p => run'[q] = run[q] /\ run[q].at = "idle"
    BY <1>0 DEF LockKept, Goto, TypeOK, RunState
  <1>3. /\ run[p].cur \in {0} \cup UsedEvents /\ Passed(run[p].since, run[p].cur)
        /\ \A e \in EventId : run[p].cur < e => shown[e] <= faults
    BY <1>0 DEF EventsSound
  <1>4. EventsKept'
    BY <1>0, <1>1, <1>3 DEF EventsKept, UsedEvents
  <1>5. CursorSkipsNothing'
    BY <1>0, <1>1, <1>3 DEF CursorSkipsNothing, UsedEvents, Passed
  <1>6. ShownOnce'
    <2>1. \A e \in EventId : shown'[e] <= 1 + faults'
      BY <1>0 DEF ShownOnce
    <2>2. ASSUME NEW o \in SupId, NEW e \in EventId, Current(o)', sup'[o].cursor < e PROVE shown'[e] <= faults'
      <3>1. CASE o = s
        BY <1>0, <1>1, <1>3, <2>2, <3>1
      <3>2. CASE o # s
        <4>1. Current(o)
          BY <1>1, <2>2, <3>2 DEF Current
        <4>2. ~Unpassed(e)
          BY <1>0, <1>2 DEF Unpassed, At
        <4> QED
          BY <1>0, <1>1, <2>2, <3>2, <4>1, <4>2 DEF ShownOnce
      <3> QED
        BY <3>1, <3>2
    <2> QED
      BY <2>1, <2>2 DEF ShownOnce
  <1>7. RunEvents'
    BY <1>2 DEF RunEvents, EventsSound
  <1> QED
    BY <1>4, <1>5, <1>6, <1>7

\* Every step keeps what is known of the wakes.
LEMMA WakesStep ==
  ASSUME TypeOK, TypeOK', LockKept, RowsKept, RunRows, Wakes, [Next]_vars
  PROVE  Wakes'
  <1> USE DEF Wakes
  <1>s. \A s \in SupId : sup[s] \in SupRow
    BY DEF TypeOK
  <1>f. faults \in Nat /\ faults' \in Nat /\ \A e \in EventId : shown[e] \in Nat
    BY DEF TypeOK
  <1>1. CASE Around \/ Settle \/ UNCHANGED vars
    BY <1>1, AroundWakes
  <1>2. ASSUME NEW p \in Run, Operate(p) \/ Watch(p) \/ AutoResume(p) \/ Proceed(p) \/ Fail(p)
        PROVE  Wakes'
    <2> DEFINE r == run'[p]
    <2>0. Goes(p, r) /\ run[p] \in RunState /\ RowsSound(p) /\ EventsSound(p)
      BY <1>2, RunGoes DEF RunRows, RunEvents, TypeOK
    <2>b. ASSUME NEW q, Goto(p, q) PROVE run'[p] = q
      BY <2>b DEF Goto, TypeOK
    <2>c. ASSUME run'[p].at \in {"idle", "send", "mark", "stop", "end", "create", "started"} PROVE EventsSound(p)'
      BY <2>c DEF EventsSound
    <2>d. ASSUME NEW s \in SupId, sup'[s].cursor = sup[s].cursor, NEW quiet \in BOOLEAN, NEW forced \in BOOLEAN,
                 Goto(p, Sending(s, quiet, forced))
          PROVE  EventsSound(p)'
      BY <2>b, <2>d, SendingCases DEF EventsSound
    <2>e. ASSUME NEW e \in EventId, ~At(p, "advance") PROVE ~Unpassed(e)
      BY <2>0, <2>e, OthersIdle DEF Unpassed, At
    \* Steps that show nothing and leave the rows' cursors.
    <2>g. ASSUME UNCHANGED <<event, stale, shown>>, faults <= faults', At(p, "advance") => faults' = faults + 1,
                 \A s \in SupId : sup'[s].cursor = sup[s].cursor /\ sup'[s].since = sup[s].since,
                 \A s \in SupId : Current(s)' => Current(s), EventsSound(p)'
          PROVE  Wakes'
      <3>1. EventsKept' /\ CursorSkipsNothing'
        BY <2>g, CursorsKept
      <3>2. ShownOnce'
        BY <2>g, <2>0, <1>f, ShownKept
      <3>3. RunEvents'
        BY <2>g, <2>0, EventsOfOthers
      <3> QED
        BY <3>1, <3>2, <3>3
    \* Steps that leave the rows as well.
    <2>h. ASSUME UNCHANGED <<sup, event, stale, shown>>, faults <= faults',
                 At(p, "advance") => faults' = faults + 1, EventsSound(p)'
          PROVE  Wakes'
      BY <2>g, <2>h DEF Current
    <2> HIDE DEF r
    <2>1. CASE Operate(p) \/ Watch(p) \/ AutoResume(p)
      <3>0. UNCHANGED <<sup, event, stale, shown, faults>> /\ LockFree
        BY <2>1 DEF Operate, Watch, AutoResume, ForceBegin, Stop, SwitchHarness, Start,
           DeliverBegin, ApplySwitch,
           Resume, rows, history
      <3>1. ~At(p, "advance") /\ \A e \in EventId : ~Unpassed(e)
        BY <3>0 DEF LockFree, Unpassed, At
      <3>2. ASSUME NEW s \in SupId, ForceBegin(p, s) \/ DeliverBegin(p, s) PROVE EventsSound(p)'
        <4>1. \E quiet \in BOOLEAN, forced \in BOOLEAN : Goto(p, Sending(s, quiet, forced))
          BY <3>2 DEF ForceBegin, DeliverBegin
        <4> QED
          BY <3>0, <4>1, <2>d
      <3>3. ASSUME NEW s \in SupId, Stop(p, s) \/ ApplySwitch(p, s) \/ \E m \in Model : SwitchHarness(p, s, m)
            PROVE  EventsSound(p)'
        <4>1. run'[p].at = "stop"
          BY ZenonT(40), <3>3, <2>b DEF Stop, SwitchHarness, ApplySwitch, Idle
        <4> QED
          BY <4>1, <2>c
      <3>4. ASSUME NEW m \in Model, NEW n \in {0} \cup EventId, Start(p, m, n) PROVE EventsSound(p)'
        <4>1. run'[p].at = "add" /\ run'[p].cur = n /\ run'[p].since = n /\ LastEventSeq(n)
          BY <3>4, <2>b DEF Start, Idle
        <4> QED
          BY <3>0, <4>1, NewestEvent DEF EventsSound, UsedEvents, Passed
      <3>5. ASSUME NEW s \in SupId, Resume(p, s) PROVE EventsSound(p)'
        <4>1. run'[p].at = "add" /\ run'[p].cur = sup[s].cursor /\ run'[p].since = sup[s].since
          BY ZenonT(40), <3>5, <2>b DEF Resume, Idle
        <4>2. Current(s)
          BY <3>5 DEF Resume, LastStarted, Current
        <4> QED
          BY <3>0, <3>1, <4>1, <4>2, FromCurrent DEF EventsSound, UsedEvents, Passed
      <3>6. EventsSound(p)'
        BY <2>1, <3>2, <3>3, <3>4, <3>5 DEF Operate, Watch, AutoResume
      <3> QED
        BY <3>0, <3>1, <3>6, <2>h, <1>f
    <2>2. CASE Proceed(p)
      <3>1. ASSUME NEW i \in InputId, InputTaken(p, i) \/ MarkInput(p, i) PROVE Wakes'
        <4>1. run'[p].at \in {"mark", "send", "idle"}
          <5>1. CASE InputTaken(p, i)
            BY <5>1, <2>0, <2>b DEF InputTaken, RunState
          <5>2. CASE MarkInput(p, i)
            <6>1. Goto(p, Idle) \/ Goto(p, [run[p] EXCEPT !.at = "send", !.todo = run[p].todo \ {i}])
              BY <5>2 DEF MarkInput
            <6>2. ASSUME Goto(p, [run[p] EXCEPT !.at = "send", !.todo = run[p].todo \ {i}])
                  PROVE  run'[p].at = "send"
              <7>1. run'[p] = [run[p] EXCEPT !.at = "send", !.todo = run[p].todo \ {i}]
                BY <6>2, <2>b
              <7> QED
                BY <7>1, <2>0 DEF RunState
            <6>3. ASSUME Goto(p, Idle) PROVE run'[p].at = "idle"
              BY <6>3, <2>b DEF Idle
            <6> QED
              BY <6>1, <6>2, <6>3
          <5> QED
            BY <3>1, <5>1, <5>2
        <4>2. UNCHANGED <<sup, event, stale, shown, faults>> /\ ~At(p, "advance")
          BY <3>1 DEF InputTaken, MarkInput, At, rows, history
        <4> QED
          BY <4>1, <4>2, <2>c, <2>h, <1>f
      <3>2. CASE ReadWakes(p)
        <4>0. run[p].at = "wake" /\ run[p].cur \in Nat /\ run[p].cur = sup[run[p].sup].cursor
          BY <3>2, <2>0 DEF ReadWakes, At, EventsSound, RunState
        <4>1. PICK last \in WakeEvents(run[p].cur) :
                Goto(p, [run[p] EXCEPT !.at = "prompt", !.last = last,
                                       !.batch = {e \in WakeEvents(run[p].cur) : e <= last}])
          BY <3>2 DEF ReadWakes
        <4>2. /\ run'[p].at = "prompt" /\ run'[p].last = last /\ run'[p].cur = run[p].cur
              /\ run'[p].sup = run[p].sup /\ run'[p].batch = {e \in WakeEvents(run[p].cur) : e <= last}
          BY <4>1, <2>0, <2>b DEF RunState
        <4>3. UNCHANGED <<sup, event, stale, shown, faults>>
          BY <3>2 DEF ReadWakes, rows, history
        <4>4. EventsSound(p)'
          BY <4>0, <4>2, <4>3, BatchComplete DEF EventsSound, UsedEvents
        <4> QED
          BY <4>0, <4>3, <4>4, <2>h, <1>f DEF At
      <3>3. CASE WakeTaken(p)
        BY <3>3, TakenWakes
      <3>4. CASE Advance(p)
        BY <3>4, AdvanceWakes
      <3>5. CASE StopAgent(p)
        <4>1. \E to : Goto(p, [run[p] EXCEPT !.at = "end", !.to = to])
          BY <3>5 DEF StopAgent
        <4>2. run'[p].at = "end"
          BY <4>1, <2>0, <2>b DEF RunState
        <4>3. UNCHANGED <<sup, event, stale, shown, faults>> /\ ~At(p, "advance")
          BY <3>5 DEF StopAgent, At, rows, history
        <4> QED
          BY <4>2, <4>3, <2>c, <2>h, <1>f
      <3>6. ASSUME NEW n \in {0} \cup EventId, EndRow(p, n) PROVE Wakes'
        <4> DEFINE s == run[p].sup
        <4>1. /\ s \in SupId /\ Running(s) /\ run[p].at = "end" /\ run[p].to \in EndStatus /\ run[p].to # "failed"
              /\ sup' = [sup EXCEPT ![s].status = run[p].to] /\ LastEventSeq(n)
              /\ UNCHANGED <<event, stale, shown, faults>>
          BY <3>6, <2>0 DEF EndRow, At, RowsSound, RunState, history
        <4>2. /\ sup'[s].status = run[p].to /\ \A o \in SupId : o # s => sup'[o] = sup[o]
              /\ \A o \in SupId : sup'[o].cursor = sup[o].cursor /\ sup'[o].since = sup[o].since
          BY <4>1 DEF TypeOK, SupRow
        <4>3. \A o \in SupId : Current(o)' => Current(o)
          BY <4>1, <4>2, CurrentKept DEF Live, LiveStatus, Running
        <4>4. PICK x \in RunState :
                /\ Goto(p, x)
                /\ \/ x = Idle
                   \/ x.at = "add" /\ x.cur = sup[s].cursor /\ x.since = sup[s].since
                   \/ x.at = "add" /\ x.cur = n /\ x.since = n
          BY <3>6, EndRowGoes
        <4>5. EventsSound(p)'
          <5>1. CASE x = Idle
            BY <5>1, <4>4, <2>b, <2>c DEF Idle
          <5>2. CASE x.at = "add" /\ x.cur = sup[s].cursor /\ x.since = sup[s].since
            <6>1. Current(s) /\ \A e \in EventId : ~Unpassed(e)
              BY <4>1, <2>e, RunningCurrent DEF At
            <6> QED
              BY <4>1, <4>4, <5>2, <6>1, <2>b, FromCurrent DEF EventsSound, UsedEvents, Passed
          <5>3. CASE x.at = "add" /\ x.cur = n /\ x.since = n
            BY <4>1, <4>4, <5>3, <2>b, NewestEvent DEF EventsSound, UsedEvents, Passed
          <5> QED
            BY <4>4, <5>1, <5>2, <5>3
        <4> QED
          BY <4>1, <4>2, <4>3, <4>5, <2>g, <1>f DEF At
      <3>7. ASSUME NEW s \in SupId, AddSupervisor(p, s) PROVE Wakes'
        BY <3>7, AddedWakes
      <3>8. ASSUME NEW status \in {"idle", "working", "blocked"}, Create(p, status) PROVE Wakes'
        <4>1. run'[p].at = "started"
          BY <3>8, <2>0, <2>b DEF Create, RunState
        <4>2. UNCHANGED <<sup, event, stale, shown, faults>> /\ ~At(p, "advance")
          BY <3>8 DEF Create, At, rows, history
        <4> QED
          BY <4>1, <4>2, <2>c, <2>h, <1>f
      <3>9. ASSUME NEW held \in BOOLEAN, Started(p, held) PROVE Wakes'
        <4> DEFINE s == run[p].sup
        <4>1. s \in SupId /\ sup[s].status = "launching" /\ run[p].at = "started"
          BY <3>9, <2>0 DEF Started, At, RowsSound
        <4>2. /\ sup' = [sup EXCEPT ![s].status = "running", ![s].held = held]
              /\ Goto(p, Idle) \/ Goto(p, Sending(s, agent[s] # "working", FALSE))
              /\ UNCHANGED <<event, stale, shown, faults>>
          BY <3>9, <4>1 DEF Started, SupervisorRunning, history
        <4>3. /\ sup'[s].status = "running" /\ \A o \in SupId : o # s => sup'[o] = sup[o]
              /\ \A o \in SupId : sup'[o].cursor = sup[o].cursor /\ sup'[o].since = sup[o].since
          BY SMTT(40), <4>1, <4>2 DEF TypeOK, SupRow
        <4>4. \A o \in SupId : Current(o)' => Current(o)
          BY <4>1, <4>3, CurrentKept DEF Live, LiveStatus
        <4>5. EventsSound(p)'
          <5>1. CASE Goto(p, Idle)
            BY <5>1, <2>b, <2>c DEF Idle
          <5>2. CASE Goto(p, Sending(s, agent[s] # "working", FALSE))
            <6>1. (agent[s] # "working") \in BOOLEAN /\ FALSE \in BOOLEAN /\ sup'[s].cursor = sup[s].cursor
              BY <4>1, <4>3
            <6> HIDE DEF s
            <6> QED
              BY <5>2, <4>1, <6>1, <2>d
          <5> QED
            BY <4>2, <5>1, <5>2
        <4>6. ~At(p, "advance") /\ faults <= faults'
          BY <4>1, <4>2, <1>f DEF At
        <4> QED
          BY <4>2, <4>3, <4>4, <4>5, <4>6, <2>g
      <3> QED
        BY <2>2, <3>1, <3>2, <3>3, <3>4, <3>5, <3>6, <3>7, <3>8, <3>9 DEF Proceed
    <2>3. CASE Fail(p)
      <3>0. run'[p] = Idle
        BY <2>3, <2>b DEF Fail, InputUnknown, WakeUnknown, CreateRefused, CreateUnknown, GiveUp,
           Killed
      <3>1. EventsSound(p)'
        BY <3>0, <2>c DEF Idle
      <3>2. ASSUME NEW i \in InputId, InputUnknown(p, i) PROVE Wakes'
        <4>1. UNCHANGED <<sup, event, stale, shown>> /\ faults' = faults + 1
          BY <3>2 DEF InputUnknown, Fault, rows
        <4> QED
          BY <4>1, <3>1, <2>h, <1>f
      <3>3. CASE WakeUnknown(p)
        BY <3>3, TakenWakes
      <3>4. CASE CreateUnknown(p) \/ Killed(p)
        <4>1. UNCHANGED <<sup, event, stale, shown>> /\ faults' = faults + 1
          BY <3>4 DEF CreateUnknown, Killed, Fault, rows, history
        <4> QED
          BY <4>1, <3>1, <2>h, <1>f
      <3>5. CASE GiveUp(p)
        <4>1. UNCHANGED <<sup, event, stale, shown, faults>>
          BY <3>5 DEF GiveUp, rows, history
        <4>2. ~At(p, "advance")
          <5> SUFFICES ASSUME At(p, "advance") PROVE FALSE
            OBVIOUS
          <5>1. run[p].last <= sup[run[p].sup].cursor
            BY <3>5 DEF GiveUp, At
          <5>2. run[p].cur = sup[run[p].sup].cursor /\ run[p].cur < run[p].last
            BY <2>0 DEF EventsSound, At
          <5>3. run[p].cur \in Nat /\ run[p].last \in EventId \cup {0}
            BY <2>0 DEF RunState
          <5>4. run[p].last \in Nat
            <6>1. \A e \in EventId \cup {0} : e \in Nat
              BY IdAssumption
            <6> QED
              BY <5>3, <6>1
          <5> QED
            BY <5>1, <5>2, <5>3, <5>4
        <4> QED
          BY <4>1, <4>2, <3>1, <2>h, <1>f
      <3>6. CASE CreateRefused(p)
        <4> DEFINE s == run[p].sup
        <4>1. /\ s \in SupId /\ sup[s].status = "launching" /\ run[p].at = "create"
              /\ sup' = [sup EXCEPT ![s].status = "failed"]
              /\ UNCHANGED <<event, stale, shown>> /\ faults' = faults + 1
          BY <3>6, <2>0 DEF CreateRefused, At, RowsSound, Fault, history
        <4>2. /\ sup'[s].status = "failed" /\ \A o \in SupId : o # s => sup'[o] = sup[o]
              /\ \A o \in SupId : sup'[o].cursor = sup[o].cursor /\ sup'[o].since = sup[o].since
          BY <4>1 DEF TypeOK, SupRow
        <4>3. \A o \in SupId : Current(o)' => Current(o)
          BY <4>1, <4>2, CurrentKept DEF Live, LiveStatus, Running, EndStatus
        <4> QED
          BY <4>1, <4>2, <4>3, <3>1, <2>g, <1>f
      <3> QED
        BY <2>3, <3>2, <3>3, <3>4, <3>5, <3>6 DEF Fail
    <2> QED
      BY <1>2, <2>1, <2>2, <2>3
  <1> QED
    BY <1>1, <1>2 DEF Next

-----------------------------------------------------------------------------
(* The invariant of the specification *)

LEMMA InitDInv == Init => DInv
  <1> SUFFICES ASSUME Init PROVE DInv
    OBVIOUS
  <1> USE IdAssumption
  <1>1. Idle \in RunState /\ NoRow \in SupRow
    BY DEF RunState, Idle, EndStatus, SupRow, NoRow, LiveStatus
  <1>2. TypeOK
    BY <1>1 DEF Init, TypeOK, AgentStatus
  <1>3. \A p \in Run : run[p].at = "idle"
    BY DEF Init, Idle
  <1>4. LockKept
    BY <1>3 DEF LockKept
  <1>5. QueueKept /\ InputsInOrder /\ ToldOnce
    BY DEF Init, QueueKept, InputsInOrder, ToldOnce
  <1>6. ListKept
    BY <1>3 DEF ListKept, ListSound
  <1>7. \A s \in SupId : sup[s] = NoRow /\ sup[s].status = "none" /\ sup[s].prev = NoSup /\ sup[s].cursor = 0
    BY DEF Init, NoRow
  <1>8. RowsKept /\ SwitchCarried
    BY <1>7 DEF RowsKept, SwitchCarried, Live, LiveStatus
  <1>9. RunRows
    BY <1>3 DEF RunRows, RowsSound
  <1>10. EventsKept
    BY <1>7 DEF Init, EventsKept, UsedEvents
  <1>11. CursorSkipsNothing /\ ShownOnce
    BY DEF Init, CursorSkipsNothing, UsedEvents, ShownOnce
  <1>12. RunEvents
    BY <1>3 DEF RunEvents, EventsSound
  <1> QED
    BY <1>2, <1>4, <1>5, <1>6, <1>8, <1>9, <1>10, <1>11, <1>12 DEF DInv, Messages, SupRows, Wakes

LEMMA DInvStep == DInv /\ [Next]_vars => DInv'
  <1> SUFFICES ASSUME DInv, [Next]_vars PROVE DInv'
    OBVIOUS
  <1>1. TypeOK /\ LockKept /\ Messages /\ SupRows /\ Wakes /\ RowsKept /\ RunRows
    BY DEF DInv, SupRows
  <1>2. TypeOK'
    BY <1>1, TypeStep
  <1>3. LockKept'
    BY <1>1, <1>2, LockStep
  <1>4. Messages'
    BY <1>1, <1>2, MessagesStep
  <1>5. SupRows'
    BY <1>1, <1>2, SupRowsStep
  <1>6. Wakes'
    BY <1>1, <1>2, WakesStep
  <1> QED
    BY <1>2, <1>3, <1>4, <1>5, <1>6 DEF DInv

LEMMA AlwaysDInv == Spec => []DInv
  BY InitDInv, DInvStep, PTL DEF Spec

\* Every variable stays within its type: a run's record holds a row when it
\* is used as one, and cursors are event ids.
THEOREM TypeCorrect == Spec => []TypeOK
  <1>1. DInv => TypeOK
    BY DEF DInv
  <1> QED
    BY <1>1, AlwaysDInv, PTL

-----------------------------------------------------------------------------
(* What the messages and the wakes come to *)

\* However many runs, supervisors and faults there are: messages are put to
\* the supervisor in the order sent, the cursor passes no wake nobody saw,
\* and nothing is told or shown twice but for a fault.
THEOREM DeliverySafe == Spec => []DeliverySafety
  <1>1. DInv => DeliverySafety
    BY DEF DInv, Messages, Wakes, ToldOnce, ShownOnce, RepeatsNeedFaults, DeliverySafety
  <1> QED
    BY <1>1, AlwaysDInv, PTL

\* Rows go on from the row they continue, with its switch and its cursor, and
\* a run that talks to an agent talks to that of the only live row.
THEOREM RowsSafe == Spec => []RowSafety
  <1>1. ASSUME DInv PROVE OneConversation
    <2>1. TypeOK /\ RowsKept /\ RunRows
      BY <1>1 DEF DInv, SupRows
    <2>2. \A s, o \in SupId : Live(s) /\ Live(o) => s = o
      BY <2>1, OneLive
    <2>3. \A p \in Run : run[p].at \in {"send", "mark", "wake", "prompt", "advance"} => Running(run[p].sup)
      BY <2>1 DEF RunRows, RowsSound
    <2> QED
      BY <2>2, <2>3 DEF OneConversation
  <1>2. DInv => RowSafety
    BY <1>1 DEF DInv, SupRows, Wakes, RowSafety
  <1> QED
    BY <1>2, AlwaysDInv, PTL

-----------------------------------------------------------------------------
(* The queue the operator is promised *)

\* Every step of a delivery is a step of the queue or leaves it alone.
LEMMA QueueStep ==
  ASSUME DInv, [Next]_vars
  PROVE  Queue!Next \/ UNCHANGED <<input, told>>
  <1> USE IdAssumption DEF Pending
  <1>0. TypeOK /\ Messages /\ ListKept /\ (\A i \in InputId : told[i] \in Nat)
    BY DEF DInv, Messages, TypeOK
  <1>1. ASSUME NEW i \in InputId, Send(i) PROVE Queue!Accept(i)
    <2>1. NextId(i, InputId, {j \in InputId : input[j] # "none"})
      BY <1>1 DEF Send, AddSupervisorInput
    <2>2. /\ input[i] = "none" /\ \A j \in InputId : input[j] # "none" => j < i
          /\ input' = [input EXCEPT ![i] = "queued"] /\ UNCHANGED told
      BY <1>1, <2>1 DEF Send, AddSupervisorInput, NextId, history
    <2>3. input'[i] = "queued" /\ \A j \in InputId : j # i => input'[j] = input[j]
      BY <1>0, <2>2 DEF TypeOK
    <2> QED
      BY <2>2, <2>3 DEF Queue!Accept
  <1>2. ASSUME NEW p \in Run, NEW i \in InputId, InputTaken(p, i) \/ InputUnknown(p, i)
        PROVE  Queue!Present(i)
    <2>1. /\ run[p].at = "send" /\ First(p, i) /\ told' = [told EXCEPT ![i] = told[i] + 1]
          /\ UNCHANGED input
      BY <1>2 DEF InputTaken, InputUnknown, At, rows
    <2>2. input[i] = "queued" /\ \A j \in InputId : j < i => input[j] = "delivered"
      BY <1>0, <2>1, FirstIsNext
    <2>3. \A j \in InputId : input[j] # "none" /\ input[j] # "delivered" => i <= j
      BY <2>2
    <2>4. told'[i] > 0 /\ \A j \in InputId : j # i => told'[j] = told[j]
      BY <1>0, <2>1 DEF TypeOK
    <2> QED
      BY <2>1, <2>2, <2>3, <2>4 DEF Queue!Present
  <1>3. ASSUME NEW p \in Run, NEW i \in InputId, MarkInput(p, i) PROVE Queue!Record(i)
    <2>1. /\ run[p].at = "mark" /\ First(p, i) /\ input[i] = "queued" /\ UNCHANGED told
          /\ input' = [input EXCEPT ![i] = "delivered"]
      BY <1>3 DEF MarkInput, At, history
    <2>2. PICK k \in InputId : First(p, k) /\ told[k] > 0
      BY <1>0, <2>1 DEF ListKept, ListSound
    <2>3. k = i
      <3>1. i <= k /\ k <= i /\ i \in Nat /\ k \in Nat
        BY <2>1, <2>2 DEF First
      <3> QED
        BY <3>1
    <2>4. input'[i] = "delivered" /\ \A j \in InputId : j # i => input'[j] = input[j]
      BY <1>0, <2>1 DEF TypeOK
    <2> QED
      BY <2>1, <2>2, <2>3, <2>4 DEF Queue!Record
  <1>4. \/ \E i \in InputId : Send(i)
        \/ \E p \in Run, i \in InputId : InputTaken(p, i) \/ InputUnknown(p, i) \/ MarkInput(p, i)
        \/ UNCHANGED <<input, told>>
    <2>1. CASE Around \/ Settle \/ UNCHANGED vars
      BY <2>1 DEF Around, Settle, GoStale, Emit, Switch, CancelSwitch, Interrupt, LateCreate,
         AgentActs, AgentsEnd,
         SettleLaunching, SettleStray, SettleRunning, vars, rows, history
    <2>2. ASSUME NEW p \in Run, Operate(p) \/ Watch(p) \/ AutoResume(p) PROVE UNCHANGED <<input, told>>
      BY <2>2 DEF Operate, Watch, AutoResume, ForceBegin, Stop, SwitchHarness, Start, DeliverBegin,
         ApplySwitch,
         Resume, rows, history
    <2>3. ASSUME NEW p \in Run, Proceed(p), ~\E i \in InputId : InputTaken(p, i) \/ MarkInput(p, i)
          PROVE  UNCHANGED <<input, told>>
      BY <2>3 DEF Proceed, ReadWakes, WakeTaken, Advance, StopAgent, EndRow, AddSupervisor, Create,
         Started,
         rows, history
    <2>4. ASSUME NEW p \in Run, Fail(p), ~\E i \in InputId : InputUnknown(p, i) PROVE UNCHANGED <<input, told>>
      BY <2>4 DEF Fail, WakeUnknown, CreateRefused, CreateUnknown, GiveUp, Killed, rows, history
    <2> QED
      BY <2>1, <2>2, <2>3, <2>4 DEF Next
  <1> QED
    BY <1>1, <1>2, <1>3, <1>4 DEF Queue!Next

\* Deliveries, switches, resumes, kills and lost answers together do to the
\* messages only what the queue promises.
THEOREM QueueImplemented == Spec => ImplementsQueue
  <1>1. Init => Queue!Init
    BY DEF Init, Queue!Init
  <1>2. DInv /\ [Next]_vars => [Queue!Next]_<<{i \in InputId : input[i] # "none"},
                                              {i \in InputId : told[i] > 0},
                                              {i \in InputId : input[i] = "delivered"}>>
    BY QueueStep
  <1> QED
    BY <1>1, <1>2, AlwaysDInv, PTL DEF Spec, ImplementsQueue, Queue!Spec
=============================================================================
