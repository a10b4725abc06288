----------------------------- MODULE IdleWakes ------------------------------
(***************************************************************************)
(* How the watcher wakes a managed supervisor for which no event will      *)
(* come: it fires the timers that are due and records a stall wake when    *)
(* active work is watched by nothing and the supervisor rests              *)
(* (cli/watch_stall.go, state/unwatched.go, state/timer.go).               *)
(*                                                                         *)
(* Time is kept as ages and as time left, so it needs no bound; the        *)
(* watcher looks once in every unit of it while its session is open, which *)
(* its ticker of 30 seconds gives it.  The look is three steps: the        *)
(* store's, the screen's, and the record of the wake; anybody may act      *)
(* between them.                                                           *)
(***************************************************************************)
EXTENDS Integers, FiniteSetsExt

CONSTANTS Tasks, Waiter,   \* the tasks, and the one a wait may be armed for
          After, Every,    \* stall.after and stall.every of routing.json
          StallAlert,      \* idle time at which an episode alerts
          StillFor,        \* how long a screen must not change
          Horizon,         \* how near a timer's due must be to watch the work
          Period, MaxDue,  \* the repeating timer's, and the latest due
          MaxStalls,       \* stalls of an episode counted apart
          MaxActs          \* acts of agents, operators and failures explored

\* Either delay may be the longer one, and each is at least a minute, twice as
\* long as a screen must be still; from MaxStalls on the delay is the same.
ASSUME IdleAssumption ==
  /\ Waiter \in Tasks
  /\ {After, Every, StallAlert, StillFor, Horizon, Period, MaxDue, MaxStalls} \subseteq Nat \ {0}
  /\ StillFor < After /\ StillFor < Every
  /\ MaxActs \in Nat

VARIABLES
  attending,  \* the watcher's session is open
  chief,      \* the managed supervisor: none, or its status as Luvus tells it
  same,       \* it is the one the watcher's memory is of (rest.sup)
  changing,   \* a switch of its model is pending
  limit,      \* its screen shows a usage limit
  redrawn,    \* its screen changed since the watcher last noted its revision
  mail,       \* an operator's message waits for it
  underway,   \* the tasks with status active
  busy,       \* what will bring an event: a live attempt, an open decision
  armed, due, \* armed timers and the time left until each is due
  idleFor,    \* time since the last event that counts
  stalls, gap, hour,  \* stall wakes since then, time since the last one, and
                      \* whether that one was StallAlert into the episode
  resting, worked,    \* the watcher's rest.since and rest.worked, as ages
  look, looked,       \* where the watcher's tick is, and whether it was made
  quiet, sinceWake, purse, alarms, belated,  \* only read by the properties
  acts

clocks == <<idleFor, stalls, gap, hour, sinceWake, alarms, belated, quiet>>
timers == <<armed, due, purse>>
chiefVars == <<chief, same, changing, limit, redrawn, mail>>
memory == <<resting, worked>>
work == <<underway, busy>>
tick == <<attending, look, looked>>
iwVars == <<clocks, timers, chiefVars, memory, work, tick, acts>>

Slots == {"once", "every", "wait"}
Unseen == -1              \* rest.since is zero
Shorter == Min({After, Every})
Longer == Max({After, Every})
Upto(n, cap) == Min({n, cap})
NoLook == [step |-> "wait", ripe |-> FALSE, alert |-> FALSE]

\* Stall.Delay: twice as long each time, and never longer than Every.
Delay[n \in Nat] == IF n = 0 THEN After ELSE Min({2 * Delay[n - 1], Every})

IdleTypeOK ==
  /\ {attending, same, changing, limit, redrawn, mail, hour, looked} \subseteq BOOLEAN
  /\ chief \in {"none", "idle", "working", "blocked"}
  /\ underway \subseteq Tasks /\ busy \subseteq {"attempt", "decision"} /\ armed \subseteq Slots
  /\ due \in [Slots -> (1 - 2 * Period)..MaxDue]
  /\ idleFor \in 0..Max({After, StallAlert}) /\ stalls \in 0..MaxStalls /\ gap \in 0..Longer
  /\ resting \in Unseen..StillFor /\ worked \in 0..After /\ sinceWake \in 0..Shorter
  /\ look.step \in {"wait", "timers", "work", "screen"}

IdleInit ==
  /\ attending = TRUE /\ chief = "idle" /\ same = FALSE /\ changing = FALSE
  /\ limit = FALSE /\ redrawn = FALSE /\ mail = FALSE
  /\ underway = Tasks /\ busy = {} /\ armed = {} /\ due = [k \in Slots |-> 0]
  /\ idleFor = 0 /\ stalls = 0 /\ gap = 0 /\ hour = FALSE
  /\ resting = Unseen /\ worked = After /\ look = NoLook /\ looked = FALSE
  /\ quiet = 0 /\ sinceWake = Shorter /\ purse = 0 /\ alarms = 0 /\ belated = 0 /\ acts = 0

(***************************************************************************)
(* What the store says.                                                    *)
(***************************************************************************)
\* An event that counts is recorded: the episode is over (Unwatched's since).
NewEpisode ==
  /\ idleFor' = 0 /\ stalls' = 0 /\ gap' = 0 /\ hour' = FALSE /\ alarms' = 0 /\ belated' = 0
  /\ quiet' = 0 /\ UNCHANGED sinceWake

\* The tasks whose work nothing watches.  A wait covers its own task only; any
\* other timer covers all the work, once it is near enough.
Unwatched ==
  IF busy # {} \/ \E k \in armed \ {"wait"} : due[k] <= Horizon THEN {}
  ELSE underway \ {t \in {Waiter} : "wait" \in armed}

\* FireTimers, in one transaction: one that fires once is over; a repeating one
\* moves on by its period, or to a period from now when that has passed too.
BugNextDue(d) == d + Period
NextDue(d) == IF d + Period > 0 THEN d + Period ELSE Period
FireTimers ==
  LET ring == {k \in armed : due[k] <= 0} IN
  /\ armed' = armed \ (ring \ {"every"})
  /\ due' = [k \in Slots |-> CASE k \in ring /\ k = "every" -> NextDue(due[k])
                               [] k \in ring /\ k # "every" -> 0
                               [] OTHER -> due[k]]
  /\ purse' = IF "every" \in ring THEN purse - Period ELSE purse
  /\ IF ring # {} THEN NewEpisode ELSE UNCHANGED clocks

(***************************************************************************)
(* The tick of an open session: timers, then stall.                        *)
(***************************************************************************)
TickOver == look' = NoLook /\ looked' = TRUE

Timers ==
  /\ attending /\ ~looked /\ look.step = "wait"
  /\ IF chief # "none" THEN FireTimers ELSE UNCHANGED <<clocks, timers>>
  /\ look' = [NoLook EXCEPT !.step = "timers"]
  /\ UNCHANGED <<chiefVars, memory, work, attending, looked, acts>>

\* A supervisor that is gone or switching is forgotten, and another one is
\* looked at anew.
LookAtWork ==
  /\ attending /\ look.step = "timers"
  /\ UNCHANGED <<clocks, timers, chief, changing, limit, redrawn, mail, work, attending, acts>>
  /\ IF chief = "none" \/ changing
     THEN same' = FALSE /\ resting' = Unseen /\ worked' = After /\ TickOver
     ELSE /\ same' = TRUE
          /\ resting' = IF same THEN resting ELSE Unseen
          /\ worked' = IF same THEN worked ELSE After
          /\ IF Unwatched = {} THEN TickOver
             ELSE /\ look' = [step |-> "work",
                              ripe |-> IF stalls = 0 THEN idleFor >= After ELSE gap >= Delay[stalls],
                              alert |-> idleFor >= StallAlert /\ (stalls = 0 \/ ~hour)]
                  /\ UNCHANGED looked

\* The supervisor's status and its screen, and the messages that wait for it.
\* It counts as resting from the first look that finds the screen as it is.
LookAtScreen ==
  /\ attending /\ look.step = "work"
  /\ UNCHANGED <<clocks, timers, chief, same, changing, limit, mail, work, attending, acts>>
  /\ LET afresh == resting = Unseen \/ redrawn
         since == IF afresh THEN 0 ELSE resting
     IN IF chief = "idle"
        THEN /\ resting' = since /\ redrawn' = FALSE /\ UNCHANGED worked
             /\ IF ~limit /\ since >= StillFor /\ ~mail /\ look.ripe /\ worked >= After
                THEN look' = [look EXCEPT !.step = "screen"] /\ UNCHANGED looked
                ELSE TickOver
        ELSE /\ worked' = IF chief = "working" THEN 0 ELSE worked
             /\ UNCHANGED <<resting, redrawn>> /\ TickOver

\* The wake is recorded, and alerted once the episode is StallAlert old.
Stalled ==
  /\ attending /\ look.step = "screen"
  /\ stalls' = Upto(stalls + 1, MaxStalls) /\ gap' = 0 /\ hour' = (idleFor >= StallAlert)
  /\ alarms' = alarms + (IF look.alert THEN 1 ELSE 0)
  /\ belated' = IF idleFor = 0 THEN 1 ELSE belated
  /\ quiet' = 0 /\ sinceWake' = 0 /\ TickOver
  /\ UNCHANGED <<idleFor, timers, chiefVars, memory, work, attending, acts>>

(***************************************************************************)
(* Time, and everybody else.                                               *)
(***************************************************************************)
\* A stall wake is wanted: nothing else will wake the supervisor, and it rests.
Neglected ==
  /\ attending /\ chief = "idle" /\ ~changing /\ ~limit /\ ~mail /\ Unwatched # {}

Pass ==
  /\ look.step = "wait" /\ (attending => looked)
  /\ idleFor' = Upto(idleFor + 1, Max({After, StallAlert})) /\ gap' = Upto(gap + 1, Longer)
  /\ sinceWake' = Upto(sinceWake + 1, Shorter)
  /\ resting' = IF resting = Unseen THEN Unseen ELSE Upto(resting + 1, StillFor)
  /\ worked' = Upto(worked + 1, After)
  /\ due' = [k \in Slots |-> IF k \notin armed THEN 0
                             ELSE Max({due[k] - 1, IF k = "every" THEN 1 - 2 * Period ELSE 0})]
  /\ purse' = IF "every" \in armed THEN Upto(purse + 1, 2 * Period - 1) ELSE purse
  /\ quiet' = IF Neglected THEN Upto(quiet + 1, Longer + StillFor + 1) ELSE 0
  /\ looked' = FALSE
  /\ UNCHANGED <<stalls, hour, alarms, belated, armed, chiefVars, work, attending, look, acts>>

Act == acts < MaxActs /\ acts' = acts + 1

\* Commands, of the supervisor's or the operator's, that record an event.
WorkBegins(what, t) ==
  /\ Act /\ what \notin busy /\ t \in underway /\ busy' = busy \cup {what}
  /\ armed' = armed \ {k \in {"wait"} : what = "attempt" /\ t = Waiter}
  /\ due' = [k \in Slots |-> IF k \in armed' THEN due[k] ELSE 0]
  /\ NewEpisode /\ UNCHANGED <<purse, chiefVars, memory, underway, tick>>
WorkEnds(what) ==
  /\ Act /\ what \in busy /\ busy' = busy \ {what}
  /\ NewEpisode /\ UNCHANGED <<timers, chiefVars, memory, underway, tick>>
FinishTask(t) ==
  /\ Act /\ t \in underway /\ busy = {} /\ underway' = underway \ {t}
  /\ armed' = armed \ {k \in {"wait"} : t = Waiter}
  /\ due' = [k \in Slots |-> IF k \in armed' THEN due[k] ELSE 0]
  /\ NewEpisode /\ UNCHANGED <<purse, chiefVars, memory, busy, tick>>
Arm(k, d) ==
  /\ Act /\ chief # "none" /\ k \notin armed /\ d >= 1
  /\ k = "every" => d = Period
  /\ k = "wait" => Waiter \in underway
  /\ armed' = armed \cup {k} /\ due' = [due EXCEPT ![k] = d]
  /\ purse' = IF k = "every" THEN 0 ELSE purse
  /\ NewEpisode /\ UNCHANGED <<chiefVars, memory, work, tick>>
Cancel(k) ==
  /\ Act /\ k \in armed /\ armed' = armed \ {k} /\ due' = [due EXCEPT ![k] = 0]
  /\ NewEpisode /\ UNCHANGED <<purse, chiefVars, memory, work, tick>>
Remark == Act /\ NewEpisode /\ UNCHANGED <<timers, chiefVars, memory, work, tick>>

\* The supervisor is started, ends, or is switched; a message is sent to it.
ChiefBegins ==
  /\ Act /\ chief = "none" /\ chief' = "idle" /\ same' = FALSE /\ redrawn' = TRUE
  /\ NewEpisode /\ UNCHANGED <<timers, changing, limit, mail, memory, work, tick>>
ChiefEnds ==
  /\ Act /\ chief # "none" /\ chief' = "none" /\ changing' = FALSE /\ limit' = FALSE
  /\ NewEpisode /\ UNCHANGED <<timers, same, redrawn, mail, memory, work, tick>>
AskSwitch ==
  /\ Act /\ chief # "none" /\ ~changing /\ changing' = TRUE
  /\ NewEpisode /\ UNCHANGED <<timers, chief, same, limit, redrawn, mail, memory, work, tick>>
Switched ==
  /\ Act /\ changing /\ changing' = FALSE /\ chief' = "idle" /\ same' = FALSE
  /\ redrawn' = TRUE /\ limit' = FALSE
  /\ NewEpisode /\ UNCHANGED <<timers, mail, memory, work, tick>>
MessageSent ==
  /\ Act /\ chief # "none" /\ ~mail /\ mail' = TRUE
  /\ NewEpisode /\ UNCHANGED <<timers, chief, same, changing, limit, redrawn, memory, work, tick>>

\* Not recorded, or not counted: the message is taken, the agent's turns, its
\* screen, and the session's end, of which the memory is lost with the process.
Unrecorded == quiet' = 0 /\ UNCHANGED <<idleFor, stalls, gap, hour, sinceWake, alarms, belated>>
MessageTaken ==
  /\ Act /\ mail /\ chief \in {"idle", "working"} /\ mail' = FALSE
  /\ Unrecorded /\ UNCHANGED <<timers, chief, same, changing, limit, redrawn, memory, work, tick>>
Turn(s) ==
  /\ Act /\ chief # "none" /\ s # chief /\ chief' = s /\ redrawn' = TRUE
  /\ Unrecorded /\ UNCHANGED <<timers, same, changing, limit, mail, memory, work, tick>>
Redraws(b) ==
  /\ Act /\ chief = "idle" /\ redrawn' = TRUE /\ limit' = b
  /\ Unrecorded /\ UNCHANGED <<timers, chief, same, changing, mail, memory, work, tick>>
Closes(killed) ==
  /\ Act /\ attending /\ attending' = FALSE /\ look' = NoLook /\ UNCHANGED looked
  /\ IF killed THEN same' = FALSE /\ resting' = Unseen /\ worked' = After
     ELSE UNCHANGED <<same, memory>>
  /\ Unrecorded /\ UNCHANGED <<timers, chief, changing, limit, redrawn, mail, work>>
Opens ==
  /\ ~attending /\ attending' = TRUE /\ looked' = FALSE
  /\ Unrecorded /\ UNCHANGED <<timers, chiefVars, memory, work, look, acts>>

IdleNext ==
  \/ Timers \/ LookAtWork \/ LookAtScreen \/ Stalled \/ Pass
  \/ \E what \in {"attempt", "decision"} : (\E t \in Tasks : WorkBegins(what, t)) \/ WorkEnds(what)
  \/ \E t \in Tasks : FinishTask(t)
  \/ \E k \in Slots : Cancel(k) \/ \E d \in 1..MaxDue : Arm(k, d)
  \/ Remark \/ ChiefBegins \/ ChiefEnds \/ AskSwitch \/ Switched \/ MessageSent \/ MessageTaken \/ Opens
  \/ \E s \in {"idle", "working", "blocked"} : Turn(s)
  \/ \E b \in BOOLEAN : Redraws(b) \/ Closes(b)

IdleSpec == IdleInit /\ [][IdleNext]_iwVars

(***************************************************************************)
(* Properties.                                                             *)
(***************************************************************************)
\* Nobody forgets the supervisor: while its work is watched by nothing and it
\* rests, the next wake is never further away than the longer delay, whatever
\* restarts, switches and messages came before.
Woken == quiet <= Longer

\* Nobody nags it either: two stall wakes are at least the shorter delay apart,
\* also when an event, another supervisor or another watcher comes between.
WakesApart == look.step = "screen" => sinceWake >= Shorter

\* The operator is alerted once in an episode.  A wake decided before the event
\* that began the episode is counted into it and may alert for the last one.
AlertOnce == alarms <= 1 + belated

\* A repeating timer fires once for the periods that were missed together: its
\* fires are never more than the periods that passed, two at most being saved.
RingsPaid == purse >= 0

IdleSafety == IdleTypeOK /\ Woken /\ WakesApart /\ AlertOnce /\ RingsPaid
=============================================================================
