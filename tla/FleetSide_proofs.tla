-------------------------- MODULE FleetSide_proofs ---------------------------
(***************************************************************************)
(* Proofs about what goes on in a fleet beside its workers: IdleWakes,     *)
(* WatchAlerts, LaunchScreens, Housekeeping and FleetImport, for any       *)
(* delays, timers and tasks and any number of attempts, files, fleets and  *)
(* imports. Each section has the inductive invariant of one of them, what  *)
(* its actions do to what the invariant is about, and a lemma per part of  *)
(* the invariant.                                                          *)
(*                                                                         *)
(* The back-off of the wakes and the plan of an import are recursive       *)
(* functions; what they compute is proved by induction in the form of      *)
(* sets, from the well-foundedness of <.                                   *)
(***************************************************************************)
EXTENDS IdleWakes, WatchAlerts, LaunchScreens, Housekeeping, FleetImport,
        FiniteSetTheorems, SequenceTheorems, WellFoundedInduction, TLAPS

-----------------------------------------------------------------------------
(* IdleWakes: the inductive invariant *)

\* What the type invariant leaves open.
LookTyped ==
  /\ look \in [step : {"wait", "timers", "work", "screen"}, ripe : BOOLEAN, alert : BOOLEAN]
  /\ quiet \in Nat /\ purse \in Int /\ alarms \in Nat /\ belated \in {0, 1} /\ acts \in Nat

\* A look is made by an open session, and it is not made yet.
LookSound == look.step # "wait" => attending /\ ~looked

\* As long as the supervisor is neglected nobody acts, so its clocks run: it
\* is a step from the wake once it was neglected for the longer delay.
Ripening ==
  /\ quiet <= Longer
  /\ quiet > 0 =>
       /\ attending /\ chief = "idle" /\ ~changing /\ ~limit /\ ~mail
       /\ quiet <= idleFor \/ After <= idleFor
       /\ quiet <= gap
       /\ quiet <= worked \/ After <= worked
       /\ look.step = "work" => same
  /\ quiet > 1 /\ ~looked =>
       /\ same /\ ~redrawn /\ resting # Unseen
       /\ quiet - 1 <= resting \/ StillFor <= resting
  /\ quiet > 0 /\ looked /\ Unwatched # {} =>
       /\ same /\ ~redrawn /\ resting # Unseen
       /\ quiet - 1 <= resting \/ StillFor <= resting
       /\ quiet < Longer
  /\ quiet = Longer /\ look.step \in {"work", "screen"} => look.ripe

\* The last wake is at least as long ago as the clock that decides the next.
Spaced ==
  /\ stalls = 0 => idleFor <= sinceWake \/ Shorter <= sinceWake
  /\ stalls > 0 => gap <= sinceWake \/ Shorter <= sinceWake
  /\ look.step \in {"work", "screen"} /\ look.ripe => Shorter <= sinceWake
  /\ look.step = "screen" => look.ripe

\* A look that will alert is the first one of the hour, or it was overtaken by
\* the event that began a new episode.
Alerted ==
  /\ hour => StallAlert <= idleFor /\ stalls > 0
  /\ alarms <= belated + (IF hour THEN 1 ELSE 0)
  /\ look.step \in {"work", "screen"} /\ look.alert =>
       (StallAlert <= idleFor /\ ~hour) \/ (idleFor = 0 /\ belated = 0)

\* A repeating timer has saved the time it is past its due, up to a period.
Paid ==
  /\ purse >= 0
  /\ "every" \in armed =>
       /\ due["every"] <= Period /\ Period <= MaxDue
       /\ Period - due["every"] <= purse \/ 2 * Period - 1 <= purse

WInv == IdleTypeOK /\ LookTyped /\ LookSound /\ Ripening /\ Spaced /\ Alerted /\ Paid

-----------------------------------------------------------------------------
(* IdleWakes: the operators of the model *)

LEMMA MinOfTwo ==
  ASSUME NEW a \in Int, NEW b \in Int
  PROVE  Min({a, b}) = IF a <= b THEN a ELSE b
  <1> DEFINE m == Min({a, b})
  <1>1. \E x \in {a, b} : \A y \in {a, b} : x <= y
    OBVIOUS
  <1>2. m \in {a, b} /\ \A y \in {a, b} : m <= y
    BY <1>1 DEF Min
  <1> HIDE DEF m
  <1>3. m = IF a <= b THEN a ELSE b
    BY <1>2
  <1> QED
    BY <1>3 DEF m

LEMMA MaxOfTwo ==
  ASSUME NEW a \in Int, NEW b \in Int
  PROVE  Max({a, b}) = IF a <= b THEN b ELSE a
  <1> DEFINE m == Max({a, b})
  <1>1. \E x \in {a, b} : \A y \in {a, b} : x >= y
    OBVIOUS
  <1>2. m \in {a, b} /\ \A y \in {a, b} : m >= y
    BY <1>1 DEF Max
  <1> HIDE DEF m
  <1>3. m = IF a <= b THEN b ELSE a
    BY <1>2
  <1> QED
    BY <1>3 DEF m

LEMMA Constants ==
  /\ {After, Every, StallAlert, StillFor, Horizon, Period, MaxDue, MaxStalls, Shorter, Longer,
      Max({After, StallAlert})} \subseteq Nat \ {0}
  /\ StillFor < Shorter /\ StillFor < After /\ StillFor < Longer
  /\ Shorter <= After /\ Shorter <= Every /\ After <= Longer /\ Every <= Longer /\ Shorter <= Longer
  /\ After <= Max({After, StallAlert}) /\ StallAlert <= Max({After, StallAlert})
  <1>1. /\ {After, Every, StallAlert, StillFor, Horizon, Period, MaxDue, MaxStalls} \subseteq Nat \ {0}
        /\ StillFor < After /\ StillFor < Every
    BY IdleAssumption
  <1>2. Shorter = (IF After <= Every THEN After ELSE Every) /\ Longer = (IF After <= Every THEN Every ELSE After)
    BY <1>1, MinOfTwo, MaxOfTwo DEF Shorter, Longer
  <1>3. Max({After, StallAlert}) = IF After <= StallAlert THEN StallAlert ELSE After
    BY <1>1, MaxOfTwo
  <1> QED
    BY <1>1, <1>2, <1>3

LEMMA UptoIs ==
  ASSUME NEW n \in Int, NEW cap \in Int
  PROVE  Upto(n, cap) = IF n <= cap THEN n ELSE cap
  BY MinOfTwo DEF Upto

\* Induction over the naturals: were a number outside S, so were a smallest one.
LEMMA SetInduction ==
  ASSUME NEW S, 0 \in S, \A n \in Nat : n \in S => n + 1 \in S
  PROVE  Nat \subseteq S
  <1> DEFINE T == Nat \ S
         R == OpToRel(<, Nat)
  <1> SUFFICES ASSUME T # {} PROVE FALSE
    OBVIOUS
  <1>1. \A x, y \in Nat : <<y, x>> \in R <=> y < x
    BY DEF OpToRel
  <1>2. IsWellFoundedOn(R, Nat)
    BY NatLessThanWellFounded
  <1> HIDE DEF R
  <1>3. PICK x \in T : \A y \in T : ~(<<y, x>> \in R)
    BY <1>2, WFMin, T \subseteq Nat
  <1>4. x # 0 /\ x \in Nat /\ x - 1 \in Nat /\ x - 1 < x
    BY <1>3
  <1>5. x - 1 \in S
    BY <1>1, <1>3, <1>4
  <1>6. (x - 1) + 1 = x
    BY <1>4
  <1> QED
    BY <1>3, <1>4, <1>5, <1>6

\* The first n delays.
Delays(n) ==
  {d \in [0..n -> Nat] : d[0] = After /\ \A i \in 1..n : d[i] = Min({2 * d[i - 1], Every})}

LEMMA DelaysExist == \A n \in Nat : Delays(n) # {}
  <1> DEFINE S == {n \in Nat : Delays(n) # {}}
  <1>0. After \in Nat /\ Every \in Nat
    BY Constants
  <1>1. 0 \in S
    <2> DEFINE d == [i \in 0..0 |-> After]
    <2>1. d \in Delays(0)
      BY <1>0 DEF Delays
    <2> QED
      BY <2>1
  <1>2. ASSUME NEW n \in Nat, n \in S PROVE n + 1 \in S
    <2>1. PICK d \in [0..n -> Nat] : d[0] = After /\ \A i \in 1..n : d[i] = Min({2 * d[i - 1], Every})
      BY <1>2 DEF Delays
    <2> DEFINE x == Min({2 * d[n], Every})
           c == [i \in 0..(n + 1) |-> IF i = n + 1 THEN x ELSE d[i]]
    <2>2. d[n] \in Nat /\ 2 * d[n] \in Int
      BY <2>1
    <2>3. x \in Nat
      BY <1>0, <2>2, MinOfTwo
    <2> HIDE DEF x
    <2>4. c \in [0..(n + 1) -> Nat] /\ c[0] = After /\ c[n + 1] = x /\ \A i \in 0..n : c[i] = d[i]
      BY <2>1, <2>3
    <2>5. ASSUME NEW i \in 1..(n + 1) PROVE c[i] = Min({2 * c[i - 1], Every})
      <3>1. CASE i = n + 1
        <4>1. c[i - 1] = d[n]
          BY <2>4, <3>1
        <4> QED
          BY <2>4, <3>1, <4>1 DEF x
      <3>2. CASE i # n + 1
        <4>1. i \in 1..n /\ i - 1 \in 0..n /\ i \in 0..n
          BY <3>2
        <4>2. c[i] = d[i] /\ c[i - 1] = d[i - 1]
          BY <2>4, <4>1
        <4> QED
          BY <2>1, <4>1, <4>2
      <3> QED
        BY <3>1, <3>2
    <2> HIDE DEF c
    <2>6. c \in Delays(n + 1)
      BY <2>4, <2>5 DEF Delays
    <2> QED
      BY <2>6
  <1> HIDE DEF S
  <1>3. Nat \subseteq S
    BY <1>1, <1>2, SetInduction
  <1> QED
    BY <1>3 DEF S

\* Two such lists agree as far as both go.
LEMMA DelaysAgree ==
  ASSUME NEW m \in Nat, NEW n \in Nat, NEW c \in Delays(m), NEW d \in Delays(n)
  PROVE  \A i \in 0..m : i <= n => c[i] = d[i]
  <1> DEFINE S == {i \in Nat : i <= m /\ i <= n => c[i] = d[i]}
  <1>1. 0 \in S
    BY DEF Delays
  <1>2. ASSUME NEW i \in Nat, i \in S PROVE i + 1 \in S
    <2> SUFFICES ASSUME i + 1 <= m, i + 1 <= n PROVE c[i + 1] = d[i + 1]
      OBVIOUS
    <2>1. i + 1 \in 1..m /\ i + 1 \in 1..n /\ (i + 1) - 1 = i
      OBVIOUS
    <2>2. c[i + 1] = Min({2 * c[i], Every}) /\ d[i + 1] = Min({2 * d[i], Every})
      BY <2>1 DEF Delays
    <2>3. c[i] = d[i]
      BY <1>2, <2>1
    <2> QED
      BY <2>2, <2>3
  <1> HIDE DEF S
  <1>3. Nat \subseteq S
    BY <1>1, <1>2, SetInduction
  <1> QED
    BY <1>3 DEF S

\* The recursive definition defines a function.
LEMMA DelayIs ==
  /\ Delay \in [Nat -> Nat]
  /\ \A n \in Nat : Delay[n] = IF n = 0 THEN After ELSE Min({2 * Delay[n - 1], Every})
  <1> DEFINE list[n \in Nat] == CHOOSE d : d \in Delays(n)
         f == [n \in Nat |-> list[n][n]]
  <1>1. ASSUME NEW n \in Nat PROVE list[n] \in Delays(n)
    BY DelaysExist
  <1> HIDE DEF list
  <1>2. ASSUME NEW n \in Nat PROVE f[n] \in Nat /\ f[n] = IF n = 0 THEN After ELSE Min({2 * f[n - 1], Every})
    <2>1. list[n] \in Delays(n) /\ n \in 0..n
      BY <1>1
    <2>2. f[n] = list[n][n] /\ f[n] \in Nat
      BY <2>1 DEF Delays
    <2>3. CASE n = 0
      BY <2>1, <2>2, <2>3 DEF Delays
    <2>4. CASE n # 0
      <3>1. n - 1 \in Nat /\ n - 1 \in 0..(n - 1) /\ n - 1 <= n /\ n \in 1..n
        BY <2>4
      <3>2. list[n - 1] \in Delays(n - 1)
        BY <1>1, <3>1
      <3>3. list[n - 1][n - 1] = list[n][n - 1]
        BY <2>1, <3>1, <3>2, DelaysAgree
      <3>4. list[n][n] = Min({2 * list[n][n - 1], Every})
        BY <2>1, <3>1 DEF Delays
      <3>5. f[n - 1] = list[n - 1][n - 1]
        BY <3>1
      <3> QED
        BY <2>2, <2>4, <3>3, <3>4, <3>5
    <2> QED
      BY <2>3, <2>4
  <1> HIDE DEF f
  <1>3. f = [n \in Nat |-> f[n]]
    BY DEF f
  <1>4. f = [n \in Nat |-> IF n = 0 THEN After ELSE Min({2 * f[n - 1], Every})]
    BY <1>2, <1>3
  <1>5. Delay = [n \in Nat |-> IF n = 0 THEN After ELSE Min({2 * Delay[n - 1], Every})]
    BY <1>4 DEF Delay
  <1> DEFINE S == {n \in Nat : Delay[n] \in Nat}
  <1>6. \A n \in Nat : Delay[n] = IF n = 0 THEN After ELSE Min({2 * Delay[n - 1], Every})
    BY <1>5
  <1>7. 0 \in S
    BY <1>6, Constants
  <1>8. ASSUME NEW n \in Nat, n \in S PROVE n + 1 \in S
    <2>1. Delay[n + 1] = Min({2 * Delay[n], Every})
      BY <1>6
    <2>2. 2 * Delay[n] \in Int /\ Every \in Int /\ 2 * Delay[n] \in Nat /\ Every \in Nat
      BY <1>8, Constants
    <2> QED
      BY <2>1, <2>2, MinOfTwo
  <1> HIDE DEF S
  <1>9. Nat \subseteq S
    BY <1>7, <1>8, SetInduction
  <1>10. \A n \in Nat : Delay[n] \in Nat
    BY <1>9 DEF S
  <1> QED
    BY <1>5, <1>6, <1>10

\* However often it stalls, the next wake is between the two delays away.
LEMMA DelayBounds == \A n \in Nat : Delay[n] \in Nat /\ Shorter <= Delay[n] /\ Delay[n] <= Longer
  <1> DEFINE S == {n \in Nat : Shorter <= Delay[n] /\ Delay[n] <= Longer}
  <1>1. 0 \in S
    BY DelayIs, Constants
  <1>2. ASSUME NEW n \in Nat, n \in S PROVE n + 1 \in S
    <2>1. Delay[n + 1] = Min({2 * Delay[n], Every}) /\ Delay[n] \in Nat
      BY DelayIs
    <2>4. 2 * Delay[n] \in Int /\ Every \in Int
      BY <2>1, Constants
    <2>2. Delay[n + 1] = IF 2 * Delay[n] <= Every THEN 2 * Delay[n] ELSE Every
      <3>1. Min({2 * Delay[n], Every}) = IF 2 * Delay[n] <= Every THEN 2 * Delay[n] ELSE Every
        BY <2>4, MinOfTwo
      <3> QED
        BY <2>1, <3>1
    <2>3. Shorter <= Delay[n] /\ Delay[n] <= 2 * Delay[n]
      BY <1>2, <2>1
    <2> QED
      BY <2>1, <2>2, <2>3, Constants
  <1> HIDE DEF S
  <1>3. Nat \subseteq S
    BY <1>1, <1>2, SetInduction
  <1> QED
    BY <1>3, DelayIs DEF S

-----------------------------------------------------------------------------
(* IdleWakes: the acts of everybody else *)

\* Everything but the watcher's look and the passing of time.
ActStep ==
  \/ \E what \in {"attempt", "decision"} : (\E t \in Tasks : WorkBegins(what, t)) \/ WorkEnds(what)
  \/ \E t \in Tasks : FinishTask(t)
  \/ \E k \in Slots : Cancel(k) \/ \E d \in 1..MaxDue : Arm(k, d)
  \/ Remark \/ ChiefBegins \/ ChiefEnds \/ AskSwitch \/ Switched \/ MessageSent \/ MessageTaken \/ Opens
  \/ \E s \in {"idle", "working", "blocked"} : Turn(s)
  \/ \E b \in BOOLEAN : Redraws(b) \/ Closes(b)

\* Whatever an act does, the neglect is over, the last wake stays where it was,
\* and the clocks of the episode start again or stay.
LEMMA ActClocks ==
  ASSUME ActStep
  PROVE  /\ quiet' = 0 /\ sinceWake' = sinceWake
         /\ \/ idleFor' = 0 /\ stalls' = 0 /\ gap' = 0 /\ hour' = FALSE /\ alarms' = 0 /\ belated' = 0
            \/ UNCHANGED <<idleFor, stalls, gap, hour, alarms, belated>>
         /\ \/ look' = NoLook
            \/ look' = look /\ looked' = looked /\ attending' = attending
            \/ look' = look /\ ~attending
  BY DEF ActStep, WorkBegins, WorkEnds, FinishTask, Cancel, Arm, Remark, ChiefBegins, ChiefEnds, AskSwitch,
     Switched, MessageSent, MessageTaken, Opens, Turn, Redraws, Closes, NewEpisode, Unrecorded, tick

-----------------------------------------------------------------------------
(* IdleWakes: types *)

\* The records of a look.
Looks == [step : {"wait", "timers", "work", "screen"}, ripe : BOOLEAN, alert : BOOLEAN]

LEMMA LookTypes ==
  /\ NoLook \in Looks /\ [NoLook EXCEPT !.step = "timers"] \in Looks
  /\ \A ripe, alert \in BOOLEAN : [step |-> "work", ripe |-> ripe, alert |-> alert] \in Looks
  /\ \A l \in Looks : [l EXCEPT !.step = "screen"] \in Looks
  BY DEF NoLook, Looks

LEMMA ActTypes ==
  ASSUME IdleTypeOK, LookTyped, Paid, ActStep
  PROVE  IdleTypeOK' /\ LookTyped'
  <1> USE Constants DEF IdleTypeOK, Slots
  <1> DEFINE cap == Max({After, StallAlert})
  <1>0. cap \in Nat /\ Period \in Nat /\ MaxDue \in Nat /\ 0 \in (1 - 2 * Period)..MaxDue
    OBVIOUS
  <1> HIDE DEF cap
  <1>a. hour \in BOOLEAN
    OBVIOUS
  <1>b. /\ sinceWake \in 0..Shorter /\ idleFor \in 0..cap /\ stalls \in 0..MaxStalls /\ gap \in 0..Longer
        /\ alarms \in Nat /\ belated \in {0, 1}
    BY DEF LookTyped, cap
  <1>c. 0 \in 0..MaxStalls /\ 0 \in 0..Longer /\ 0 \in 0..cap
    BY <1>0
  <1>1. hour' \in BOOLEAN
    BY ActClocks, <1>a
  <1>9. /\ quiet' \in Nat /\ sinceWake' \in 0..Shorter /\ idleFor' \in 0..cap
        /\ stalls' \in 0..MaxStalls /\ gap' \in 0..Longer /\ alarms' \in Nat /\ belated' \in {0, 1}
    <2>1. quiet' \in Nat /\ sinceWake' \in 0..Shorter
      BY ActClocks, <1>b
    <2>2. CASE idleFor' = 0 /\ stalls' = 0 /\ gap' = 0 /\ alarms' = 0 /\ belated' = 0
      BY <2>1, <2>2, <1>c
    <2>3. CASE UNCHANGED <<idleFor, stalls, gap, alarms, belated>>
      BY <2>1, <2>3, <1>b
    <2> QED
      BY <2>2, <2>3, ActClocks
  <1>2. look' \in Looks
    BY ActClocks, LookTypes DEF LookTyped, Looks
  <1>3. look'.step \in {"wait", "timers", "work", "screen"}
    BY <1>2 DEF Looks
  <1>4. purse' \in Int /\ acts' \in Nat
    BY DEF LookTyped, ActStep, WorkBegins, WorkEnds, FinishTask, Cancel, Arm, Remark, ChiefBegins, ChiefEnds,
       AskSwitch, Switched, MessageSent, MessageTaken, Opens, Turn, Redraws, Closes, Act, timers
  <1>5. /\ {attending', same', changing', limit', redrawn', mail', looked'} \subseteq BOOLEAN
        /\ chief' \in {"none", "idle", "working", "blocked"}
    BY DEF ActStep, WorkBegins, WorkEnds, FinishTask, Cancel, Arm, Remark, ChiefBegins, ChiefEnds, AskSwitch,
       Switched, MessageSent, MessageTaken, Opens, Turn, Redraws, Closes, chiefVars, tick
  <1>6. underway' \subseteq Tasks /\ busy' \subseteq {"attempt", "decision"} /\ armed' \subseteq Slots
    BY DEF ActStep, WorkBegins, WorkEnds, FinishTask, Cancel, Arm, Remark, ChiefBegins, ChiefEnds, AskSwitch,
       Switched, MessageSent, MessageTaken, Opens, Turn, Redraws, Closes, timers, work
  <1>7. due' \in [Slots -> (1 - 2 * Period)..MaxDue]
    BY <1>0 DEF ActStep, WorkBegins, WorkEnds, FinishTask, Cancel, Arm, Remark, ChiefBegins, ChiefEnds, AskSwitch,
       Switched, MessageSent, MessageTaken, Opens, Turn, Redraws, Closes, timers
  <1>8. resting' \in Unseen..StillFor /\ worked' \in 0..After
    BY DEF ActStep, WorkBegins, WorkEnds, FinishTask, Cancel, Arm, Remark, ChiefBegins, ChiefEnds, AskSwitch,
       Switched, MessageSent, MessageTaken, Opens, Turn, Redraws, Closes, memory, Unseen
  <1> QED
    BY <1>1, <1>2, <1>3, <1>4, <1>5, <1>6, <1>7, <1>8, <1>9 DEF LookTyped, Looks, cap

\* The period of a repeating timer, and the missed ones, are within its range.
LEMMA FireTypes ==
  ASSUME IdleTypeOK, LookTyped, Paid, FireTimers
  PROVE  /\ armed' \subseteq armed /\ due' \in [Slots -> (1 - 2 * Period)..MaxDue] /\ purse' \in Int
         /\ \A k \in Slots : k # "every" => due'[k] \in {0, due[k]}
         /\ \/ NewEpisode
            \/ UNCHANGED clocks /\ UNCHANGED timers
  <1> DEFINE ring == {k \in armed : due[k] <= 0}
  <1>0. /\ Period \in Nat \ {0} /\ MaxDue \in Nat \ {0} /\ 0 \in (1 - 2 * Period)..MaxDue
        /\ due \in [Slots -> (1 - 2 * Period)..MaxDue] /\ purse \in Int /\ armed \subseteq Slots
    BY Constants DEF IdleTypeOK, LookTyped
  <1>1. /\ armed' = armed \ (ring \ {"every"})
        /\ due' = [k \in Slots |-> CASE k \in ring /\ k = "every" -> NextDue(due[k])
                                     [] k \in ring /\ k # "every" -> 0
                                     [] OTHER -> due[k]]
        /\ purse' = (IF "every" \in ring THEN purse - Period ELSE purse)
        /\ IF ring # {} THEN NewEpisode ELSE UNCHANGED clocks
    BY DEF FireTimers
  <1>2. ASSUME "every" \in ring PROVE NextDue(due["every"]) \in (1 - 2 * Period)..MaxDue
    <2>1. due["every"] \in (1 - 2 * Period)..MaxDue /\ due["every"] <= 0 /\ Period <= MaxDue
      BY <1>0, <1>2 DEF Paid, Slots
    <2> QED
      BY <1>0, <2>1 DEF NextDue
  <1>3. \A k \in Slots : k # "every" => due'[k] = IF k \in ring THEN 0 ELSE due[k]
    BY <1>1
  <1>4. due'["every"] = IF "every" \in ring THEN NextDue(due["every"]) ELSE due["every"]
    BY <1>1 DEF Slots
  <1>5. \A k \in Slots : due'[k] \in (1 - 2 * Period)..MaxDue
    BY <1>0, <1>2, <1>3, <1>4 DEF Slots
  <1>6. due' = [k \in Slots |-> due'[k]]
    BY <1>1
  <1>7. ASSUME ring = {} PROVE due' = due /\ armed' = armed /\ purse' = purse
    BY <1>0, <1>1, <1>7
  <1> HIDE DEF ring
  <1>8. due' \in [Slots -> (1 - 2 * Period)..MaxDue]
    BY <1>5, <1>6
  <1> QED
    BY <1>0, <1>1, <1>3, <1>7, <1>8 DEF timers

LEMMA TypeStep ==
  ASSUME IdleTypeOK, LookTyped, Paid, [IdleNext]_iwVars
  PROVE  IdleTypeOK' /\ LookTyped'
  <1> USE Constants
  <1> DEFINE cap == Max({After, StallAlert})
  <1>0. cap \in Nat \ {0}
    OBVIOUS
  <1>a. /\ Period \in Nat /\ MaxDue \in Nat /\ 0 \in (1 - 2 * Period)..MaxDue /\ After \in Nat /\ StillFor \in Nat
        /\ Longer \in Nat /\ Shorter \in Nat \ {0} /\ MaxStalls \in Nat \ {0}
    OBVIOUS
  <1>b. /\ hour \in BOOLEAN /\ look \in Looks /\ same \in BOOLEAN /\ looked \in BOOLEAN /\ redrawn \in BOOLEAN
        /\ stalls \in 0..MaxStalls
    BY DEF IdleTypeOK, LookTyped, Looks
  <1> HIDE DEF cap
  <1>1. CASE Timers
    <2>1. NewEpisode \/ UNCHANGED clocks
      BY <1>1, FireTypes DEF Timers
    <2>2. armed' \subseteq Slots /\ due' \in [Slots -> (1 - 2 * Period)..MaxDue] /\ purse' \in Int
      BY <1>1, FireTypes DEF Timers, timers, IdleTypeOK, LookTyped
    <2>3. look' = [NoLook EXCEPT !.step = "timers"] /\ UNCHANGED <<chiefVars, memory, work, attending, looked, acts>>
      BY <1>1 DEF Timers
    <2>4. /\ idleFor' \in 0..cap /\ stalls' \in 0..MaxStalls /\ gap' \in 0..Longer /\ sinceWake' \in 0..Shorter
          /\ quiet' \in Nat /\ alarms' \in Nat /\ belated' \in {0, 1}
      BY <2>1, <1>0, <1>a DEF NewEpisode, clocks, IdleTypeOK, LookTyped, cap
    <2>5. hour' \in BOOLEAN
      BY <2>1, <1>b DEF NewEpisode, clocks
    <2>6. look' \in Looks
      BY <2>3, LookTypes
    <2> QED
      BY <2>2, <2>3, <2>4, <2>5, <2>6 DEF Looks, IdleTypeOK, LookTyped, chiefVars, memory, work, NoLook, cap
  <1>2. CASE LookAtWork
    <2> DEFINE ripe == IF stalls = 0 THEN idleFor >= After ELSE gap >= Delay[stalls]
               alert == idleFor >= StallAlert /\ (stalls = 0 \/ ~hour)
    <2>0. ripe \in BOOLEAN /\ alert \in BOOLEAN
      <3>1. CASE stalls = 0
        BY <3>1
      <3>2. CASE stalls # 0
        BY <3>2
      <3> QED
        BY <3>1, <3>2
    <2>a. look' = NoLook \/ look' = [step |-> "work", ripe |-> ripe, alert |-> alert]
      BY <1>2 DEF LookAtWork, TickOver
    <2> HIDE DEF ripe, alert
    <2>1. look' \in Looks
      BY <2>0, <2>a, LookTypes
    <2>2. same' \in BOOLEAN /\ looked' \in BOOLEAN
      BY <1>2, <1>b DEF LookAtWork, TickOver
    <2>5. resting' \in {resting, Unseen} /\ worked' \in {worked, After}
      BY <1>2 DEF LookAtWork
    <2>3. resting' \in Unseen..StillFor /\ worked' \in 0..After
      BY <2>5, <1>a DEF IdleTypeOK, Unseen
    <2>4. UNCHANGED <<clocks, timers, chief, changing, limit, redrawn, mail, work, attending, acts>>
      BY <1>2 DEF LookAtWork
    <2> QED
      BY <2>1, <2>2, <2>3, <2>4 DEF IdleTypeOK, LookTyped, Looks, clocks, timers, work
  <1>3. CASE LookAtScreen
    <2>a. look' = NoLook \/ look' = [look EXCEPT !.step = "screen"]
      BY <1>3 DEF LookAtScreen, TickOver
    <2>1. look' \in Looks
      BY <2>a, <1>b, LookTypes
    <2>2. redrawn' \in BOOLEAN /\ looked' \in BOOLEAN
      BY <1>3, <1>b DEF LookAtScreen, TickOver
    <2>5. resting' \in {resting, 0} /\ worked' \in {worked, 0}
      BY <1>3 DEF LookAtScreen
    <2>3. resting' \in Unseen..StillFor /\ worked' \in 0..After
      BY <2>5, <1>a DEF IdleTypeOK, Unseen
    <2>4. UNCHANGED <<clocks, timers, chief, same, changing, limit, mail, work, attending, acts>>
      BY <1>3 DEF LookAtScreen
    <2> QED
      BY <2>1, <2>2, <2>3, <2>4 DEF IdleTypeOK, LookTyped, Looks, clocks, timers, work
  <1>4. CASE Stalled
    <2>1. stalls' \in 0..MaxStalls
      <3>1. stalls + 1 \in Int /\ MaxStalls \in Int /\ stalls' = Upto(stalls + 1, MaxStalls)
        BY <1>4, <1>a, <1>b DEF Stalled
      <3> QED
        BY <3>1, <1>a, <1>b, UptoIs
    <2>2. gap' \in 0..Longer /\ quiet' \in Nat /\ sinceWake' \in 0..Shorter /\ look' = NoLook /\ looked' = TRUE
      BY <1>4, <1>a DEF Stalled, TickOver
    <2>3. alarms' \in Nat /\ belated' \in {0, 1} /\ hour' \in BOOLEAN
      BY <1>4 DEF Stalled, LookTyped
    <2>4. UNCHANGED <<idleFor, timers, chiefVars, memory, work, attending, acts>>
      BY <1>4 DEF Stalled
    <2> QED
      BY <2>1, <2>2, <2>3, <2>4 DEF IdleTypeOK, LookTyped, timers, chiefVars, memory, work, NoLook
  <1>5. CASE Pass
    <2>1. idleFor' \in 0..cap /\ gap' \in 0..Longer /\ sinceWake' \in 0..Shorter /\ worked' \in 0..After
      BY <1>5, <1>0, <1>a, UptoIs DEF Pass, IdleTypeOK, cap
    <2>2. resting' \in Unseen..StillFor
      BY <1>5, <1>a, UptoIs DEF Pass, IdleTypeOK, Unseen
    <2>3. quiet' \in Nat /\ purse' \in Int
      BY <1>5, <1>a, UptoIs DEF Pass, LookTyped
    <2>4. due' \in [Slots -> (1 - 2 * Period)..MaxDue]
      <3>1. ASSUME NEW k \in Slots PROVE due'[k] \in (1 - 2 * Period)..MaxDue
        <4>1. due[k] \in (1 - 2 * Period)..MaxDue
          BY DEF IdleTypeOK
        <4> DEFINE floor == IF k = "every" THEN 1 - 2 * Period ELSE 0
        <4>2. due'[k] = IF k \notin armed THEN 0 ELSE Max({due[k] - 1, floor})
          BY <1>5 DEF Pass
        <4>3. floor \in Int /\ floor <= 0 /\ 1 - 2 * Period <= floor /\ due[k] - 1 \in Int
          BY <1>a, <4>1
        <4> HIDE DEF floor
        <4>4. Max({due[k] - 1, floor}) = IF due[k] - 1 <= floor THEN floor ELSE due[k] - 1
          BY <4>3, MaxOfTwo
        <4> QED
          BY <1>a, <4>1, <4>2, <4>3, <4>4
      <3>2. due' = [k \in Slots |-> due'[k]]
        BY <1>5 DEF Pass
      <3> QED
        BY <3>1, <3>2
    <2>5. UNCHANGED <<stalls, hour, alarms, belated, armed, chiefVars, work, attending, look, acts>> /\ looked' = FALSE
      BY <1>5 DEF Pass
    <2> QED
      BY <2>1, <2>2, <2>3, <2>4, <2>5 DEF IdleTypeOK, LookTyped, chiefVars, work, cap
  <1>6. CASE ActStep
    BY <1>6, ActTypes
  <1>7. CASE UNCHANGED iwVars
    BY <1>7 DEF iwVars, clocks, timers, chiefVars, memory, work, tick, IdleTypeOK, LookTyped
  <1> QED
    BY <1>1, <1>2, <1>3, <1>4, <1>5, <1>6, <1>7 DEF IdleNext, ActStep

-----------------------------------------------------------------------------
(* IdleWakes: the look *)

LEMMA LookedStep ==
  ASSUME LookTyped, LookSound, [IdleNext]_iwVars
  PROVE  LookSound'
  <1>1. CASE Timers
    BY <1>1 DEF Timers, LookSound
  <1>2. CASE LookAtWork
    BY <1>2 DEF LookAtWork, TickOver, NoLook, LookSound
  <1>3. CASE LookAtScreen
    BY <1>3 DEF LookAtScreen, TickOver, NoLook, LookSound
  <1>4. CASE Stalled
    BY <1>4 DEF Stalled, TickOver, NoLook, LookSound
  <1>5. CASE Pass
    BY <1>5 DEF Pass, LookSound
  <1>6. CASE ActStep
    BY <1>6, ActClocks DEF NoLook, LookSound
  <1>7. CASE UNCHANGED iwVars
    BY <1>7 DEF iwVars, tick, LookSound
  <1> QED
    BY <1>1, <1>2, <1>3, <1>4, <1>5, <1>6, <1>7 DEF IdleNext, ActStep

-----------------------------------------------------------------------------
(* Wakes are apart *)

LEMMA SpacedStep ==
  ASSUME IdleTypeOK, LookTyped, LookSound, Spaced, [IdleNext]_iwVars
  PROVE  Spaced'
  <1> USE Constants
  <1>0. /\ idleFor \in Nat /\ stalls \in Nat /\ gap \in Nat /\ sinceWake \in Nat /\ sinceWake <= Shorter
        /\ Shorter \in Nat \ {0} /\ After \in Nat /\ Longer \in Nat /\ Max({After, StallAlert}) \in Nat
        /\ MaxStalls \in Nat \ {0}
    BY DEF IdleTypeOK
  <1>1. CASE Timers
    <2>1. /\ idleFor' = 0 /\ stalls' = 0 /\ gap' = 0 /\ sinceWake' = sinceWake
          \/ UNCHANGED <<idleFor, stalls, gap, sinceWake>>
      BY <1>1 DEF Timers, FireTimers, NewEpisode, clocks
    <2>2. look'.step = "timers"
      BY <1>1 DEF Timers, NoLook
    <2> QED
      BY <1>0, <2>1, <2>2 DEF Spaced
  <1>2. CASE LookAtWork
    <2>1. UNCHANGED <<idleFor, stalls, gap, sinceWake>>
      BY <1>2 DEF LookAtWork, clocks
    <2> DEFINE ripe == IF stalls = 0 THEN idleFor >= After ELSE gap >= Delay[stalls]
    <2>2. look' = NoLook \/ (look'.step = "work" /\ look'.ripe = ripe)
      BY <1>2 DEF LookAtWork, TickOver
    <2>3. Delay[stalls] \in Nat /\ Shorter <= Delay[stalls]
      BY <1>0, DelayBounds
    <2>4. stalls = 0 /\ After <= idleFor => Shorter <= sinceWake
      BY <1>0 DEF Spaced
    <2>5. stalls # 0 /\ Delay[stalls] <= gap => Shorter <= sinceWake
      BY <1>0, <2>3 DEF Spaced
    <2>7. ripe => Shorter <= sinceWake
      BY <1>0, <2>3, <2>4, <2>5
    <2> HIDE DEF ripe
    <2>6. look'.step \in {"work", "screen"} /\ look'.ripe => Shorter <= sinceWake
      <3> SUFFICES ASSUME look'.step \in {"work", "screen"}, look'.ripe PROVE ripe
        BY <2>7
      <3>1. look' # NoLook
        BY DEF NoLook
      <3> QED
        BY <2>2, <3>1, Zenon
    <2> QED
      BY <2>1, <2>2, <2>6 DEF Spaced, NoLook
  <1>3. CASE LookAtScreen
    <2>1. UNCHANGED <<idleFor, stalls, gap, sinceWake>> /\ look.step = "work"
      BY <1>3 DEF LookAtScreen, clocks
    <2>2. look' = NoLook \/ (look' = [look EXCEPT !.step = "screen"] /\ look.ripe)
      BY <1>3 DEF LookAtScreen, TickOver
    <2> QED
      BY <2>1, <2>2 DEF Spaced, LookTyped, NoLook
  <1>4. CASE Stalled
    <2>1. stalls' = Upto(stalls + 1, MaxStalls) /\ gap' = 0 /\ sinceWake' = 0 /\ look' = NoLook
      BY <1>4 DEF Stalled, TickOver
    <2>2. stalls' > 0
      BY <1>0, <2>1, UptoIs
    <2> QED
      BY <2>1, <2>2, <1>0 DEF Spaced, NoLook
  <1>5. CASE Pass
    <2>1. /\ idleFor' <= idleFor + 1 /\ gap' <= gap + 1 /\ idleFor' \in Nat /\ gap' \in Nat
          /\ sinceWake' = IF sinceWake + 1 <= Shorter THEN sinceWake + 1 ELSE Shorter
      BY <1>0, <1>5, UptoIs DEF Pass
    <2>2. UNCHANGED stalls /\ look' = look /\ look.step = "wait"
      BY <1>5 DEF Pass
    <2> QED
      BY <1>0, <2>1, <2>2 DEF Spaced
  <1>6. CASE ActStep
    <2>1. /\ sinceWake' = sinceWake /\ look' \in {look, NoLook}
          /\ (idleFor' = 0 /\ stalls' = 0) \/ UNCHANGED <<idleFor, stalls, gap>>
      BY <1>6, ActClocks
    <2> QED
      BY <1>0, <2>1 DEF Spaced, NoLook
  <1>7. CASE UNCHANGED iwVars
    BY <1>7 DEF iwVars, clocks, tick, Spaced
  <1> QED
    BY <1>1, <1>2, <1>3, <1>4, <1>5, <1>6, <1>7 DEF IdleNext, ActStep

-----------------------------------------------------------------------------
(* One alert in an episode *)

LEMMA AlertedStep ==
  ASSUME IdleTypeOK, LookTyped, LookSound, Alerted, [IdleNext]_iwVars
  PROVE  Alerted'
  <1> USE Constants
  <1> DEFINE cap == Max({After, StallAlert})
  <1>0. /\ idleFor \in Nat /\ idleFor <= cap /\ stalls \in Nat /\ alarms \in Nat /\ belated \in {0, 1}
        /\ StallAlert \in Nat \ {0} /\ cap \in Nat /\ StallAlert <= cap /\ MaxStalls \in Nat \ {0}
    BY DEF IdleTypeOK, LookTyped
  <1> HIDE DEF cap
  <1>1. CASE Timers
    <2>1. /\ idleFor' = 0 /\ stalls' = 0 /\ hour' = FALSE /\ alarms' = 0 /\ belated' = 0
          \/ UNCHANGED <<idleFor, stalls, hour, alarms, belated>>
      BY <1>1 DEF Timers, FireTimers, NewEpisode, clocks
    <2>2. look'.step = "timers"
      BY <1>1 DEF Timers, NoLook
    <2> QED
      BY <1>0, <2>1, <2>2 DEF Alerted
  <1>2. CASE LookAtWork
    <2>1. UNCHANGED <<idleFor, stalls, hour, alarms, belated>>
      BY <1>2 DEF LookAtWork, clocks
    <2> DEFINE alert == idleFor >= StallAlert /\ (stalls = 0 \/ ~hour)
    <2>2. look' = NoLook \/ (look'.step = "work" /\ look'.alert = alert)
      BY <1>2 DEF LookAtWork, TickOver
    <2>4. alert => StallAlert <= idleFor /\ ~hour
      BY <1>0 DEF Alerted
    <2> HIDE DEF alert
    <2>3. look'.step \in {"work", "screen"} /\ look'.alert => StallAlert <= idleFor /\ ~hour
      <3> SUFFICES ASSUME look'.step \in {"work", "screen"}, look'.alert PROVE alert
        BY <2>4
      <3>1. look' # NoLook
        BY DEF NoLook
      <3> QED
        BY <2>2, <3>1, Zenon
    <2> QED
      BY <2>1, <2>3 DEF Alerted
  <1>3. CASE LookAtScreen
    <2>1. UNCHANGED <<idleFor, stalls, hour, alarms, belated>> /\ look.step = "work"
      BY <1>3 DEF LookAtScreen, clocks
    <2>2. look' = NoLook \/ look' = [look EXCEPT !.step = "screen"]
      BY <1>3 DEF LookAtScreen, TickOver
    <2> QED
      BY <2>1, <2>2 DEF Alerted, LookTyped, NoLook
  <1>4. CASE Stalled
    <2>1. /\ look.step = "screen" /\ look' = NoLook /\ UNCHANGED idleFor
          /\ stalls' = Upto(stalls + 1, MaxStalls) /\ hour' = (idleFor >= StallAlert)
          /\ alarms' = alarms + (IF look.alert THEN 1 ELSE 0)
          /\ belated' = IF idleFor = 0 THEN 1 ELSE belated
      BY <1>4 DEF Stalled, TickOver
    <2>2. stalls' > 0
      BY <1>0, <2>1, UptoIs
    <2>5. (hour' => StallAlert <= idleFor) /\ (StallAlert <= idleFor => hour')
      <3>1. (idleFor >= StallAlert) <=> StallAlert <= idleFor
        BY <1>0
      <3> QED
        BY <2>1, <3>1, Zenon
    <2>3. hour' => StallAlert <= idleFor' /\ stalls' > 0
      BY <2>1, <2>2, <2>5
    <2>4. alarms' <= belated' + (IF hour' THEN 1 ELSE 0)
      <3>1. hour => hour' /\ idleFor # 0
        <4>1. StallAlert <= idleFor => idleFor # 0
          BY <1>0
        <4> QED
          BY <2>5, <4>1 DEF Alerted
      <3>2. CASE ~look.alert
        BY <1>0, <2>1, <3>1, <3>2 DEF Alerted
      <3>3. CASE look.alert /\ StallAlert <= idleFor /\ ~hour
        <4>3. idleFor # 0
          BY <1>0, <3>3
        <4>1. hour' /\ belated' = belated /\ alarms' = alarms + 1
          BY <2>1, <2>5, <3>3, <4>3
        <4>2. alarms <= belated
          BY <1>0, <3>3 DEF Alerted
        <4> QED
          BY <1>0, <4>1, <4>2
      <3>4. CASE look.alert /\ idleFor = 0 /\ belated = 0
        <4>1. ~hour /\ belated' = 1 /\ alarms' = alarms + 1
          BY <2>1, <3>1, <3>4
        <4>2. alarms <= 0
          BY <1>0, <3>4, <4>1 DEF Alerted
        <4> QED
          BY <1>0, <4>1, <4>2
      <3> QED
        BY <2>1, <3>2, <3>3, <3>4 DEF Alerted
    <2> QED
      BY <2>1, <2>3, <2>4 DEF Alerted, NoLook
  <1>5. CASE Pass
    <2>1. idleFor' = IF idleFor + 1 <= cap THEN idleFor + 1 ELSE cap
      BY <1>0, <1>5, UptoIs DEF Pass, cap
    <2>2. UNCHANGED <<stalls, hour, alarms, belated>> /\ look' = look /\ look.step = "wait"
      BY <1>5 DEF Pass
    <2> QED
      BY <1>0, <2>1, <2>2 DEF Alerted
  <1>6. CASE ActStep
    <2>1. /\ look' \in {look, NoLook}
          /\ \/ idleFor' = 0 /\ stalls' = 0 /\ hour' = FALSE /\ alarms' = 0 /\ belated' = 0
             \/ UNCHANGED <<idleFor, stalls, hour, alarms, belated>>
      BY <1>6, ActClocks
    <2> QED
      BY <1>0, <2>1 DEF Alerted, NoLook
  <1>7. CASE UNCHANGED iwVars
    BY <1>7 DEF iwVars, clocks, tick, Alerted
  <1> QED
    BY <1>1, <1>2, <1>3, <1>4, <1>5, <1>6, <1>7 DEF IdleNext, ActStep

-----------------------------------------------------------------------------
(* Repeating timers *)

LEMMA PaidStep ==
  ASSUME IdleTypeOK, LookTyped, Paid, [IdleNext]_iwVars
  PROVE  Paid'
  <1> DEFINE d == due["every"]
  <1>0. /\ Period \in Nat \ {0} /\ MaxDue \in Nat \ {0} /\ purse \in Int /\ armed \subseteq Slots
        /\ d \in (1 - 2 * Period)..MaxDue /\ d \in Int /\ due \in [Slots -> (1 - 2 * Period)..MaxDue]
    BY Constants DEF IdleTypeOK, LookTyped, Slots
  <1>1. CASE Timers
    <2> DEFINE ring == {k \in armed : due[k] <= 0}
    <2>1. CASE chief = "none"
      BY <1>1, <2>1 DEF Timers, timers, Paid
    <2>2. CASE chief # "none"
      <3>1. /\ armed' = armed \ (ring \ {"every"})
            /\ due' = [k \in Slots |-> CASE k \in ring /\ k = "every" -> NextDue(due[k])
                                         [] k \in ring /\ k # "every" -> 0
                                         [] OTHER -> due[k]]
            /\ purse' = (IF "every" \in ring THEN purse - Period ELSE purse)
        BY <1>1, <2>2 DEF Timers, FireTimers
      <3>2. "every" \in armed' <=> "every" \in armed
        BY <3>1
      <3>3. due'["every"] = IF "every" \in ring THEN NextDue(d) ELSE d
        BY <3>1 DEF Slots
      <3>4. CASE "every" \notin ring
        BY <3>1, <3>2, <3>3, <3>4 DEF Paid
      <3>5. CASE "every" \in ring
        <4>1. "every" \in armed /\ d <= 0 /\ purse' = purse - Period /\ due'["every"] = NextDue(d)
          BY <3>1, <3>3, <3>5
        <4>2. Period - d <= purse \/ 2 * Period - 1 <= purse
          BY <4>1 DEF Paid
        <4>3. CASE d + Period > 0
          <5>1. due'["every"] = d + Period
            BY <4>1, <4>3 DEF NextDue
          <5> HIDE DEF d
          <5>2. purse' >= 0 /\ Period - (d + Period) <= purse'
            BY <1>0, <4>1, <4>2, <4>3
          <5>3. d + Period <= Period
            BY <1>0, <4>1
          <5> QED
            BY <4>1, <5>1, <5>2, <5>3 DEF Paid
        <4>4. CASE ~(d + Period > 0)
          <5>1. due'["every"] = Period
            BY <4>1, <4>4 DEF NextDue
          <5> HIDE DEF d
          <5>2. purse' >= 0 /\ Period - Period <= purse' /\ Period <= Period
            BY <1>0, <4>1, <4>2, <4>4
          <5> QED
            BY <4>1, <5>1, <5>2 DEF Paid
        <4> QED
          BY <4>3, <4>4
      <3> QED
        BY <3>4, <3>5
    <2> QED
      BY <2>1, <2>2
  <1>2. CASE Pass
    <2>1. /\ armed' = armed /\ purse' = IF "every" \in armed THEN Upto(purse + 1, 2 * Period - 1) ELSE purse
          /\ due'["every"] = IF "every" \notin armed THEN 0 ELSE Max({d - 1, 1 - 2 * Period})
      BY <1>2 DEF Pass, Slots
    <2>2. CASE "every" \notin armed
      BY <2>1, <2>2 DEF Paid
    <2>3. CASE "every" \in armed
      <3>1. due'["every"] = IF d - 1 <= 1 - 2 * Period THEN 1 - 2 * Period ELSE d - 1
        BY <1>0, <2>1, <2>3, MaxOfTwo
      <3>2. purse' = IF purse + 1 <= 2 * Period - 1 THEN purse + 1 ELSE 2 * Period - 1
        BY <1>0, <2>1, <2>3, UptoIs
      <3>3. purse >= 0 /\ d <= Period /\ Period <= MaxDue /\ (Period - d <= purse \/ 2 * Period - 1 <= purse)
        BY <2>3 DEF Paid
      <3>4. purse' >= 0 /\ due'["every"] <= Period
        <4> HIDE DEF d
        <4> QED
          BY <1>0, <3>1, <3>2, <3>3
      <3>5. Period - due'["every"] <= purse' \/ 2 * Period - 1 <= purse'
        <4> HIDE DEF d
        <4> QED
          BY <1>0, <3>1, <3>2, <3>3
      <3> QED
        BY <3>3, <3>4, <3>5 DEF Paid
    <2> QED
      BY <2>2, <2>3
  <1>3. ASSUME NEW k \in Slots, NEW x \in 1..MaxDue, Arm(k, x) PROVE Paid'
    <2>1. /\ armed' = armed \cup {k} /\ due' = [due EXCEPT ![k] = x] /\ x \in Nat
          /\ purse' = (IF k = "every" THEN 0 ELSE purse) /\ (k = "every" => x = Period)
      BY <1>3 DEF Arm
    <2>2. CASE k = "every"
      <3>1. due'["every"] = Period /\ purse' = 0 /\ Period <= MaxDue
        BY <1>0, <2>1, <2>2
      <3> QED
        BY <1>0, <3>1 DEF Paid
    <2>3. CASE k # "every"
      <3>1. due'["every"] = d /\ purse' = purse /\ ("every" \in armed' <=> "every" \in armed)
        BY <1>0, <2>1, <2>3
      <3> QED
        BY <3>1 DEF Paid
    <2> QED
      BY <2>2, <2>3
  <1>4. ASSUME /\ purse' = purse /\ armed' \subseteq armed
               /\ "every" \in armed' => due'["every"] = d
        PROVE  Paid'
    BY <1>4 DEF Paid
  <1>5. ASSUME NEW what \in {"attempt", "decision"}, NEW t \in Tasks, WorkBegins(what, t) PROVE Paid'
    <2>1. purse' = purse /\ armed' \subseteq armed /\ ("every" \in armed' => due'["every"] = d)
      BY <1>5 DEF WorkBegins, Slots
    <2> QED
      BY <2>1, <1>4
  <1>6. ASSUME NEW t \in Tasks, FinishTask(t) PROVE Paid'
    <2>1. purse' = purse /\ armed' \subseteq armed /\ ("every" \in armed' => due'["every"] = d)
      BY <1>6 DEF FinishTask, Slots
    <2> QED
      BY <2>1, <1>4
  <1>7. ASSUME NEW k \in Slots, Cancel(k) PROVE Paid'
    <2>1. purse' = purse /\ armed' \subseteq armed /\ ("every" \in armed' => due'["every"] = d)
      BY <1>0, <1>7 DEF Cancel
    <2> QED
      BY <2>1, <1>4
  <1>8. CASE UNCHANGED timers
    BY <1>8, <1>4 DEF timers
  <1> QED
    BY <1>1, <1>2, <1>3, <1>5, <1>6, <1>7, <1>8
       DEF IdleNext, LookAtWork, LookAtScreen, Stalled, WorkEnds, Remark, ChiefBegins, ChiefEnds, AskSwitch, Switched,
           MessageSent, MessageTaken, Turn, Redraws, Closes, Opens, iwVars

-----------------------------------------------------------------------------
(* The supervisor is woken *)

\* What a neglected supervisor's rest amounts to after n units.
Rests(n) ==
  /\ same /\ ~redrawn /\ resting # Unseen
  /\ n - 1 <= resting \/ StillFor <= resting

LEMMA RipeningStep ==
  ASSUME IdleTypeOK, LookTyped, Paid, LookSound, Ripening, [IdleNext]_iwVars
  PROVE  Ripening'
  <1> USE Constants
  <1> DEFINE cap == Max({After, StallAlert})
  <1>0. /\ idleFor \in Nat /\ gap \in Nat /\ stalls \in Nat /\ worked \in Nat /\ quiet \in Nat
        /\ resting \in Int /\ (resting # Unseen => resting \in Nat) /\ resting <= StillFor /\ worked <= After
        /\ StillFor \in Nat \ {0} /\ After \in Nat \ {0} /\ Longer \in Nat \ {0} /\ After <= Longer
        /\ StillFor < After /\ StillFor < Longer /\ cap \in Nat /\ After <= cap
    BY DEF IdleTypeOK, LookTyped, Unseen
  <1> HIDE DEF cap
  \* As long as nobody is neglected there is nothing to show.
  <1>a. ASSUME quiet' = 0 PROVE Ripening'
    BY <1>a, <1>0 DEF Ripening
  <1>b. Rests(quiet)' <=> /\ same' /\ ~redrawn' /\ resting' # Unseen
                          /\ quiet' - 1 <= resting' \/ StillFor <= resting'
    BY DEF Rests, Unseen
  <1>1. CASE Timers
    <2>1. quiet' = 0 \/ (UNCHANGED clocks /\ UNCHANGED timers)
      <3>1. ASSUME FireTimers PROVE quiet' = 0 \/ (UNCHANGED clocks /\ UNCHANGED timers)
        BY <3>1, FireTypes DEF NewEpisode
      <3> QED
        BY <1>1, <3>1 DEF Timers
    <2>2. CASE quiet' = 0
      BY <2>2, <1>a
    <2>3. CASE UNCHANGED clocks /\ UNCHANGED timers
      <3>1. /\ look'.step = "timers" /\ ~looked /\ looked' = looked /\ attending' = attending
            /\ UNCHANGED <<chiefVars, memory, work>> /\ UNCHANGED clocks
        BY <1>1, <2>3 DEF Timers, NoLook
      <3> QED
        BY <3>1 DEF Ripening, chiefVars, memory, work, clocks, Unseen
    <2> QED
      BY <2>1, <2>2, <2>3
  <1>2. CASE LookAtWork
    <2>0. /\ look.step = "timers" /\ ~looked /\ attending
          /\ UNCHANGED <<clocks, timers, chief, changing, limit, redrawn, mail, work, attending>>
      BY <1>2 DEF LookAtWork, LookSound
    <2>1. Unwatched' = Unwatched
      BY <2>0 DEF Unwatched, timers, work
    <2>2. CASE quiet = 0
      BY <2>0, <2>2, <1>a DEF clocks
    <2>3. CASE quiet > 0
      <3>1. chief = "idle" /\ ~changing
        BY <2>3 DEF Ripening
      <3>2. /\ same' = TRUE /\ resting' = (IF same THEN resting ELSE Unseen)
            /\ worked' = (IF same THEN worked ELSE After)
        BY <1>2, <3>1 DEF LookAtWork
      <3>3. \/ Unwatched = {} /\ look' = NoLook /\ looked' = TRUE
            \/ /\ looked' = looked /\ look'.step = "work"
               /\ look'.ripe = IF stalls = 0 THEN idleFor >= After ELSE gap >= Delay[stalls]
        BY <1>2, <3>1 DEF LookAtWork, TickOver
      <3>4. quiet = Longer => IF stalls = 0 THEN idleFor >= After ELSE gap >= Delay[stalls]
        <4>1. Delay[stalls] \in Nat /\ Delay[stalls] <= Longer
          BY <1>0, DelayBounds
        <4> QED
          BY <1>0, <2>3, <4>1 DEF Ripening
      <3>5. quiet' = quiet /\ quiet <= Longer
        BY <2>0 DEF clocks, Ripening
      <3>6. /\ attending' /\ chief' = "idle" /\ ~changing' /\ ~limit' /\ ~mail'
            /\ quiet <= idleFor' \/ After <= idleFor'
            /\ quiet <= gap'
            /\ quiet <= worked' \/ After <= worked'
        BY <1>0, <2>0, <2>3, <3>2 DEF Ripening, clocks
      <3>7. quiet > 1 => Rests(quiet)'
        BY <2>0, <3>2, <3>5 DEF Ripening, Rests, Unseen
      <3>8. quiet = Longer /\ look'.step \in {"work", "screen"} => look'.ripe
        <4> SUFFICES ASSUME quiet = Longer, look'.step \in {"work", "screen"} PROVE look'.ripe
          OBVIOUS
        <4>1. look' # NoLook
          BY DEF NoLook
        <4> QED
          BY <3>3, <3>4, <4>1, Zenon
      <3>9. looked' => Unwatched' = {}
        BY <2>0, <2>1, <3>3
      <3> QED
        BY <1>b, <3>2, <3>5, <3>6, <3>7, <3>8, <3>9 DEF Ripening, Unseen
    <2> QED
      BY <1>0, <2>2, <2>3
  <1>3. CASE LookAtScreen
    <2>0. /\ look.step = "work" /\ ~looked /\ attending
          /\ UNCHANGED <<clocks, timers, chief, same, changing, limit, mail, work, attending>>
      BY <1>3 DEF LookAtScreen, LookSound
    <2>1. Unwatched' = Unwatched
      BY <2>0 DEF Unwatched, timers, work
    <2>2. CASE quiet = 0
      BY <2>0, <2>2, <1>a DEF clocks
    <2>3. CASE quiet > 0
      <3>1. chief = "idle" /\ ~changing /\ ~limit /\ ~mail /\ same
        BY <2>0, <2>3 DEF Ripening
      <3> DEFINE since == IF resting = Unseen \/ redrawn THEN 0 ELSE resting
      <3>2. resting' = since /\ redrawn' = FALSE /\ worked' = worked
        BY <1>3, <3>1 DEF LookAtScreen
      <3>3. IF since >= StillFor /\ look.ripe /\ worked >= After
            THEN look' = [look EXCEPT !.step = "screen"] /\ looked' = looked
            ELSE look' = NoLook /\ looked' = TRUE
        BY <1>3, <3>1 DEF LookAtScreen, TickOver
      <3>4. since \in Nat /\ (quiet > 1 => quiet - 1 <= since \/ StillFor <= since)
        BY <1>0, <2>0 DEF Ripening
      <3>5. quiet' = quiet /\ quiet <= Longer
        BY <2>0 DEF clocks, Ripening
      <3>6. quiet = Longer => since >= StillFor /\ worked >= After /\ look.ripe
        <4>1. ASSUME quiet = Longer PROVE since >= StillFor /\ worked >= After
          <5>1. worked >= After
            BY <1>0, <2>3, <4>1 DEF Ripening
          <5>2. since >= StillFor
            <6> HIDE DEF since
            <6> QED
              BY <1>0, <3>4, <4>1
          <5> QED
            BY <5>1, <5>2
        <4>2. quiet = Longer => look.ripe
          BY <2>0 DEF Ripening
        <4> QED
          BY <4>1, <4>2
      <3>7. Rests(quiet)'
        <4>1. since # Unseen
          BY <3>4 DEF Unseen
        <4>2. quiet - 1 <= since \/ StillFor <= since
          <5> HIDE DEF since
          <5> QED
            BY <1>0, <2>3, <3>4
        <4> HIDE DEF since
        <4> QED
          BY <1>b, <2>0, <3>1, <3>2, <3>5, <4>1, <4>2
      <3> HIDE DEF since
      <3>8. /\ attending' /\ chief' = "idle" /\ ~changing' /\ ~limit' /\ ~mail'
            /\ quiet <= idleFor' \/ After <= idleFor'
            /\ quiet <= gap'
            /\ quiet <= worked' \/ After <= worked'
            /\ same'
        BY <2>0, <2>3, <3>1, <3>2 DEF Ripening, clocks
      <3>9. looked' => quiet < Longer
        <4>1. looked' => quiet # Longer
          BY <2>0, <3>3, <3>6, Zenon
        <4> QED
          BY <1>0, <3>5, <4>1
      <3>10. quiet = Longer /\ look'.step \in {"work", "screen"} => look'.ripe
        <4>1. look' = [look EXCEPT !.step = "screen"] => (look'.ripe <=> look.ripe)
          BY DEF LookTyped
        <4> QED
          BY <3>3, <3>6, <4>1, Zenon
      <3> QED
        BY <1>b, <3>5, <3>7, <3>8, <3>9, <3>10 DEF Ripening, Unseen
    <2> QED
      BY <1>0, <2>2, <2>3
  <1>4. CASE Stalled
    BY <1>4, <1>a DEF Stalled
  <1>5. CASE Pass
    <2>1. CASE ~Neglected
      BY <1>5, <2>1, <1>a DEF Pass
    <2>2. CASE Neglected
      <3>1. /\ attending /\ chief = "idle" /\ ~changing /\ ~limit /\ ~mail /\ Unwatched # {}
            /\ looked /\ look.step = "wait" /\ looked' = FALSE /\ UNCHANGED <<chiefVars, attending, look>>
        BY <1>5, <2>2 DEF Pass, Neglected
      <3>2. quiet > 0 => quiet < Longer /\ Rests(quiet)
        BY <3>1 DEF Ripening, Rests
      <3>3. quiet' = quiet + 1 /\ quiet + 1 <= Longer
        <4>1. quiet + 1 <= Longer /\ Longer + StillFor + 1 \in Int /\ quiet + 1 <= Longer + StillFor + 1
          BY <1>0, <3>2
        <4>2. quiet' = Upto(quiet + 1, Longer + StillFor + 1)
          BY <1>5, <2>2 DEF Pass
        <4> QED
          BY <1>0, <4>1, <4>2, UptoIs
      <3>4. quiet' <= idleFor' \/ After <= idleFor'
        <4>1. idleFor' = IF idleFor + 1 <= cap THEN idleFor + 1 ELSE cap
          BY <1>0, <1>5, UptoIs DEF Pass, cap
        <4>2. quiet <= idleFor \/ After <= idleFor
          BY <1>0 DEF Ripening
        <4> QED
          BY <1>0, <3>3, <4>1, <4>2
      <3>5. quiet' <= gap'
        <4>1. gap' = IF gap + 1 <= Longer THEN gap + 1 ELSE Longer
          BY <1>0, <1>5, UptoIs DEF Pass
        <4>2. quiet <= gap
          BY <1>0 DEF Ripening
        <4>3. quiet \in Int /\ gap \in Int /\ Longer \in Int
          BY <1>0
        <4> QED
          BY <3>3, <4>1, <4>2, <4>3
      <3>6. quiet' <= worked' \/ After <= worked'
        <4>1. worked' = IF worked + 1 <= After THEN worked + 1 ELSE After
          BY <1>0, <1>5, UptoIs DEF Pass
        <4>2. quiet <= worked \/ After <= worked
          BY <1>0 DEF Ripening
        <4> QED
          BY <1>0, <3>3, <4>1, <4>2
      <3>7. quiet' > 1 => Rests(quiet)'
        <4> SUFFICES ASSUME quiet > 0 PROVE Rests(quiet)'
          BY <1>0, <3>3
        <4>1. Rests(quiet) /\ resting \in Nat
          BY <1>0, <3>2 DEF Rests
        <4>2. resting' = IF resting + 1 <= StillFor THEN resting + 1 ELSE StillFor
          BY <1>0, <1>5, <4>1, UptoIs DEF Pass, Rests
        <4>3. resting' # Unseen /\ (quiet' - 1 <= resting' \/ StillFor <= resting')
          BY <1>0, <3>3, <4>1, <4>2 DEF Rests, Unseen
        <4> QED
          BY <1>b, <3>1, <4>1, <4>3 DEF Rests, chiefVars
      <3> QED
        BY <1>b, <3>1, <3>3, <3>4, <3>5, <3>6, <3>7 DEF Ripening, Unseen, chiefVars
    <2> QED
      BY <2>1, <2>2
  <1>6. CASE ActStep
    BY <1>6, <1>a, ActClocks
  <1>7. CASE UNCHANGED iwVars
    <2>1. Unwatched' = Unwatched
      BY <1>7 DEF iwVars, Unwatched, timers, work
    <2> QED
      BY <1>7, <2>1 DEF iwVars, clocks, chiefVars, memory, tick, Ripening, Unseen
  <1> QED
    BY <1>1, <1>2, <1>3, <1>4, <1>5, <1>6, <1>7 DEF IdleNext, ActStep

-----------------------------------------------------------------------------
(* IdleWakes: the invariant of the specification *)

LEMMA InitWInv == IdleInit => WInv
  <1> SUFFICES ASSUME IdleInit PROVE WInv
    OBVIOUS
  <1> USE Constants
  <1>0. /\ {After, StallAlert, StillFor, Period, MaxDue, Shorter, Longer, MaxStalls} \subseteq Nat \ {0}
        /\ Max({After, StallAlert}) \in Nat
    OBVIOUS
  <1>1. IdleTypeOK
    <2>1. /\ {attending, same, changing, limit, redrawn, mail, hour, looked} \subseteq BOOLEAN
          /\ chief \in {"none", "idle", "working", "blocked"}
          /\ underway \subseteq Tasks /\ busy \subseteq {"attempt", "decision"} /\ armed \subseteq Slots
      BY DEF IdleInit
    <2>2. due \in [Slots -> (1 - 2 * Period)..MaxDue]
      <3>1. 0 \in (1 - 2 * Period)..MaxDue
        BY <1>0
      <3> QED
        BY <3>1 DEF IdleInit
    <2>3. /\ idleFor \in 0..Max({After, StallAlert}) /\ stalls \in 0..MaxStalls /\ gap \in 0..Longer
          /\ worked \in 0..After /\ sinceWake \in 0..Shorter
      BY <1>0 DEF IdleInit
    <2>4. resting \in Unseen..StillFor /\ look.step \in {"wait", "timers", "work", "screen"}
      BY <1>0 DEF IdleInit, Unseen, NoLook
    <2> QED
      BY <2>1, <2>2, <2>3, <2>4 DEF IdleTypeOK
  <1>2. LookTyped
    BY LookTypes DEF IdleInit, LookTyped, Looks
  <1>3. LookSound /\ Spaced /\ Alerted
    BY <1>0 DEF IdleInit, LookSound, Spaced, Alerted, NoLook
  <1>4. Ripening
    BY <1>0 DEF IdleInit, Ripening, NoLook
  <1>5. Paid
    BY <1>0 DEF IdleInit, Paid
  <1> QED
    BY <1>1, <1>2, <1>3, <1>4, <1>5 DEF WInv

LEMMA WInvStep == WInv /\ [IdleNext]_iwVars => WInv'
  <1> SUFFICES ASSUME WInv, [IdleNext]_iwVars PROVE WInv'
    OBVIOUS
  <1>1. IdleTypeOK /\ LookTyped /\ LookSound /\ Ripening /\ Spaced /\ Alerted /\ Paid
    BY DEF WInv
  <1>2. IdleTypeOK' /\ LookTyped'
    BY <1>1, TypeStep
  <1>3. LookSound' /\ Ripening' /\ Spaced' /\ Alerted' /\ Paid'
    BY <1>1, LookedStep, RipeningStep, SpacedStep, AlertedStep, PaidStep
  <1> QED
    BY <1>2, <1>3 DEF WInv

\* Whatever the delays, the timers and the acts of the agents and the operator:
\* a neglected supervisor is woken within the longer delay, two wakes are the
\* shorter one apart, an episode alerts once and a repeating timer never rings
\* for a period that has not passed.
THEOREM IdleSafe == IdleSpec => []IdleSafety
  <1>1. WInv => IdleSafety
    <2> SUFFICES ASSUME WInv PROVE IdleSafety
      OBVIOUS
    <2>1. IdleTypeOK /\ Woken /\ WakesApart /\ RingsPaid
      BY DEF WInv, Ripening, Spaced, Paid, Woken, WakesApart, RingsPaid
    <2>2. AlertOnce
      <3>1. alarms <= belated + (IF hour THEN 1 ELSE 0) /\ alarms \in Nat /\ belated \in {0, 1}
        BY DEF WInv, Alerted, LookTyped
      <3> QED
        BY <3>1 DEF AlertOnce
    <2> QED
      BY <2>1, <2>2 DEF IdleSafety
  <1> QED
    BY <1>1, InitWInv, WInvStep, PTL DEF IdleSpec

-----------------------------------------------------------------------------
(* WatchAlerts: the inductive invariant *)

AlertTypes ==
  /\ AlertsTypeOK
  /\ toldEnd \in [Crew -> Nat] /\ heard \in [1..MaxAsked -> Nat] /\ limitTold \in Nat

\* What is still to be compared was not told of.
EndsTold ==
  \A w \in Crew : /\ toldEnd[w] <= 1 /\ (toldEnd[w] = 1 => standing[w] # "live")
                  /\ w \in listed => toldEnd[w] = 0

\* Nothing past the watcher's place was told of.
AsksHeard ==
  /\ heardFrom <= cursor /\ cursor <= asks
  /\ \A d \in 1..MaxAsked : /\ heard[d] <= 1
                            /\ d \in heardFrom + 1..cursor => heard[d] = 1
                            /\ heard[d] = 1 => d <= cursor

\* The watcher remembers the limit it told of for as long as a supervisor is live under it.
LimitHeld == limitTold <= 1 /\ (limitTold = 1 => limitUp /\ (standing[Chief] = "live" => limited = "this"))

\* Who resumes has the lock that every other change of the row needs.
ResumerAlone == watching = "relaunch" => standing[Chief] = "exited" /\ Chief \in locked

AlertsInv == AlertTypes /\ EndsTold /\ AsksHeard /\ LimitHeld /\ ResumerAlone

LEMMA AlertsImplies == AlertsInv => AlertsSafety
<1> SUFFICES ASSUME AlertsInv PROVE AlertsSafety
  OBVIOUS
<1>0. AlertTypes
  BY DEF AlertsInv
<1>1. AlertsTypeOK /\ asks \in Nat /\ cursor \in Nat /\ heardFrom \in Nat
  BY <1>0, AlertAssumption DEF AlertTypes, AlertsTypeOK
<1>2. EndsToldOnce
  BY DEF AlertsInv, EndsTold, EndsToldOnce
<1>3. AsksHeardOnce
  BY <1>0, <1>1 DEF AlertsInv, AsksHeard, AsksHeardOnce
<1>4. LimitToldOnce /\ StoppedStays
  BY DEF AlertsInv, LimitHeld, ResumerAlone, LimitToldOnce, StoppedStays
<1> QED BY <1>1, <1>2, <1>3, <1>4 DEF AlertsSafety

LEMMA AlertsStarts == AlertsInit => AlertsInv
<1> SUFFICES ASSUME AlertsInit PROVE AlertsInv
  OBVIOUS
<1>1. AlertTypes
  <2>1. {opening, limitUp} \subseteq BOOLEAN
    BY DEF AlertsInit
  <2>2. 0 \in 0..MaxAsked
    BY AlertAssumption
  <2> QED BY <2>1, <2>2 DEF AlertsInit, AlertTypes, AlertsTypeOK
<1>2. EndsTold /\ LimitHeld /\ ResumerAlone
  BY DEF AlertsInit, EndsTold, LimitHeld, ResumerAlone
<1>3. AsksHeard
  BY AlertAssumption DEF AlertsInit, AsksHeard
<1> QED BY <1>1, <1>2, <1>3 DEF AlertsInv

-----------------------------------------------------------------------------
(* What the steps keep *)

LEMMA RowsType ==
  ASSUME AlertTypes, NEW x \in Everyone, NEW s \in {"live", "exited", "stopped"},
         standing' = [standing EXCEPT ![x] = s]
  PROVE  /\ standing' \in [Everyone -> {"live", "exited", "stopped"}]
         /\ standing'[x] = s /\ \A y \in Everyone \ {x} : standing'[y] = standing[y]
  BY DEF AlertTypes, AlertsTypeOK

LEMMA AlertsAlone == UNCHANGED aVars /\ AlertsInv => AlertsInv'
<1> SUFFICES ASSUME UNCHANGED aVars, AlertsInv PROVE AlertsInv'
  OBVIOUS
<1>1. AlertTypes'
  BY DEF AlertsInv, AlertTypes, AlertsTypeOK, aVars
<1>2. EndsTold' /\ AsksHeard' /\ LimitHeld' /\ ResumerAlone'
  BY DEF AlertsInv, EndsTold, AsksHeard, LimitHeld, ResumerAlone, aVars
<1> QED BY <1>1, <1>2 DEF AlertsInv

\* The types.
LEMMA AlertTypesStep == AlertTypes /\ ResumerAlone /\ AlertsNext => AlertTypes'
<1> SUFFICES ASSUME AlertTypes, ResumerAlone, AlertsNext PROVE AlertTypes'
  OBVIOUS
<1> USE DEF AlertTypes, AlertsTypeOK
<1>0. asks \in Nat /\ cursor \in Nat /\ asks <= MaxAsked /\ cursor <= MaxAsked /\ MaxAsked \in Nat /\ Chief \in Everyone
  BY AlertAssumption DEF Everyone
<1>1. CASE StartWatch \/ Subscribe \/ TickOrEvent \/ Compared \/ TakeLock
  <2>1. CASE StartWatch
    BY <1>0, <2>1 DEF StartWatch, crewRows
  <2>2. CASE Subscribe \/ TickOrEvent
    <3>1. opening' \in BOOLEAN /\ limitUp' = limitUp
      BY <2>2 DEF Subscribe, TickOrEvent, crewRows
    <3> QED BY <2>2, <3>1 DEF Subscribe, TickOrEvent, Passing, crewRows, alerted
  <2>3. CASE Compared
    BY <2>3 DEF Compared, Passing, crewRows, alerted
  <2>4. CASE TakeLock
    <3>1. watching' \in {"relaunch", "open"} /\ locked' \subseteq Everyone
      BY <1>0, <2>4 DEF TakeLock
    <3> QED BY <2>4, <3>1 DEF TakeLock, Passing, alerted
  <2> QED BY <1>1, <2>1, <2>2, <2>3, <2>4
<1>2. CASE LiveAttempts
  BY <1>0, <1>2 DEF LiveAttempts, Passing, crewRows, alerted, Everyone
<1>3. CASE Decisions
  <2> DEFINE last == IF cursor + Batch < asks THEN cursor + Batch ELSE asks
  <2>1. last \in 0..MaxAsked
    BY <1>0, AlertAssumption
  <2>2. cursor' = last /\ watching' = "deliver"
    BY <1>3 DEF Decisions
  <2>3. heard' \in [1..MaxAsked -> Nat]
    BY <1>3 DEF Decisions
  <2> HIDE DEF last
  <2> QED BY <1>3, <2>1, <2>2, <2>3 DEF Decisions, Passing, crewRows
<1>4. ASSUME NEW x \in Everyone, SettleRow(x) PROVE AlertTypes'
  <2>1. standing' \in [Everyone -> {"live", "exited", "stopped"}]
    BY <1>4, RowsType DEF SettleRow
  <2> QED BY <1>4, <2>1 DEF SettleRow, Passing, alerted
<1>5. ASSUME NEW w \in Crew, Compare(w) PROVE AlertTypes'
  BY <1>5 DEF Compare, crewRows, Passing
<1>6. ASSUME NEW b \in BOOLEAN, Deliver(b) PROVE AlertTypes'
  <2>1. limited' \in {"none", "this", "earlier"} /\ limitTold' \in Nat /\ watching' \in {"resume", "open"}
    BY <1>6 DEF Deliver
  <2> QED BY <1>6, <2>1 DEF Deliver, Passing, crewRows
<1>7. ASSUME ChiefAgain PROVE /\ standing' \in [Everyone -> {"live", "exited", "stopped"}] /\ dead' \subseteq Everyone
                              /\ limitUp' \in BOOLEAN /\ limitTold' \in Nat /\ limited' \in {"none", "this", "earlier"}
  BY <1>0, <1>7, RowsType DEF ChiefAgain
<1>8. ASSUME NEW b \in BOOLEAN, Relaunch(b) PROVE AlertTypes'
  <2>1. /\ standing' \in [Everyone -> {"live", "exited", "stopped"}] /\ dead' \subseteq Everyone
        /\ limitUp' \in BOOLEAN /\ limitTold' \in Nat /\ limited' \in {"none", "this", "earlier"}
        /\ watching' \in {"open", "deliver"}
    BY <1>7, <1>8 DEF Relaunch
  <2> QED BY <1>8, <2>1 DEF Relaunch, Passing
<1>9. ASSUME NEW b \in BOOLEAN, SessionFails(b) PROVE AlertTypes'
  BY <1>9 DEF SessionFails, Passing, alerted
<1>10. ASSUME NEW x \in Everyone, AgentExits(x) \/ Lock(x) \/ Unlock(x) PROVE AlertTypes'
  BY <1>10 DEF AgentExits, Lock, Unlock, Apart
<1>11. ASSUME NEW x \in Everyone, CommandSettles(x) \/ CommandStops(x) PROVE AlertTypes'
  <2>1. standing' \in [Everyone -> {"live", "exited", "stopped"}]
    BY <1>11, RowsType DEF CommandSettles, CommandStops
  <2>2. dead' \subseteq Everyone /\ locked' \subseteq Everyone
    BY <1>11 DEF CommandSettles, CommandStops
  <2> QED BY <1>11, <2>1, <2>2 DEF CommandSettles, CommandStops, Apart
<1>12. CASE CommandResumes
  BY <1>7, <1>12 DEF CommandResumes
<1>13. CASE Ask
  BY <1>0, <1>13 DEF Ask, Apart, crewRows
<1>14. ASSUME NEW b \in BOOLEAN, Limit(b) PROVE AlertTypes'
  BY <1>14 DEF Limit, Apart
<1> QED BY <1>1, <1>2, <1>3, <1>4, <1>5, <1>6, <1>8, <1>9, <1>10, <1>11, <1>12, <1>13, <1>14
   DEF AlertsNext

\* Nobody makes an attempt's row live again, and what is compared is struck off.
LEMMA EndsToldStep == AlertTypes /\ EndsTold /\ AlertsNext => EndsTold'
<1> SUFFICES ASSUME AlertTypes, EndsTold, AlertsNext, NEW w \in Crew
             PROVE  /\ toldEnd'[w] <= 1 /\ (toldEnd'[w] = 1 => standing'[w] # "live")
                    /\ w \in listed' => toldEnd'[w] = 0
  BY DEF EndsTold
<1>0. /\ toldEnd[w] \in Nat /\ toldEnd[w] <= 1 /\ (toldEnd[w] = 1 => standing[w] # "live")
      /\ (w \in listed => toldEnd[w] = 0) /\ w \in Everyone /\ w # Chief /\ Chief \in Everyone
  BY AlertAssumption DEF AlertTypes, EndsTold, Everyone
<1>1. CASE StartWatch \/ Subscribe \/ TickOrEvent \/ Compared \/ TakeLock \/ Decisions \/ Ask
  BY <1>0, <1>1 DEF StartWatch, Subscribe, TickOrEvent, Compared, TakeLock, Decisions, Ask, Apart,
     crewRows, alerted
<1>2. CASE LiveAttempts
  BY <1>0, <1>2 DEF LiveAttempts, crewRows, alerted
<1>3. ASSUME NEW x \in Everyone, NEW s \in {"exited", "stopped"}, standing' = [standing EXCEPT ![x] = s]
      PROVE  standing'[w] # "live" \/ standing'[w] = standing[w]
  BY <1>3, RowsType
<1>4. ASSUME NEW x \in Everyone, SettleRow(x) \/ CommandSettles(x) \/ CommandStops(x)
      PROVE  (standing'[w] # "live" \/ standing'[w] = standing[w]) /\ UNCHANGED <<listed, toldEnd>>
  BY <1>3, <1>4 DEF SettleRow, CommandSettles, CommandStops, Apart, alerted
<1>5. ASSUME NEW v \in Crew, Compare(v)
      PROVE  toldEnd'[w] <= 1 /\ (toldEnd'[w] = 1 => standing'[w] # "live") /\ (w \in listed' => toldEnd'[w] = 0)
  <2>1. standing' = standing /\ listed' = listed \ {v} /\ v \in listed
    BY <1>5 DEF Compare, crewRows
  <2>2. v # w => toldEnd'[w] = toldEnd[w]
    BY <1>5 DEF Compare, AlertTypes
  <2>3. v = w => toldEnd'[w] = IF standing[w] = "live" THEN toldEnd[w] ELSE toldEnd[w] + 1
    BY <1>5 DEF Compare, AlertTypes
  <2> QED BY <1>0, <2>1, <2>2, <2>3
<1>6. ASSUME ChiefAgain PROVE standing'[w] = standing[w]
  BY <1>0, <1>6, RowsType DEF ChiefAgain
<1>7. CASE CommandResumes \/ \E b \in BOOLEAN : Deliver(b) \/ Relaunch(b) \/ SessionFails(b) \/ Limit(b)
  <2>1. standing'[w] = standing[w]
    BY <1>6, <1>7 DEF CommandResumes, Deliver, Relaunch, SessionFails, Limit, crewRows
  <2>2. listed' \subseteq listed /\ toldEnd' = toldEnd
    BY <1>7 DEF CommandResumes, Deliver, Relaunch, SessionFails, Limit, Apart, alerted
  <2> QED BY <1>0, <2>1, <2>2
<1>8. ASSUME NEW x \in Everyone, AgentExits(x) \/ Lock(x) \/ Unlock(x) PROVE UNCHANGED <<listed, toldEnd, standing>>
  BY <1>8 DEF AgentExits, Lock, Unlock, Apart
<1> QED BY <1>0, <1>1, <1>2, <1>4, <1>5, <1>7, <1>8 DEF AlertsNext

\* A batch is what comes next; a new process begins where the decisions end.
LEMMA AsksHeardStep == AlertTypes /\ AsksHeard /\ AlertsNext => AsksHeard'
<1> SUFFICES ASSUME AlertTypes, AsksHeard, AlertsNext PROVE AsksHeard'
  OBVIOUS
<1>0. asks \in Nat /\ cursor \in Nat /\ heardFrom \in Nat /\ heard \in [1..MaxAsked -> Nat] /\ MaxAsked \in Nat
  BY AlertAssumption DEF AlertTypes, AlertsTypeOK
<1>1. CASE StartWatch
  BY <1>0, <1>1 DEF StartWatch, AsksHeard
<1>2. CASE Decisions
  <2> DEFINE last == IF cursor + Batch < asks THEN cursor + Batch ELSE asks
  <2>1. last \in Nat /\ cursor <= last /\ last <= asks
    BY <1>0, AlertAssumption DEF AsksHeard
  <2>2. /\ cursor' = last /\ asks' = asks /\ heardFrom' = heardFrom
        /\ heard' = [d \in 1..MaxAsked |-> IF d \in cursor + 1..last THEN heard[d] + 1 ELSE heard[d]]
    BY <1>2 DEF Decisions
  <2> HIDE DEF last
  <2>3. ASSUME NEW d \in 1..MaxAsked
        PROVE  heard'[d] <= 1 /\ (d \in heardFrom'+ 1..cursor' => heard'[d] = 1) /\ (heard'[d] = 1 => d <= cursor')
    <3>1. /\ heard[d] \in Nat /\ heard[d] <= 1 /\ (d \in heardFrom + 1..cursor => heard[d] = 1) /\ (heard[d] = 1 => d <= cursor)
          /\ d \in Nat
      BY <1>0 DEF AsksHeard
    <3>2. heard'[d] = IF d \in cursor + 1..last THEN heard[d] + 1 ELSE heard[d]
      BY <2>2
    <3>3. CASE d \in cursor + 1..last
      BY <1>0, <2>1, <2>2, <3>1, <3>2, <3>3
    <3>4. CASE d \notin cursor + 1..last
      BY <1>0, <2>1, <2>2, <3>1, <3>2, <3>4
    <3> QED BY <3>3, <3>4
  <2> QED BY <1>0, <2>1, <2>2, <2>3 DEF AsksHeard
<1>3. CASE Ask
  BY <1>0, <1>3 DEF Ask, Apart, AsksHeard
<1>4. ASSUME UNCHANGED <<asks, cursor, heard, heardFrom>> PROVE AsksHeard'
  BY <1>4 DEF AsksHeard
<1>5. CASE Subscribe \/ TickOrEvent \/ LiveAttempts \/ Compared \/ TakeLock \/ CommandResumes
  BY <1>4, <1>5 DEF Subscribe, TickOrEvent, LiveAttempts, Compared, TakeLock, CommandResumes,
     alerted
<1>6. ASSUME NEW x \in Everyone, SettleRow(x) \/ AgentExits(x) \/ CommandSettles(x) \/ Lock(x) \/ Unlock(x) \/ CommandStops(x)
      PROVE  AsksHeard'
  BY <1>4, <1>6 DEF SettleRow, AgentExits, CommandSettles, Lock, Unlock, CommandStops, Apart,
     alerted
<1>7. ASSUME NEW b \in BOOLEAN, Deliver(b) \/ Relaunch(b) \/ SessionFails(b) \/ Limit(b) PROVE AsksHeard'
  BY <1>4, <1>7 DEF Deliver, Relaunch, SessionFails, Limit, Apart, alerted
<1>8. ASSUME NEW w \in Crew, Compare(w) PROVE AsksHeard'
  BY <1>4, <1>8 DEF Compare
<1> QED BY <1>1, <1>2, <1>3, <1>5, <1>6, <1>7, <1>8 DEF AlertsNext

\* A limit is told of again only once it was gone, or another supervisor is there.
LEMMA LimitHeldStep == AlertTypes /\ LimitHeld /\ AlertsNext => LimitHeld'
<1> SUFFICES ASSUME AlertTypes, LimitHeld, AlertsNext PROVE LimitHeld'
  OBVIOUS
<1>0. limitTold \in Nat /\ limitTold <= 1 /\ Chief \in Everyone
  BY DEF AlertTypes, LimitHeld, Everyone
<1>1. ASSUME UNCHANGED <<limitTold, limitUp, limited>>, standing' = standing \/ standing'[Chief] # "live" \/ standing'[Chief] = standing[Chief]
      PROVE  LimitHeld'
  BY <1>1 DEF LimitHeld
<1>2. ASSUME limitTold' = 0 PROVE LimitHeld'
  BY <1>2 DEF LimitHeld
<1>3. CASE StartWatch \/ CommandResumes \/ \E b \in BOOLEAN : Limit(b)
  BY <1>2, <1>3 DEF StartWatch, CommandResumes, Limit, ChiefAgain
<1>4. CASE Subscribe \/ TickOrEvent \/ LiveAttempts \/ Compared \/ TakeLock \/ Decisions \/ Ask
  BY <1>1, <1>4 DEF Subscribe, TickOrEvent, LiveAttempts, Compared, TakeLock, Decisions, Ask,
     Apart, crewRows, alerted
<1>5. ASSUME NEW x \in Everyone, SettleRow(x) \/ CommandSettles(x) \/ CommandStops(x) PROVE LimitHeld'
  <2>1. standing' = standing \/ \E s \in {"exited", "stopped"} : standing' = [standing EXCEPT ![x] = s]
    BY <1>5 DEF SettleRow, CommandSettles, CommandStops
  <2>2. standing' = standing \/ standing'[Chief] # "live" \/ standing'[Chief] = standing[Chief]
    BY <1>0, <2>1, RowsType
  <2> QED BY <1>1, <1>5, <2>2 DEF SettleRow, CommandSettles, CommandStops, Apart, alerted
<1>6. ASSUME NEW x \in Everyone, AgentExits(x) \/ Lock(x) \/ Unlock(x) PROVE LimitHeld'
  BY <1>1, <1>6 DEF AgentExits, Lock, Unlock, Apart
<1>7. ASSUME NEW w \in Crew, Compare(w) PROVE LimitHeld'
  BY <1>1, <1>7 DEF Compare, crewRows
<1>8. ASSUME NEW b \in BOOLEAN, Deliver(b) PROVE LimitHeld'
  BY <1>0, <1>8 DEF Deliver, LimitHeld, crewRows
<1>9. ASSUME NEW b \in BOOLEAN, Relaunch(b) PROVE LimitHeld'
  BY <1>1, <1>2, <1>9 DEF Relaunch, ChiefAgain
<1>10. ASSUME NEW b \in BOOLEAN, SessionFails(b) PROVE LimitHeld'
  BY <1>1, <1>10 DEF SessionFails, alerted
<1> QED BY <1>3, <1>4, <1>5, <1>6, <1>7, <1>8, <1>9, <1>10 DEF AlertsNext

\* The lock of who resumes is given back only with the resume.
LEMMA ResumerAloneStep == AlertTypes /\ ResumerAlone /\ AlertsNext => ResumerAlone'
<1> SUFFICES ASSUME AlertTypes, ResumerAlone, AlertsNext, watching' = "relaunch"
             PROVE  standing'[Chief] = "exited" /\ Chief \in locked'
  BY DEF ResumerAlone
<1>0. Chief \in Everyone
  BY DEF Everyone
<1>1. CASE TakeLock
  BY <1>1 DEF TakeLock, Endings
<1>2. ASSUME watching = "relaunch", Chief \in locked' , standing' = standing \/ standing'[Chief] = standing[Chief]
      PROVE  standing'[Chief] = "exited" /\ Chief \in locked'
  BY <1>2 DEF ResumerAlone
<1>3. ~(StartWatch \/ Subscribe \/ TickOrEvent \/ LiveAttempts \/ Compared \/ Decisions \/ CommandResumes)
  BY DEF StartWatch, Subscribe, TickOrEvent, LiveAttempts, Compared, Decisions, CommandResumes
<1>4. ~\E b \in BOOLEAN : Deliver(b) \/ Relaunch(b) \/ SessionFails(b)
  BY DEF Deliver, Relaunch, SessionFails
<1>5. CASE Ask \/ \E b \in BOOLEAN : Limit(b)
  BY <1>2, <1>5 DEF Ask, Limit, crewRows, ResumerAlone
<1>6. ~\E x \in Everyone : SettleRow(x)
  BY DEF SettleRow
<1>7. ~\E w \in Crew : Compare(w)
  BY DEF Compare
<1>8. ASSUME NEW x \in Everyone, AgentExits(x) \/ Lock(x) \/ Unlock(x)
      PROVE  standing'[Chief] = "exited" /\ Chief \in locked'
  BY <1>2, <1>8 DEF AgentExits, Lock, Unlock, ResumerAlone
<1>9. ASSUME NEW x \in Everyone, CommandSettles(x) \/ CommandStops(x)
      PROVE  standing'[Chief] = "exited" /\ Chief \in locked'
  <2>1. watching = "relaunch" /\ standing[Chief] = "exited" /\ Chief \in locked
    BY <1>9 DEF CommandSettles, CommandStops, ResumerAlone
  <2>2. x # Chief /\ Chief \in locked'
    BY <1>9, <2>1 DEF CommandSettles, CommandStops
  <2>3. \E s \in {"exited", "stopped"} : standing' = [standing EXCEPT ![x] = s]
    BY <1>9 DEF CommandSettles, CommandStops
  <2> QED BY <1>0, <2>1, <2>2, <2>3, RowsType
<1> QED BY <1>1, <1>3, <1>4, <1>5, <1>6, <1>7, <1>8, <1>9 DEF AlertsNext

LEMMA AlertsStep == AlertsInv /\ [AlertsNext]_aVars => AlertsInv'
<1> SUFFICES ASSUME AlertsInv, [AlertsNext]_aVars PROVE AlertsInv'
  OBVIOUS
<1>1. CASE AlertsNext
  BY <1>1, AlertTypesStep, EndsToldStep, AsksHeardStep, LimitHeldStep, ResumerAloneStep
     DEF AlertsInv
<1>2. CASE UNCHANGED aVars
  BY <1>2, AlertsAlone
<1> QED BY <1>1, <1>2

\* An end, a decision and a stretch at a usage limit are told of once, whatever
\* commands, kills and failed sessions come between, and a supervisor the operator
\* stopped is not resumed (cli/watch.go, reconcile, deliver and autoresume).
THEOREM AlertsSafe == AlertsSpec => []AlertsSafety
  BY AlertsStarts, AlertsStep, AlertsImplies, PTL DEF AlertsSpec

-----------------------------------------------------------------------------
(* LaunchScreens: the inductive invariant *)

Past == {"taken", "dialog", "gone"}
Closing == {"keys", "trusted", "scan", "done"}
Looking == {"look", "judge", "press"}
Prefilled == harness \in Prefills
Blocking == {"unconfirmed", "unsubmitted", "stayed", "unpressed", "elsewhere"}

ScreenTypes == ScreensTypeOK /\ presses \in Nat /\ lagged \in Nat /\ drops \in Nat

\* What was read is on the screen for as long as its revision is, and what the
\* agent has taken does not come back.
Reads ==
  Stands("judge") \/ Stands("press") =>
    /\ tending.rev <= pane.rev
    /\ tending.rev = pane.rev => tending.read = pane.screen
    /\ tending.read = "taken" => pane.screen \in Past

\* A key is meant for the brief in its box, or for a question that names the folder.
Meant ==
  Stands("press") => IF Prefilled THEN tending.read = "box"
                     ELSE tending.read \in {"yes", "no"} /\ (tending.read = "no" => ~tending.moved)

\* Until the agent reacts the screen is the one that Enter was sent to.
Confirms ==
  Stands("confirm") => pane.screen \in Past \cup (IF Prefilled THEN {"box"} ELSE {"yes", "no"})

Sayings ==
  /\ tending.at \in Looking \cup {"confirm"} => tending.said = ""
  /\ tending.at \in Closing =>
       tending.said \in IF Prefilled THEN {"submitted", "unconfirmed", "unsubmitted"}
                        ELSE {"accepted", "stayed", "unpressed", "elsewhere", "unasked"}
  /\ tending.said \in {"submitted", "accepted"} => pane.screen \in Past
  /\ tending.said = "unasked" => ~tending.seen

Notings ==
  /\ tending.at \in {"scan", "done"} /\ savedTrust => "trusted" \in noted
  /\ tending.at = "done" /\ tending.said \in Blocking => "blocked" \in noted

\* An Enter of hand's is answered for, unless something was lost.
HandEnter == [by |-> "hand", key |-> "enter"]
HandMove == [by |-> "hand", key |-> "move"]
EnterSent == own \/ \E i \in 1 .. Len(pane.typed) : pane.typed[i] = HandEnter
Answering ==
  harness \in RepoNote /\ drops = 0 /\ EnterSent =>
    tending.at \in {"confirm", "off"} \/ tending.said \in {"accepted", "stayed"}

\* With no other keys, one key of hand's waits at most, before what it is meant for.
Undisturbed == presses = 0 /\ (Prefilled => ~alone /\ lagged = 0)
Waiting(k, screens) == Len(pane.typed) = 1 /\ pane.typed[1] = k /\ pane.screen \in screens \cup {"gone"}
OneKey ==
  Undisturbed =>
    /\ ~harm
    /\ \/ Len(pane.typed) = 0
       \/ ~Prefilled /\ Waiting(HandMove, {"no"}) /\ (tending.at \in Looking => tending.moved)
       \/ Waiting(HandEnter, {IF Prefilled THEN "box" ELSE "yes"}) /\ tending.at \notin Looking

ScreensInv == ScreenTypes /\ Reads /\ Meant /\ Confirms /\ Sayings /\ Notings /\ Answering /\ OneKey

LEMMA ScreensImplies == ScreensInv => ScreensSafety
<1> SUFFICES ASSUME ScreensInv PROVE ScreensSafety
  OBVIOUS
<1>0. ScreenTypes /\ Sayings /\ Notings /\ Answering /\ OneKey /\ pane.screen \in Screens
  BY DEF ScreensInv, ScreenTypes, ScreensTypeOK
<1>1. KeysMeant
  <2>1. presses \in Nat /\ lagged \in Nat /\ (Undisturbed => ~harm)
    BY <1>0 DEF ScreenTypes, OneKey
  <2>2. ~Undisturbed => presses > 0 \/ (harness \in Prefills /\ (alone \/ lagged > 0))
    BY <2>1 DEF Undisturbed, Prefilled
  <2> QED BY <2>1, <2>2 DEF KeysMeant
<1>2. NotesTrue
  <2> SUFFICES ASSUME Stands("done")
               PROVE  /\ tending.said = "submitted" => pane.screen \notin {"blank", "box"}
                      /\ tending.said = "accepted" => pane.screen \notin Asking
                      /\ own /\ harness \in RepoNote => "trusted" \in noted \/ drops > 0
                      /\ (harness \in Prefills /\ pane.screen = "box") \/ (tending.seen /\ pane.screen \in Asking)
                           => "blocked" \in noted
    BY DEF NotesTrue
  <2>1. tending.at = "done" /\ drops \in Nat
    BY <1>0 DEF Stands, ScreenTypes
  <2>2. tending.said \in {"submitted", "accepted"} => pane.screen \notin {"blank", "box"} \cup Asking
    BY <1>0 DEF Sayings, Past, Asking
  <2>3. (own /\ harness \in RepoNote) => "trusted" \in noted \/ drops > 0
    <3>1. own /\ harness \in RepoNote /\ drops = 0 => savedTrust
      BY <1>0, <2>1 DEF Answering, EnterSent, savedTrust
    <3> QED BY <1>0, <2>1, <3>1 DEF Notings
  <2>4. (harness \in Prefills /\ pane.screen = "box") \/ (tending.seen /\ pane.screen \in Asking) => "blocked" \in noted
    <3> SUFFICES ASSUME (harness \in Prefills /\ pane.screen = "box") \/ (tending.seen /\ pane.screen \in Asking)
                 PROVE  "blocked" \in noted
      OBVIOUS
    <3>1. tending.said \notin {"submitted", "accepted"}
      BY <2>2
    <3>2. tending.said = "unasked" => ~tending.seen /\ ~Prefilled
      BY <1>0, <2>1 DEF Sayings, Closing
    <3>3. tending.said \in Blocking
      BY <1>0, <2>1, <3>1, <3>2 DEF Sayings, Closing, Blocking, Prefilled
    <3> QED BY <1>0, <2>1, <3>3 DEF Notings
  <2> QED BY <2>2, <2>3, <2>4
<1> QED BY <1>0, <1>1, <1>2 DEF ScreensSafety, ScreenTypes

LEMMA ScreensStarts == ScreensInit => ScreensInv
<1> SUFFICES ASSUME ScreensInit PROVE ScreensInv
  OBVIOUS
<1>1. /\ pane = [screen |-> "blank", rev |-> 1, typed |-> <<>>]
      /\ tending = [at |-> "look", read |-> "blank", rev |-> 0, last |-> 0, seen |-> FALSE,
               quiet |-> FALSE, moved |-> FALSE, retried |-> FALSE, tries |-> 0,
               entered |-> FALSE, said |-> ""]
  BY DEF ScreensInit
<1>2. tending.at = "look" /\ tending.said = "" /\ Len(pane.typed) = 0 /\ own = FALSE /\ harm = FALSE
  <2>1. pane.typed = <<>> /\ tending.at = "look" /\ tending.said = ""
    BY <1>1
  <2>2. Len(<<>>) = 0
    OBVIOUS
  <2> QED BY <2>1, <2>2 DEF ScreensInit
<1>3. ScreenTypes
  <2>1. tending \in Run
    BY <1>1 DEF Run, Screens
  <2>2. pane \in [screen : Screens, rev : Nat, typed : Seq(Key)]
    <3>1. "blank" \in Screens /\ 1 \in Nat /\ <<>> \in Seq(Key)
      BY DEF Screens
    <3> QED BY <1>1, <3>1
  <2> QED BY <2>1, <2>2 DEF ScreensInit, ScreenTypes, ScreensTypeOK
<1>4. Reads /\ Meant /\ Confirms /\ Sayings /\ Notings
  BY <1>2 DEF Reads, Meant, Confirms, Sayings, Notings, Stands, Looking, Closing
<1>5. OneKey /\ ~EnterSent
  <2> DEFINE n == Len(pane.typed)
  <2>2. n = 0
    BY <1>2
  <2> HIDE DEF n
  <2>3. 1 .. n = {}
    BY <2>2
  <2>1. ~\E i \in 1 .. Len(pane.typed) : TRUE
    BY <2>3 DEF n
  <2> QED BY <1>2, <2>1 DEF EnterSent, OneKey
<1> QED BY <1>3, <1>4, <1>5 DEF ScreensInv, Answering

-----------------------------------------------------------------------------
(* What the agent and the operator do *)

AgentStep == (\E to \in Screens : Draw(to)) \/ TakeKey \/ DropKey \/ (\E press \in {"enter", "move"} : OperatorPresses(press))

\* A screen that went on does not go back.
Follows(s, t) ==
  /\ s \in Past => t \in Past
  /\ s = "box" => t \in Past \cup {"box"}
  /\ s \in {"yes", "no"} => t \in Past \cup {"yes", "no"}

LEMMA AgentEffect ==
  ASSUME ScreenTypes, AgentStep
  PROVE  /\ UNCHANGED <<harness, trouble, tending, noted, lagged>>
         /\ pane' \in [screen : Screens, rev : Nat, typed : Seq(Key)]
         /\ Follows(pane.screen, pane'.screen)
         /\ (pane'.screen = pane.screen /\ pane'.rev = pane.rev) \/ pane'.rev = pane.rev + 1
         /\ presses' \in Nat /\ drops' \in Nat /\ harm' \in BOOLEAN /\ own' \in BOOLEAN /\ alone' \in BOOLEAN
         /\ presses <= presses' /\ drops <= drops' /\ (alone => alone')
<1>0. pane \in [screen : Screens, rev : Nat, typed : Seq(Key)] /\ presses \in Nat /\ drops \in Nat
      /\ harm \in BOOLEAN /\ own \in BOOLEAN /\ alone \in BOOLEAN
  BY DEF ScreenTypes, ScreensTypeOK
<1>1. ASSUME NEW to \in Screens, Draw(to)
      PROVE  /\ pane' \in [screen : Screens, rev : Nat, typed : Seq(Key)]
             /\ Follows(pane.screen, pane'.screen) /\ pane'.rev = pane.rev + 1
             /\ alone' \in BOOLEAN /\ (alone => alone')
             /\ UNCHANGED <<harness, trouble, tending, noted, harm, own, presses, lagged, drops>>
  <2>1. pane' = [pane EXCEPT !.screen = to, !.rev = @ + 1] /\ alone' \in BOOLEAN /\ (alone => alone')
    BY <1>0, <1>1 DEF Draw
  <2>2. pane'.screen = to /\ pane'.rev = pane.rev + 1 /\ pane' \in [screen : Screens, rev : Nat, typed : Seq(Key)]
    <3>1. pane' = [screen |-> to, rev |-> pane.rev + 1, typed |-> pane.typed]
      BY <1>0, <2>1
    <3>2. pane.typed \in Seq(Key) /\ pane.rev + 1 \in Nat
      BY <1>0
    <3> QED BY <3>1, <3>2
  <2>3. Follows(pane.screen, to)
    BY <1>1 DEF Draw, Draws, Follows, Past
  <2> QED BY <1>1, <2>1, <2>2, <2>3 DEF Draw, bounded
<1>2. CASE TakeKey
  <2> DEFINE k == Head(pane.typed)
  <2>1. k \in Key /\ Tail(pane.typed) \in Seq(Key)
    BY <1>0, <1>2 DEF TakeKey
  <2>2. pane' = [screen |-> Answered(pane.screen, k.key), rev |-> pane.rev + 1, typed |-> Tail(pane.typed)]
    BY <1>2 DEF TakeKey
  <2>3. harm' \in BOOLEAN /\ own' \in BOOLEAN
    BY <1>0, <1>2 DEF TakeKey
  <2> HIDE DEF k
  <2>4. Answered(pane.screen, k.key) \in Screens /\ Follows(pane.screen, Answered(pane.screen, k.key))
    BY <1>0 DEF Answered, Follows, Past, Screens, Asking
  <2> QED BY <1>0, <1>2, <2>1, <2>2, <2>3, <2>4 DEF TakeKey, bounded
<1>3. CASE DropKey
  <2>1. pane' = [pane EXCEPT !.typed = Tail(@)] /\ Tail(pane.typed) \in Seq(Key) /\ drops' = drops + 1
    BY <1>0, <1>3 DEF DropKey, Lost
  <2>2. pane' \in [screen : Screens, rev : Nat, typed : Seq(Key)] /\ pane'.screen = pane.screen /\ pane'.rev = pane.rev
    BY <1>0, <2>1
  <2>3. Follows(pane.screen, pane.screen)
    BY DEF Follows
  <2> QED BY <1>0, <1>3, <2>1, <2>2, <2>3 DEF DropKey
<1>4. ASSUME NEW press \in {"enter", "move"}, OperatorPresses(press)
      PROVE  /\ pane' \in [screen : Screens, rev : Nat, typed : Seq(Key)]
             /\ pane'.screen = pane.screen /\ pane'.rev = pane.rev /\ presses' = presses + 1
             /\ UNCHANGED <<harness, trouble, tending, noted, harm, own, alone, lagged, drops>>
  <2> DEFINE k == [by |-> "operator", key |-> press]
  <2>1. k \in Key
    BY DEF Key
  <2>2. pane' = [pane EXCEPT !.typed = Append(@, k)]
    BY <1>4 DEF OperatorPresses
  <2> HIDE DEF k
  <2>3. pane' \in [screen : Screens, rev : Nat, typed : Seq(Key)] /\ pane'.screen = pane.screen /\ pane'.rev = pane.rev
    <3>1. pane' = [screen |-> pane.screen, rev |-> pane.rev, typed |-> Append(pane.typed, k)]
      BY <1>0, <2>2
    <3>2. Append(pane.typed, k) \in Seq(Key)
      BY <1>0, <2>1
    <3> QED BY <1>0, <3>1, <3>2
  <2> QED BY <1>4, <2>3 DEF OperatorPresses
<1>5. Follows(pane.screen, pane.screen)
  BY DEF Follows
<1> QED BY <1>0, <1>1, <1>2, <1>3, <1>4, <1>5 DEF AgentStep

-----------------------------------------------------------------------------
(* What afterLaunch does *)

HandStep ==
  \/ ReadScreen \/ LookEnds \/ submitPrefilled \/ acceptTrust
  \/ Press \/ Conflict \/ PressFails \/ Reacted \/ NoReaction
  \/ NoteKeys \/ NoteTrusted \/ NoteBlocked \/ LaunchKilled

\* Where the run goes on, with what it has read and sent.
RunGoes(at) == tending' \in Run /\ tending'.at = at /\ tending'.rev = tending.rev /\ tending'.read = tending.read
\* The run is over, and something is said.
Says(said) == RunGoes("keys") /\ tending'.said = said /\ (said = "unasked" => ~tending'.seen)
SameScreen == UNCHANGED <<harness, trouble, pane, harm, own, alone>>

LEMMA RunType ==
  ASSUME ScreenTypes
  PROVE  /\ tending = [at |-> tending.at, read |-> tending.read, rev |-> tending.rev, last |-> tending.last,
                       seen |-> tending.seen, quiet |-> tending.quiet, moved |-> tending.moved, retried |-> tending.retried,
                       tries |-> tending.tries, entered |-> tending.entered, said |-> tending.said]
         /\ tending \in Run /\ tending.rev \in Nat /\ tending.read \in Screens
         /\ pane.rev \in Nat /\ pane.screen \in Screens /\ pane.typed \in Seq(Key)
  BY DEF ScreenTypes, ScreensTypeOK, Run

LEMMA FinishEffect ==
  ASSUME NEW r \in Run, NEW said \in {"submitted", "unconfirmed", "unsubmitted", "accepted", "stayed",
                "unpressed", "elsewhere", "unasked"}, Finish(r, said)
  PROVE  /\ tending' \in Run /\ tending'.at = "keys" /\ tending'.said = said /\ tending'.seen = r.seen
         /\ tending'.rev = r.rev /\ tending'.read = r.read
         /\ UNCHANGED <<harness, trouble, noted>>
  BY DEF Finish, Turns, Run

LEMMA MissedIs ==
  /\ missed \in {"submitted", "unconfirmed", "unsubmitted", "accepted", "stayed", "unpressed", "elsewhere", "unasked"}
  /\ missed \in IF Prefilled THEN {"unconfirmed", "unsubmitted"} ELSE {"unpressed", "unasked"}
  /\ missed = "unasked" => ~tending.seen
  BY DEF missed, Prefilled

Sayable == IF Prefilled THEN {"submitted", "unconfirmed", "unsubmitted"}
         ELSE {"accepted", "stayed", "unpressed", "elsewhere", "unasked"}

\* Looking: nothing is sent, and the question or the brief is read, or the
\* looking is over.
LEMMA LookEffect ==
  ASSUME ScreenTypes, Sayings, ReadScreen \/ LookEnds \/ submitPrefilled \/ acceptTrust \/ Conflict
  PROVE  /\ UNCHANGED <<harness, trouble, noted, pane, harm, own, alone, presses, lagged, drops>> /\ tending' \in Run
         /\ tending.at \in Looking /\ tending'.moved = tending.moved
         /\ \/ /\ tending'.at \in Looking /\ tending'.said = ""
               /\ tending'.at = "judge" => tending'.read = pane.screen /\ tending'.rev = pane.rev
               /\ tending'.at = "press" => /\ tending.at = "judge" /\ tending'.read = tending.read /\ tending'.rev = tending.rev
                                           /\ IF Prefilled THEN tending.read = "box"
                                              ELSE tending.read \in {"yes", "no"} /\ (tending.read = "no" => ~tending.moved)
            \/ /\ tending'.at = "keys" /\ tending'.said \in Sayable \ {"accepted", "stayed"}
               /\ tending'.said = "unasked" => ~tending'.seen
               /\ tending'.said = "submitted" => pane.screen \in Past \/ (tending.at = "judge" /\ tending.read = "taken")
<1>0. tending \in Run /\ tending.at \in Looking => tending.said = ""
  BY RunType DEF Sayings
<1>00. tending \in Run /\ pane.screen \in Screens /\ pane.rev \in Nat
  BY RunType
<1>1. CASE ReadScreen
  <2>1. tending' = [tending EXCEPT !.at = "judge", !.read = pane.screen, !.rev = pane.rev] /\ UNCHANGED <<harness, trouble, noted>>
    BY <1>1 DEF ReadScreen, Turns
  <2>2. tending' \in Run /\ tending'.at = "judge" /\ tending'.read = pane.screen /\ tending'.rev = pane.rev
        /\ tending'.moved = tending.moved /\ tending'.said = tending.said
    BY <1>00, <2>1 DEF Run
  <2> QED BY <1>0, <1>00, <1>1, <2>1, <2>2 DEF ReadScreen, Stands, Looking, agentVars, bounded
<1>2. CASE LookEnds
  <2>1. Finish(tending, missed) /\ tending.at = "look"
    BY <1>2 DEF LookEnds, Stands
  <2>2. /\ tending' \in Run /\ tending'.at = "keys" /\ tending'.said = missed /\ tending'.seen = tending.seen
        /\ UNCHANGED <<harness, trouble, noted>>
    BY <1>00, <2>1, MissedIs, FinishEffect
  <2>3. tending'.moved = tending.moved
    BY <1>00, <2>1 DEF Finish, Turns, Run
  <2> QED BY <1>2, <2>1, <2>2, <2>3, MissedIs DEF LookEnds, Sayable, Looking, agentVars, bounded
<1>3. CASE submitPrefilled
  <2>0. tending.at = "judge" /\ Prefilled /\ UNCHANGED <<pane, harm, own, alone, presses, lagged, drops>>
    BY <1>3 DEF submitPrefilled, Stands, Prefilled, agentVars, bounded
  <2>1. CASE (opencodeSubmitted \/ (emptyInputBox /\ ran)) /\ Finish(tending, "submitted")
    <3>1. /\ tending' \in Run /\ tending'.at = "keys" /\ tending'.said = "submitted" /\ UNCHANGED <<harness, trouble, noted>>
      BY <1>00, <2>1, FinishEffect
    <3>2. tending'.moved = tending.moved
      BY <1>00, <2>1 DEF Finish, Turns, Run
    <3>3. pane.screen \in Past \/ tending.read = "taken"
      BY <2>1 DEF opencodeSubmitted, emptyInputBox, Past
    <3> QED BY <2>0, <3>1, <3>2, <3>3 DEF Sayable, Looking
  <2>2. CASE markerInInputBox /\ idle /\ Turns([tending EXCEPT !.at = "press"])
    <3>1. /\ tending' \in Run /\ tending'.at = "press" /\ tending'.said = tending.said /\ tending'.moved = tending.moved
          /\ tending'.read = tending.read /\ tending'.rev = tending.rev /\ UNCHANGED <<harness, trouble, noted>>
      BY <1>00, <2>2 DEF Turns, Run
    <3>2. tending.read = "box"
      BY <2>2 DEF markerInInputBox
    <3> QED BY <1>0, <1>00, <2>0, <3>1, <3>2 DEF Looking
  <2>3. CASE Turns([tending EXCEPT !.at = "look"])
    <3>1. /\ tending' \in Run /\ tending'.at = "look" /\ tending'.said = tending.said /\ tending'.moved = tending.moved
          /\ UNCHANGED <<harness, trouble, noted>>
      BY <1>00, <2>3 DEF Turns, Run
    <3> QED BY <1>0, <1>00, <2>0, <3>1 DEF Looking
  <2> QED BY <1>3, <2>1, <2>2, <2>3 DEF submitPrefilled
<1>4. CASE acceptTrust
  <2> DEFINE read == tending.read
             asked == read \in Asking
             ready == read \in {"yes", "other"} \/ (read = "no" /\ ~tending.moved)
             seen == tending.seen \/ asked
             calm == ~ready /\ ~asked /\ read # "blank"
             next == [tending EXCEPT !.at = "look", !.seen = seen, !.last = tending.rev, !.quiet = calm]
  <2>0. tending.at = "judge" /\ ~Prefilled /\ UNCHANGED <<pane, harm, own, alone, presses, lagged, drops>>
    BY <1>4 DEF acceptTrust, Stands, Prefilled, agentVars, bounded, trustScreens, Prefills
  <2>1. /\ seen \in BOOLEAN /\ calm \in BOOLEAN
        /\ ready /\ names(read) => read \in {"yes", "no"} /\ (read = "no" => ~tending.moved)
    BY <1>00 DEF names, Run
  <2>2. \/ Turns([next EXCEPT !.quiet = FALSE])
        \/ Finish(next, "elsewhere")
        \/ ready /\ names(read) /\ Turns([next EXCEPT !.at = "press"])
        \/ Turns(next)
        \/ Finish(next, IF next.seen THEN "unpressed" ELSE "unasked")
    BY <1>4 DEF acceptTrust
  <2>3. names(read) /\ ready => read \in {"yes", "no"} /\ (read = "no" => ~tending.moved)
    BY <2>1
  <2> HIDE DEF seen, calm, ready
  <2>4. next \in Run /\ next.at = "look" /\ next.said = tending.said /\ next.moved = tending.moved /\ next.seen = seen
        /\ next.read = tending.read /\ next.rev = tending.rev
    BY <1>00, <2>1 DEF Run
  <2>5. CASE Turns([next EXCEPT !.quiet = FALSE]) \/ Turns(next)
    <3>1. /\ tending' \in Run /\ tending'.at = "look" /\ tending'.said = tending.said /\ tending'.moved = tending.moved
          /\ UNCHANGED <<harness, trouble, noted>>
      <4> HIDE DEF next
      <4> QED BY <2>4, <2>5 DEF Turns, Run
    <3> QED BY <1>0, <1>00, <2>0, <3>1 DEF Looking
  <2>6. CASE Finish(next, "elsewhere")
    <3>1. /\ tending' \in Run /\ tending'.at = "keys" /\ tending'.said = "elsewhere" /\ tending'.moved = tending.moved
          /\ UNCHANGED <<harness, trouble, noted>>
      <4> HIDE DEF next
      <4> QED BY <2>4, <2>6 DEF Finish, Turns, Run
    <3> QED BY <2>0, <3>1 DEF Sayable, Looking
  <2>7. CASE ready /\ names(read) /\ Turns([next EXCEPT !.at = "press"])
    <3>1. /\ tending' \in Run /\ tending'.at = "press" /\ tending'.said = tending.said /\ tending'.moved = tending.moved
          /\ tending'.read = tending.read /\ tending'.rev = tending.rev /\ UNCHANGED <<harness, trouble, noted>>
      <4> HIDE DEF next
      <4> QED BY <2>4, <2>7 DEF Turns, Run
    <3> QED BY <1>0, <1>00, <2>0, <2>3, <2>7, <3>1 DEF Looking
  <2>8. CASE Finish(next, IF next.seen THEN "unpressed" ELSE "unasked")
    <3> DEFINE word == IF next.seen THEN "unpressed" ELSE "unasked"
    <3>1. word \in {"unpressed", "unasked"} /\ (word = "unasked" => ~next.seen)
      OBVIOUS
    <3>2. Finish(next, word)
      BY <2>8
    <3> HIDE DEF word, next
    <3>3. /\ tending' \in Run /\ tending'.at = "keys" /\ tending'.said = word /\ tending'.moved = tending.moved
          /\ tending'.seen = next.seen /\ UNCHANGED <<harness, trouble, noted>>
      BY <2>4, <3>1, <3>2 DEF Finish, Turns, Run
    <3> QED BY <2>0, <3>1, <3>3 DEF Sayable, Looking
  <2> QED BY <2>2, <2>5, <2>6, <2>7, <2>8
<1>5. CASE Conflict
  <2>0. tending.at = "press" /\ UNCHANGED <<pane, harm, own, alone, presses, lagged, drops>>
    BY <1>5 DEF Conflict, Stands, agentVars, bounded
  <2>1. CASE harness \in trustScreens /\ Finish(tending, "unpressed")
    <3>1. /\ tending' \in Run /\ tending'.at = "keys" /\ tending'.said = "unpressed" /\ UNCHANGED <<harness, trouble, noted>>
      BY <1>00, <2>1, FinishEffect
    <3>2. tending'.moved = tending.moved
      BY <1>00, <2>1 DEF Finish, Turns, Run
    <3>3. ~Prefilled
      BY <2>1 DEF Prefilled, trustScreens, Prefills
    <3> QED BY <2>0, <3>1, <3>2, <3>3 DEF Sayable, Looking
  <2>2. CASE Turns([tending EXCEPT !.at = "look", !.retried = TRUE])
    <3>1. /\ tending' \in Run /\ tending'.at = "look" /\ tending'.said = tending.said /\ tending'.moved = tending.moved
          /\ UNCHANGED <<harness, trouble, noted>>
      BY <1>00, <2>2 DEF Turns, Run
    <3> QED BY <1>0, <1>00, <2>0, <3>1 DEF Looking
  <2> QED BY <1>5, <2>1, <2>2 DEF Conflict
<1> QED BY <1>1, <1>2, <1>3, <1>4, <1>5

\* Pressing: what is sent is waited for, or was lost.
TypedKey(k) ==
  pane'.screen = pane.screen /\ pane'.rev = pane.rev /\ pane'.typed = Append(pane.typed, k)

LEMMA TypedEffect ==
  ASSUME ScreenTypes, pane' = Typed
  PROVE  /\ pane' \in [screen : Screens, rev : Nat, typed : Seq(Key)]
         /\ TypedKey(IF ByEnter THEN HandEnter ELSE HandMove)
<1> DEFINE k == [by |-> "hand", key |-> IF ByEnter THEN "enter" ELSE "move"]
<1>1. k \in Key /\ k = IF ByEnter THEN HandEnter ELSE HandMove
  BY DEF Key, HandEnter, HandMove
<1>2. pane' = [pane EXCEPT !.typed = Append(@, k)]
  BY DEF Typed
<1> HIDE DEF k
<1>3. pane' = [screen |-> pane.screen, rev |-> pane.rev, typed |-> Append(pane.typed, k)]
  BY <1>2 DEF ScreenTypes, ScreensTypeOK
<1>4. Append(pane.typed, k) \in Seq(Key)
  BY <1>1, RunType
<1>5. pane' \in [screen : Screens, rev : Nat, typed : Seq(Key)] /\ TypedKey(k)
  BY <1>3, <1>4, RunType DEF TypedKey
<1> QED BY <1>1, <1>5

LEMMA PressEffect ==
  ASSUME ScreenTypes, Sayings, Press
  PROVE  /\ UNCHANGED <<harness, trouble, noted, harm, own, alone, presses, lagged, drops>> /\ tending' \in Run
         /\ pane' \in [screen : Screens, rev : Nat, typed : Seq(Key)] /\ tending.at = "press" /\ tending.rev = pane.rev
         /\ tending'.said = "" /\ pane.screen # "gone"
         /\ \/ tending.read # "no" /\ tending'.at = "confirm" /\ TypedKey(HandEnter)
            \/ tending.read = "no" /\ tending'.at = "look" /\ tending'.moved /\ TypedKey(HandMove)
<1>0. tending.at = "press" /\ tending.said = "" /\ tending.rev = pane.rev /\ pane.screen # "gone"
  BY DEF Press, Stands, Sayings, Looking, KeysTaken
<1>1. /\ pane' \in [screen : Screens, rev : Nat, typed : Seq(Key)]
      /\ TypedKey(IF ByEnter THEN HandEnter ELSE HandMove)
  BY TypedEffect DEF Press
<1>2. UNCHANGED <<harness, trouble, noted, harm, own, alone, presses, lagged, drops>> /\ tending' = Sent
  BY DEF Press, Turns, bounded
<1> DEFINE at == IF ByEnter THEN "confirm" ELSE "look"
           tries == IF harness \in Prefills THEN tending.tries + 1 ELSE tending.tries
           entered == tending.entered \/ ByEnter
           stepped == tending.moved \/ ~ByEnter
<1>3. at \in {"confirm", "look"} /\ tries \in Nat /\ entered \in BOOLEAN /\ stepped \in BOOLEAN /\ (~ByEnter => stepped)
  <2>1. tending.tries \in Nat /\ tending.entered \in BOOLEAN /\ tending.moved \in BOOLEAN
    BY RunType DEF Run
  <2>2. tries \in Nat
    BY <2>1
  <2>3. entered \in BOOLEAN /\ stepped \in BOOLEAN /\ (~ByEnter => stepped)
    BY Zenon
  <2>4. at \in {"confirm", "look"}
    OBVIOUS
  <2> QED BY <2>2, <2>3, <2>4
<1>4. tending' = [tending EXCEPT !.at = at, !.tries = tries, !.entered = entered, !.moved = stepped, !.retried = FALSE]
  BY <1>2 DEF Sent
<1>5. ByEnter <=> tending.read # "no"
  BY DEF ByEnter
<1>6. at = "confirm" <=> ByEnter
  OBVIOUS
<1> HIDE DEF at, tries, entered, stepped
<1>7. tending' \in Run /\ tending'.at = at /\ tending'.moved = stepped /\ tending'.said = tending.said
  BY ZenonT(40), <1>3, <1>4, RunType DEF Run
<1> QED BY <1>0, <1>1, <1>2, <1>3, <1>5, <1>6, <1>7

LEMMA PressFailsEffect ==
  ASSUME ScreenTypes, Sayings, PressFails
  PROVE  /\ UNCHANGED <<harness, trouble, noted, harm, own, alone, presses, lagged>> /\ tending' \in Run
         /\ pane' \in [screen : Screens, rev : Nat, typed : Seq(Key)] /\ tending.at = "press"
         /\ tending'.at = "keys" /\ tending'.said \in Sayable \ {"submitted", "accepted", "stayed"}
         /\ tending'.said = "unasked" => ~tending'.seen
         /\ drops' \in Nat /\ drops <= drops'
         /\ \/ UNCHANGED pane
            \/ /\ drops' = drops + 1 /\ tending.rev = pane.rev
               /\ TypedKey(IF ByEnter THEN HandEnter ELSE HandMove)
<1>0. tending.at = "press" /\ drops \in Nat
  BY DEF PressFails, Stands, ScreenTypes
<1> DEFINE word == IF harness \in Prefills THEN missed ELSE "unpressed"
<1>1. /\ word \in {"submitted", "unconfirmed", "unsubmitted", "accepted", "stayed", "unpressed", "elsewhere", "unasked"}
      /\ word \in Sayable \ {"submitted", "accepted", "stayed"} /\ word # "unasked"
  BY MissedIs DEF Sayable, Prefilled
<1>2. Finish(tending, word)
  BY DEF PressFails
<1> HIDE DEF word
<1>3. tending' \in Run /\ tending'.at = "keys" /\ tending'.said = word /\ UNCHANGED <<harness, trouble, noted>>
  BY <1>1, <1>2, FinishEffect, RunType
<1>4. /\ pane' \in [screen : Screens, rev : Nat, typed : Seq(Key)] /\ drops' \in Nat /\ drops <= drops'
      /\ \/ UNCHANGED pane
         \/ /\ drops' = drops + 1 /\ tending.rev = pane.rev
            /\ TypedKey(IF ByEnter THEN HandEnter ELSE HandMove)
  <2>1. CASE UNCHANGED pane
    <3>1. UNCHANGED drops \/ drops' = drops + 1
      BY DEF PressFails, Lost
    <3> QED BY <1>0, <2>1, <3>1 DEF ScreenTypes, ScreensTypeOK
  <2>2. CASE Lost /\ KeysTaken /\ pane' = Typed
    BY <1>0, <2>2, TypedEffect DEF Lost, KeysTaken
  <2> QED BY <2>1, <2>2 DEF PressFails
<1>5. UNCHANGED <<harm, own, alone, presses, lagged>>
  BY DEF PressFails
<1> QED BY <1>0, <1>1, <1>3, <1>4, <1>5

\* The agent is waited for.
LEMMA ConfirmEffect ==
  ASSUME ScreenTypes, Sayings, Confirms, Reacted \/ NoReaction
  PROVE  /\ UNCHANGED <<harness, trouble, noted, pane, harm, own, alone, presses, drops>> /\ tending' \in Run
         /\ tending.at = "confirm" /\ lagged' \in Nat /\ lagged <= lagged'
         /\ \/ /\ tending'.at = "keys" /\ tending'.said \in Sayable \ {"unasked"}
               /\ tending'.said \in {"submitted", "accepted"} => pane.screen \in Past
               /\ ~Prefilled => tending'.said \in {"accepted", "stayed"}
            \/ /\ Prefilled /\ tending'.at = "look" /\ tending'.said = ""
               /\ lagged' # 0 \/ Len(pane.typed) = 0
<1>0. tending.at = "confirm" /\ tending.said = "" /\ lagged \in Nat /\ pane.screen \in Screens /\ tending \in Run
      /\ pane.screen \in Past \cup (IF Prefilled THEN {"box"} ELSE {"yes", "no"})
  BY RunType DEF Reacted, NoReaction, Stands, Sayings, ScreenTypes, Confirms
<1>4. lagged \in Nat
  BY DEF ScreenTypes
<1>1. CASE Reacted
  <2> DEFINE word == IF Prefilled THEN "submitted" ELSE "accepted"
  <2>1. Finish(tending, word) /\ IF Prefilled THEN leftIdle ELSE trustCleared
    BY <1>1 DEF Reacted, Prefilled
  <2>2. word \in {"submitted", "accepted"} /\ word \in Sayable \ {"unasked"} /\ (~Prefilled => word = "accepted")
    BY DEF Sayable
  <2>3. pane.screen \in Past
    BY <1>0, <2>1 DEF leftIdle, trustCleared, Explain, Asking, Past
  <2> HIDE DEF word
  <2>4. tending' \in Run /\ tending'.at = "keys" /\ tending'.said = word /\ UNCHANGED <<harness, trouble, noted>>
    BY <1>0, <2>1, <2>2, FinishEffect
  <2>5. UNCHANGED <<pane, harm, own, alone, presses, lagged, drops>>
    BY <1>1 DEF Reacted, agentVars, bounded
  <2>6. lagged' \in Nat /\ lagged <= lagged'
    BY <1>4, <2>5
  <2>7. tending'.said \in Sayable \ {"unasked"} /\ (~Prefilled => tending'.said \in {"accepted", "stayed"})
    BY <2>2, <2>4
  <2> QED BY <1>0, <2>3, <2>4, <2>5, <2>6, <2>7
<1>2. CASE NoReaction
  <2>1. UNCHANGED <<pane, harm, own, alone, presses, drops>> /\ lagged' = IF pane.typed # <<>> THEN lagged + 1 ELSE lagged
    BY <1>2 DEF NoReaction, agentVars
  <2>2. lagged' \in Nat /\ lagged <= lagged' /\ (lagged' # 0 \/ pane.typed = <<>>)
    <3>1. CASE pane.typed = <<>>
      BY <1>4, <2>1, <3>1
    <3>2. CASE pane.typed # <<>>
      <4>1. lagged' = lagged + 1
        BY <2>1, <3>2
      <4> QED BY <1>4, <4>1
    <3> QED BY <3>1, <3>2
  <2>3. pane.typed = <<>> => Len(pane.typed) = 0
    BY RunType
  <2>4. \/ ~Prefilled /\ Finish(tending, "stayed")
        \/ Prefilled /\ (Finish(tending, "unconfirmed") \/ Turns([tending EXCEPT !.at = "look"]))
    BY <1>2 DEF NoReaction, Prefilled
  <2>5. CASE ~Prefilled /\ Finish(tending, "stayed")
    <3>1. tending' \in Run /\ tending'.at = "keys" /\ tending'.said = "stayed" /\ UNCHANGED <<harness, trouble, noted>>
      BY <1>0, <2>5, FinishEffect
    <3> QED BY <1>0, <2>1, <2>2, <2>5, <3>1 DEF Sayable
  <2>6. CASE Prefilled /\ Finish(tending, "unconfirmed")
    <3>1. tending' \in Run /\ tending'.at = "keys" /\ tending'.said = "unconfirmed" /\ UNCHANGED <<harness, trouble, noted>>
      BY <1>0, <2>6, FinishEffect
    <3> QED BY <1>0, <2>1, <2>2, <2>6, <3>1 DEF Sayable
  <2>7. CASE Prefilled /\ Turns([tending EXCEPT !.at = "look"])
    <3>1. tending' \in Run /\ tending'.at = "look" /\ tending'.said = tending.said /\ UNCHANGED <<harness, trouble, noted>>
      BY <1>0, <2>7 DEF Turns, Run
    <3> QED BY <1>0, <2>1, <2>2, <2>3, <2>7, <3>1
  <2> QED BY <2>4, <2>5, <2>6, <2>7
<1> QED BY <1>1, <1>2

\* The notes.
LEMMA NoteEffect ==
  ASSUME ScreenTypes, NoteKeys \/ NoteTrusted \/ NoteBlocked \/ LaunchKilled
  PROVE  /\ UNCHANGED <<harness, trouble, pane, harm, own, alone, presses, lagged, drops>> /\ tending' \in Run
         /\ noted \subseteq noted' /\ noted' \subseteq {"keys", "trusted", "blocked"}
         /\ UNCHANGED tending.said /\ UNCHANGED tending.seen /\ tending'.at \notin Looking \cup {"confirm"}
         /\ \/ tending'.at = "off"
            \/ tending.at = "keys" /\ tending'.at = "trusted"
            \/ tending.at = "trusted" /\ tending'.at = "scan" /\ (savedTrust => "trusted" \in noted')
            \/ tending.at = "scan" /\ tending'.at = "done" /\ (tending.said \in Blocking => "blocked" \in noted')
<1>0. tending \in Run /\ noted \subseteq {"keys", "trusted", "blocked"}
  BY RunType DEF ScreenTypes, ScreensTypeOK
<1>1. CASE NoteKeys
  <2>1. tending' = [tending EXCEPT !.at = "trusted"] /\ tending.at = "keys"
    BY <1>1 DEF NoteKeys, Stands
  <2>2. tending' \in Run /\ tending'.at = "trusted" /\ tending'.said = tending.said /\ tending'.seen = tending.seen
    BY <1>0, <2>1 DEF Run
  <2>3. noted \subseteq noted' /\ noted' \subseteq {"keys", "trusted", "blocked"}
    BY <1>0, <1>1 DEF NoteKeys
  <2> QED BY <1>1, <2>1, <2>2, <2>3 DEF NoteKeys, agentVars, bounded, Looking
<1>2. CASE NoteTrusted
  <2>1. tending' = [tending EXCEPT !.at = "scan"] /\ tending.at = "trusted"
    BY <1>2 DEF NoteTrusted, Stands
  <2>2. tending' \in Run /\ tending'.at = "scan" /\ tending'.said = tending.said /\ tending'.seen = tending.seen
    BY <1>0, <2>1 DEF Run
  <2>3. noted \subseteq noted' /\ noted' \subseteq {"keys", "trusted", "blocked"} /\ (savedTrust => "trusted" \in noted')
    BY <1>0, <1>2 DEF NoteTrusted
  <2> QED BY <1>2, <2>1, <2>2, <2>3 DEF NoteTrusted, agentVars, bounded, Looking
<1>3. CASE NoteBlocked
  <2>1. tending' = [tending EXCEPT !.at = "done"] /\ tending.at = "scan"
    BY <1>3 DEF NoteBlocked, Stands
  <2>2. tending' \in Run /\ tending'.at = "done" /\ tending'.said = tending.said /\ tending'.seen = tending.seen
    BY <1>0, <2>1 DEF Run
  <2>3. noted \subseteq noted' /\ noted' \subseteq {"keys", "trusted", "blocked"} /\ (tending.said \in Blocking => "blocked" \in noted')
    BY <1>0, <1>3 DEF NoteBlocked, Blocking
  <2> QED BY <1>3, <2>1, <2>2, <2>3 DEF NoteBlocked, agentVars, bounded, Looking
<1>4. CASE LaunchKilled
  <2>1. tending' \in Run /\ tending'.at = "off" /\ tending'.said = tending.said /\ tending'.seen = tending.seen
        /\ UNCHANGED <<harness, trouble, noted>>
    BY <1>0, <1>4 DEF LaunchKilled, Turns, Run
  <2> QED BY <1>0, <1>4, <2>1 DEF LaunchKilled, agentVars, bounded, Looking
<1> QED BY <1>1, <1>2, <1>3, <1>4


-----------------------------------------------------------------------------
(* LaunchScreens: every step keeps every part of the invariant *)

LookStep == ReadScreen \/ LookEnds \/ submitPrefilled \/ acceptTrust \/ Conflict
ConfirmStep == Reacted \/ NoReaction
NoteStep == NoteKeys \/ NoteTrusted \/ NoteBlocked \/ LaunchKilled

LEMMA ScreensSteps == ScreensNext => AgentStep \/ LookStep \/ Press \/ PressFails \/ ConfirmStep \/ NoteStep
  BY DEF ScreensNext, AgentStep, LookStep, ConfirmStep, NoteStep

\* The harness stays, and what limits an innocent run only grows.
LEMMA ScreensKept ==
  ASSUME ScreenTypes, Sayings, Confirms, ScreensNext
  PROVE  /\ harness' = harness /\ ScreenTypes'
         /\ presses' \in Nat /\ presses <= presses' /\ drops' \in Nat /\ drops <= drops'
         /\ lagged' \in Nat /\ lagged <= lagged' /\ (alone => alone')
<1>0. presses \in Nat /\ drops \in Nat /\ lagged \in Nat
  BY DEF ScreenTypes
<1>1. presses <= presses /\ drops <= drops /\ lagged <= lagged
  BY <1>0
<1>2. harness' = harness
  <2>1. AgentStep \/ LookStep => harness' = harness
    BY AgentEffect, LookEffect DEF LookStep
  <2>2. Press \/ PressFails => harness' = harness
    BY PressEffect, PressFailsEffect
  <2>3. ConfirmStep \/ NoteStep => harness' = harness
    BY ConfirmEffect, NoteEffect DEF ConfirmStep, NoteStep
  <2> QED BY <2>1, <2>2, <2>3, ScreensSteps
<1>3. tending' \in Run /\ pane' \in [screen : Screens, rev : Nat, typed : Seq(Key)] /\ noted' \subseteq {"keys", "trusted", "blocked"}
  <2>1. /\ tending \in Run /\ pane \in [screen : Screens, rev : Nat, typed : Seq(Key)]
        /\ noted \subseteq {"keys", "trusted", "blocked"}
    BY DEF ScreenTypes, ScreensTypeOK
  <2>2. CASE AgentStep \/ LookStep
    BY <2>1, <2>2, AgentEffect, LookEffect DEF LookStep
  <2>3. CASE Press \/ PressFails
    BY <2>1, <2>3, PressEffect, PressFailsEffect
  <2>4. CASE ConfirmStep \/ NoteStep
    BY <2>1, <2>4, ConfirmEffect, NoteEffect DEF ConfirmStep, NoteStep
  <2> QED BY <2>2, <2>3, <2>4, ScreensSteps
<1>4. harm' \in BOOLEAN /\ own' \in BOOLEAN /\ alone' \in BOOLEAN /\ (alone => alone')
  <2>1. harm \in BOOLEAN /\ own \in BOOLEAN /\ alone \in BOOLEAN
    BY DEF ScreenTypes, ScreensTypeOK
  <2>2. CASE AgentStep
    BY <2>2, AgentEffect
  <2>3. ~AgentStep => UNCHANGED <<harm, own, alone>>
    <3>1. LookStep \/ Press \/ PressFails => UNCHANGED <<harm, own, alone>>
      BY LookEffect, PressEffect, PressFailsEffect DEF LookStep
    <3>2. ConfirmStep \/ NoteStep => UNCHANGED <<harm, own, alone>>
      BY ConfirmEffect, NoteEffect DEF ConfirmStep, NoteStep
    <3> QED BY <3>1, <3>2, ScreensSteps
  <2> QED BY <2>1, <2>2, <2>3
<1>5. presses' \in Nat /\ presses <= presses'
  <2>1. ~AgentStep => presses' = presses
    <3>1. LookStep \/ Press \/ PressFails => presses' = presses
      BY LookEffect, PressEffect, PressFailsEffect DEF LookStep
    <3>2. ConfirmStep \/ NoteStep => presses' = presses
      BY ConfirmEffect, NoteEffect DEF ConfirmStep, NoteStep
    <3> QED BY <3>1, <3>2, ScreensSteps
  <2>2. CASE AgentStep
    BY <2>2, AgentEffect
  <2> QED BY <1>0, <1>1, <2>1, <2>2
<1>6. drops' \in Nat /\ drops <= drops'
  <2>1. ~AgentStep /\ ~PressFails => drops' = drops
    <3>1. LookStep \/ Press => drops' = drops
      BY LookEffect, PressEffect DEF LookStep
    <3>2. ConfirmStep \/ NoteStep => drops' = drops
      BY ConfirmEffect, NoteEffect DEF ConfirmStep, NoteStep
    <3> QED BY <3>1, <3>2, ScreensSteps
  <2>2. CASE AgentStep \/ PressFails
    BY <2>2, AgentEffect, PressFailsEffect
  <2> QED BY <1>0, <1>1, <2>1, <2>2
<1>7. lagged' \in Nat /\ lagged <= lagged'
  <2>1. ~ConfirmStep => lagged' = lagged
    <3>1. AgentStep \/ LookStep \/ Press => lagged' = lagged
      BY AgentEffect, LookEffect, PressEffect DEF LookStep
    <3>2. PressFails \/ NoteStep => lagged' = lagged
      BY PressFailsEffect, NoteEffect DEF NoteStep
    <3> QED BY <3>1, <3>2, ScreensSteps
  <2>2. CASE ConfirmStep
    BY <2>2, ConfirmEffect DEF ConfirmStep
  <2> QED BY <1>0, <1>1, <2>1, <2>2
<1> QED BY <1>2, <1>3, <1>4, <1>5, <1>6, <1>7 DEF ScreenTypes, ScreensTypeOK

LEMMA ReadsStep == ScreenTypes /\ Sayings /\ Confirms /\ Reads /\ ScreensNext => Reads'
<1> SUFFICES ASSUME ScreenTypes, Sayings, Confirms, Reads, ScreensNext, tending'.at \in {"judge", "press"}
             PROVE  /\ tending'.rev <= pane'.rev
                    /\ tending'.rev = pane'.rev => tending'.read = pane'.screen
                    /\ tending'.read = "taken" => pane'.screen \in Past
  BY DEF Reads, Stands
<1>0. tending.rev \in Nat /\ pane.rev \in Nat
  BY RunType
<1>1. tending.at \in {"judge", "press"} =>
        /\ tending.rev <= pane.rev /\ (tending.rev = pane.rev => tending.read = pane.screen)
        /\ tending.read = "taken" => pane.screen \in Past
  BY DEF Reads, Stands
<1>2. CASE AgentStep
  <2> DEFINE x == pane.rev  y == pane'.rev  z == tending.rev  s == pane.screen  t == pane'.screen
  <2>1. tending' = tending /\ Follows(s, t) /\ ((t = s /\ y = x) \/ y = x + 1)
    BY <1>2, AgentEffect
  <2>2. z <= x /\ (z = x => tending.read = s) /\ (tending.read = "taken" => s \in Past)
    BY <1>1, <2>1
  <2>3. x \in Nat /\ z \in Nat
    BY <1>0
  <2> HIDE DEF x, y, z, s, t
  <2>4. z <= y /\ (z = y => tending.read = t)
    <3>1. CASE t = s /\ y = x
      BY <2>2, <3>1
    <3>2. CASE y = x + 1
      BY <2>2, <2>3, <3>2
    <3> QED BY <2>1, <3>1, <3>2
  <2>5. tending.read = "taken" => t \in Past
    BY <2>1, <2>2 DEF Follows
  <2> QED BY <2>1, <2>4, <2>5 DEF x, y, z, s, t
<1>3. CASE LookStep
  <2>1. /\ pane' = pane
        /\ \/ tending'.read = pane.screen /\ tending'.rev = pane.rev
           \/ tending.at = "judge" /\ tending'.read = tending.read /\ tending'.rev = tending.rev
    BY <1>3, LookEffect DEF LookStep
  <2> QED BY <1>0, <1>1, <2>1 DEF Past
<1>4. CASE Press \/ PressFails
  BY <1>4, PressEffect, PressFailsEffect
<1>5. CASE ConfirmStep \/ NoteStep
  BY <1>5, ConfirmEffect, NoteEffect DEF ConfirmStep, NoteStep, Looking
<1> QED BY <1>2, <1>3, <1>4, <1>5, ScreensSteps

LEMMA MeantStep == ScreenTypes /\ Sayings /\ Confirms /\ Meant /\ ScreensNext => Meant'
<1> SUFFICES ASSUME ScreenTypes, Sayings, Confirms, Meant, ScreensNext PROVE Meant'
  OBVIOUS
<1>1. Prefilled' <=> Prefilled
  BY ScreensKept DEF Prefilled
<1> SUFFICES ASSUME tending'.at = "press"
             PROVE  IF Prefilled THEN tending'.read = "box"
                    ELSE tending'.read \in {"yes", "no"} /\ (tending'.read = "no" => ~tending'.moved)
  BY <1>1 DEF Meant, Stands
<1>2. CASE AgentStep
  BY <1>2, AgentEffect DEF Meant, Stands
<1>3. CASE LookStep
  BY <1>3, LookEffect DEF LookStep
<1>4. CASE Press \/ PressFails
  BY <1>4, PressEffect, PressFailsEffect
<1>5. CASE ConfirmStep \/ NoteStep
  BY <1>5, ConfirmEffect, NoteEffect DEF ConfirmStep, NoteStep, Looking
<1> QED BY <1>2, <1>3, <1>4, <1>5, ScreensSteps

\* A key goes to the screen that was read.
LEMMA PressesRight ==
  ASSUME ScreenTypes, Reads, Meant, tending.at = "press", tending.rev = pane.rev
  PROVE  pane.screen = tending.read /\ IF Prefilled THEN tending.read = "box"
                                       ELSE tending.read \in {"yes", "no"} /\ (tending.read = "no" => ~tending.moved)
  BY DEF Reads, Meant, Stands

LEMMA ConfirmsStep == ScreenTypes /\ Sayings /\ Confirms /\ Reads /\ Meant /\ ScreensNext => Confirms'
<1> SUFFICES ASSUME ScreenTypes, Sayings, Confirms, Reads, Meant, ScreensNext PROVE Confirms'
  OBVIOUS
<1>1. Prefilled' <=> Prefilled
  BY ScreensKept DEF Prefilled
<1> SUFFICES ASSUME tending'.at = "confirm"
             PROVE  pane'.screen \in Past \cup (IF Prefilled THEN {"box"} ELSE {"yes", "no"})
  BY <1>1 DEF Confirms, Stands
<1>2. CASE AgentStep
  <2>1. tending' = tending /\ Follows(pane.screen, pane'.screen)
    BY <1>2, AgentEffect
  <2>2. pane.screen \in Past \cup (IF Prefilled THEN {"box"} ELSE {"yes", "no"})
    BY <2>1 DEF Confirms, Stands
  <2> QED BY <2>1, <2>2 DEF Follows
<1>3. CASE LookStep
  BY <1>3, LookEffect DEF LookStep, Looking
<1>4. CASE Press
  <2>1. tending.at = "press" /\ tending.rev = pane.rev /\ pane'.screen = pane.screen
    BY <1>4, PressEffect DEF TypedKey
  <2> QED BY <2>1, PressesRight
<1>5. CASE PressFails \/ ConfirmStep \/ NoteStep
  BY <1>5, PressFailsEffect, ConfirmEffect, NoteEffect DEF ConfirmStep, NoteStep, Looking
<1> QED BY <1>2, <1>3, <1>4, <1>5, ScreensSteps

LEMMA SayingsStep == ScreenTypes /\ Sayings /\ Confirms /\ Reads /\ ScreensNext => Sayings'
<1> SUFFICES ASSUME ScreenTypes, Sayings, Confirms, Reads, ScreensNext PROVE Sayings'
  OBVIOUS
<1>0. Prefilled' <=> Prefilled
  BY ScreensKept DEF Prefilled
<1> SUFFICES /\ tending'.at \in Looking \cup {"confirm"} => tending'.said = ""
             /\ tending'.at \in Closing => tending'.said \in Sayable
             /\ tending'.said \in {"submitted", "accepted"} => pane'.screen \in Past
             /\ tending'.said = "unasked" => ~tending'.seen
  BY <1>0 DEF Sayings, Sayable
<1>1. /\ tending.at \in Looking \cup {"confirm"} => tending.said = ""
      /\ tending.at \in Closing => tending.said \in Sayable
      /\ tending.said \in {"submitted", "accepted"} => pane.screen \in Past
      /\ tending.said = "unasked" => ~tending.seen
  BY DEF Sayings, Sayable
<1>2. CASE AgentStep
  <2>1. tending' = tending /\ Follows(pane.screen, pane'.screen)
    BY <1>2, AgentEffect
  <2> QED BY <1>1, <2>1 DEF Follows
<1>3. CASE LookStep
  <2>1. pane' = pane /\ (tending.at = "judge" /\ tending.read = "taken" => pane.screen \in Past)
    BY <1>3, LookEffect DEF LookStep, Reads, Stands
  <2>2. CASE tending'.at \in Looking /\ tending'.said = ""
    BY <2>2 DEF Looking, Closing
  <2>3. CASE /\ tending'.at = "keys" /\ tending'.said \in Sayable \ {"accepted", "stayed"}
             /\ tending'.said = "unasked" => ~tending'.seen
             /\ tending'.said = "submitted" => pane.screen \in Past \/ (tending.at = "judge" /\ tending.read = "taken")
    BY <2>1, <2>3 DEF Looking
  <2> QED BY <1>3, <2>2, <2>3, LookEffect DEF LookStep
<1>4. CASE Press
  BY <1>4, PressEffect DEF Looking, Closing
<1>5. CASE PressFails
  BY <1>5, PressFailsEffect DEF Looking, Closing
<1>6. CASE ConfirmStep
  <2>1. pane' = pane
    BY <1>6, ConfirmEffect DEF ConfirmStep
  <2>2. CASE tending'.at = "keys" /\ tending'.said \in Sayable \ {"unasked"} /\ (tending'.said \in {"submitted", "accepted"} => pane.screen \in Past)
    BY <2>1, <2>2 DEF Looking
  <2>3. CASE tending'.at = "look" /\ tending'.said = ""
    BY <2>3 DEF Closing
  <2> QED BY <1>6, <2>2, <2>3, ConfirmEffect DEF ConfirmStep
<1>7. CASE NoteStep
  <2>1. tending'.at \in Closing => tending.at \in Closing
    BY <1>7, NoteEffect DEF NoteStep, Closing
  <2> QED BY <1>1, <1>7, <2>1, NoteEffect DEF NoteStep
<1> QED BY <1>2, <1>3, <1>4, <1>5, <1>6, <1>7, ScreensSteps

LEMMA NotingsStep == ScreenTypes /\ Sayings /\ Confirms /\ Notings /\ ScreensNext => Notings'
<1> SUFFICES ASSUME ScreenTypes, Sayings, Confirms, Notings, ScreensNext
             PROVE  /\ tending'.at \in {"scan", "done"} /\ savedTrust' => "trusted" \in noted'
                    /\ tending'.at = "done" /\ tending'.said \in Blocking => "blocked" \in noted'
  BY DEF Notings, Blocking
<1>1. /\ tending.at \in {"scan", "done"} /\ savedTrust => "trusted" \in noted
      /\ tending.at = "done" /\ tending.said \in Blocking => "blocked" \in noted
  BY DEF Notings
<1>2. CASE AgentStep
  BY <1>1, <1>2, AgentEffect DEF savedTrust
<1>3. CASE LookStep \/ Press \/ PressFails \/ ConfirmStep
  BY <1>3, LookEffect, PressEffect, PressFailsEffect, ConfirmEffect DEF LookStep, ConfirmStep,
     Looking
<1>4. CASE NoteStep
  <2>1. UNCHANGED harness /\ UNCHANGED tending.said /\ noted \subseteq noted'
    BY <1>4, NoteEffect DEF NoteStep
  <2>2. savedTrust' <=> savedTrust
    BY <2>1 DEF savedTrust
  <2> QED BY <1>1, <1>4, <2>1, <2>2, NoteEffect DEF NoteStep
<1> QED BY <1>2, <1>3, <1>4, ScreensSteps

\* An Enter of hand's that is known of after a step of the agent's was known of before.
LEMMA EnterKept ==
  ASSUME ScreenTypes, AgentStep, drops' = 0, EnterSent'
  PROVE  EnterSent /\ drops = 0
<1> DEFINE s == pane.typed  t == pane'.typed
<1>0. s \in Seq(Key) /\ drops \in Nat
  BY RunType DEF ScreenTypes
<1>1. drops = 0
  <2>1. drops' \in Nat /\ drops <= drops'
    BY AgentEffect
  <2> QED BY <1>0, <2>1
<1>2. own' \/ \E i \in 1 .. Len(t) : t[i] = HandEnter
  BY DEF EnterSent
<1>3. ~DropKey
  BY <1>0 DEF DropKey, Lost
<1>4. ASSUME NEW to \in Screens, Draw(to) PROVE EnterSent
  <2>1. t = s /\ own' = own
    BY <1>4 DEF Draw, ScreenTypes, ScreensTypeOK
  <2> QED BY <1>2, <2>1 DEF EnterSent
<1>5. CASE TakeKey
  <2> DEFINE k == Head(s)
  <2>1. s # <<>> /\ t = Tail(s) /\ k \in Key
    BY <1>0, <1>5 DEF TakeKey
  <2>2. own' => own \/ (k.by = "hand" /\ k.key = "enter")
    BY <1>5 DEF TakeKey
  <2>3. k = s[1] /\ Len(s) \in Nat \ {0} /\ 1 \in 1 .. Len(s)
    BY <1>0, <2>1
  <2>4. k.by = "hand" /\ k.key = "enter" => k = HandEnter
    BY <2>1 DEF Key, HandEnter
  <2>5. ASSUME NEW i \in 1 .. Len(t), t[i] = HandEnter PROVE EnterSent
    <3>1. Len(t) = Len(s) - 1 /\ t[i] = s[i + 1]
      BY <1>0, <2>1
    <3>2. i + 1 \in 1 .. Len(s)
      BY <2>3, <3>1
    <3> QED BY <2>5, <3>1, <3>2 DEF EnterSent
  <2>6. own \/ k = HandEnter => EnterSent
    BY <2>3 DEF EnterSent
  <2>7. CASE own'
    BY <1>1, <2>2, <2>4, <2>6, <2>7
  <2>8. CASE \E i \in 1 .. Len(t) : t[i] = HandEnter
    BY <1>1, <2>5, <2>8
  <2> QED BY <1>2, <2>7, <2>8
<1>6. ASSUME NEW press \in {"enter", "move"}, OperatorPresses(press) PROVE EnterSent
  <2> DEFINE k == [by |-> "operator", key |-> press]
  <2>1. k \in Key /\ k # HandEnter
    <3>1. k.by = "operator" /\ HandEnter.by = "hand" /\ k \in Key
      BY DEF Key, HandEnter
    <3> QED BY <3>1
  <2>2. t = Append(s, k) /\ own' = own
    BY <1>6 DEF OperatorPresses, ScreenTypes, ScreensTypeOK
  <2> HIDE DEF k
  <2>3. ASSUME NEW i \in 1 .. Len(t), t[i] = HandEnter PROVE EnterSent
    <3>1. Len(t) = Len(s) + 1 /\ Len(s) \in Nat
      BY <1>0, <2>1, <2>2
    <3>2. i \in 1 .. Len(s) \/ i = Len(s) + 1
      BY <3>1
    <3>3. i # Len(s) + 1
      BY <1>0, <2>1, <2>2, <2>3
    <3>4. i \in 1 .. Len(s) /\ t[i] = s[i]
      BY <1>0, <2>1, <2>2, <3>2, <3>3
    <3> QED BY <2>3, <3>4 DEF EnterSent
  <2>4. own => EnterSent
    BY DEF EnterSent
  <2> HIDE DEF s, t
  <2> QED BY <1>2, <2>2, <2>3, <2>4
<1> QED BY <1>1, <1>3, <1>4, <1>5, <1>6 DEF AgentStep

LEMMA AnsweringStep ==
  ScreenTypes /\ Sayings /\ Confirms /\ Answering /\ ScreensNext => Answering'
<1> SUFFICES ASSUME ScreenTypes, Sayings, Confirms, Answering, ScreensNext PROVE Answering'
  OBVIOUS
<1>0. harness' = harness /\ drops \in Nat /\ drops' \in Nat /\ drops <= drops'
  BY ScreensKept DEF ScreenTypes
<1> SUFFICES ASSUME harness \in RepoNote, drops' = 0, EnterSent'
             PROVE  tending'.at \in {"confirm", "off"} \/ tending'.said \in {"accepted", "stayed"}
  BY <1>0 DEF Answering
<1>1. drops = 0 /\ ~Prefilled
  BY <1>0 DEF RepoNote, Prefilled, Prefills
<1>2. EnterSent => tending.at \in {"confirm", "off"} \/ tending.said \in {"accepted", "stayed"}
  BY <1>1 DEF Answering
<1>3. tending.at \in Looking => ~EnterSent
  BY <1>2 DEF Sayings, Looking
<1>4. UNCHANGED <<pane, own>> => EnterSent
  BY DEF EnterSent
<1>5. CASE AgentStep
  BY <1>2, <1>5, AgentEffect, EnterKept
<1>6. CASE LookStep
  BY <1>3, <1>4, <1>6, LookEffect DEF LookStep
<1>7. CASE Press
  <2> DEFINE s == pane.typed  t == pane'.typed
  <2>1. CASE tending'.at = "confirm"
    BY <2>1
  <2>2. CASE TypedKey(HandMove)
    <3>1. tending.at \in Looking /\ own' = own /\ t = Append(s, HandMove) /\ s \in Seq(Key) /\ HandMove \in Key
      BY <1>7, <2>2, PressEffect, RunType DEF TypedKey, Looking, Key, HandMove
    <3>2. ~own /\ \A i \in 1 .. Len(s) : s[i] # HandEnter
      BY <1>3, <3>1 DEF EnterSent
    <3>3. ASSUME NEW i \in 1 .. Len(t) PROVE t[i] # HandEnter
      <4>0. HandMove # HandEnter
        <5>1. HandMove.key = "move" /\ HandEnter.key = "enter"
          BY DEF HandMove, HandEnter
        <5> QED BY <5>1
      <4>1. Len(t) = Len(s) + 1 /\ Len(s) \in Nat
        BY <3>1
      <4>2. CASE i = Len(s) + 1
        BY <3>1, <4>0, <4>2
      <4>3. CASE i \in 1 .. Len(s)
        BY <3>1, <3>2, <4>3
      <4> QED BY <4>1, <4>2, <4>3
    <3>4. ~EnterSent'
      BY <3>1, <3>2, <3>3 DEF EnterSent
    <3> QED BY <3>4
  <2> QED BY <1>7, <2>1, <2>2, PressEffect
<1>8. CASE PressFails
  <2>1. tending.at \in Looking /\ own' = own /\ (UNCHANGED pane \/ drops' = drops + 1)
    BY <1>8, PressFailsEffect DEF Looking
  <2>2. drops' # drops + 1
    BY <1>1
  <2> QED BY <1>3, <1>4, <2>1, <2>2
<1>9. CASE ConfirmStep
  BY <1>1, <1>9, ConfirmEffect DEF ConfirmStep
<1>10. CASE NoteStep
  <2>1. EnterSent /\ UNCHANGED tending.said
    BY <1>4, <1>10, NoteEffect DEF NoteStep
  <2>2. tending'.at = "off" \/ tending.at \notin {"confirm", "off"}
    BY <1>10, NoteEffect DEF NoteStep
  <2> QED BY <1>2, <2>1, <2>2
<1> QED BY <1>5, <1>6, <1>7, <1>8, <1>9, <1>10, ScreensSteps

\* What waits when one key does: nothing, a key that moves the cursor, or Enter.
NothingWaits == Len(pane.typed) = 0
MoveWaits == ~Prefilled /\ Waiting(HandMove, {"no"}) /\ (tending.at \in Looking => tending.moved)
EnterWaits == Waiting(HandEnter, {IF Prefilled THEN "box" ELSE "yes"}) /\ tending.at \notin Looking

\* The agent takes a key for what it was meant for, and does not go elsewhere while it waits.
LEMMA AgentKey ==
  ASSUME ScreenTypes, AgentStep, presses' = 0, Prefilled => ~alone', ~harm, NothingWaits \/ MoveWaits \/ EnterWaits
  PROVE  ~harm' /\ (NothingWaits' \/ MoveWaits' \/ EnterWaits')
<1> DEFINE s == pane.typed  t == pane'.typed
<1>0. /\ s \in Seq(Key) /\ presses \in Nat /\ UNCHANGED <<harness, tending>> /\ presses <= presses'
      /\ pane \in [screen : Screens, rev : Nat, typed : Seq(Key)]
  BY RunType, AgentEffect DEF ScreenTypes, ScreensTypeOK
<1>1. UNCHANGED Prefilled
  BY <1>0 DEF Prefilled
<1>2. ASSUME NEW to \in Screens, Draw(to) PROVE ~harm' /\ (NothingWaits' \/ MoveWaits' \/ EnterWaits')
  <2>1. t = s /\ harm' = harm /\ pane'.screen = to
    BY <1>0, <1>2 DEF Draw
  <2>2. CASE NothingWaits
    BY <2>1, <2>2 DEF NothingWaits
  <2>3. CASE MoveWaits
    <3>1. pane.screen \in {"no", "gone"}
      BY <2>3 DEF MoveWaits, Waiting
    <3>2. to \in {"no", "gone"}
      BY <1>2, <3>1 DEF Draw, Draws
    <3> QED BY <1>0, <1>1, <2>1, <2>3, <3>2 DEF MoveWaits, Waiting
  <2>4. CASE EnterWaits
    <3>1. pane.screen \in {IF Prefilled THEN "box" ELSE "yes", "gone"}
      BY <2>4 DEF EnterWaits, Waiting
    <3>2. alone' = (alone \/ (harness \in Prefills /\ to = "taken" /\ pane.screen \in {"blank", "box"}))
      BY <1>2 DEF Draw
    <3>3. to \in {IF Prefilled THEN "box" ELSE "yes", "gone"}
      <4>1. CASE Prefilled
        BY <1>2, <3>1, <3>2, <4>1 DEF Draw, Draws, Prefilled
      <4>2. CASE ~Prefilled
        BY <1>2, <3>1, <4>2 DEF Draw, Draws
      <4> QED BY <4>1, <4>2
    <3> QED BY <1>0, <1>1, <2>1, <2>4, <3>3 DEF EnterWaits, Waiting
  <2> QED BY <2>2, <2>3, <2>4
<1>3. CASE TakeKey
  <2>0. s # <<>> /\ Len(s) \in Nat \ {0} /\ t = Tail(s) /\ pane.screen # "gone" /\ Head(s) = s[1]
    BY <1>0, <1>3 DEF TakeKey
  <2>1. ~NothingWaits /\ (Len(s) = 1 => Len(t) = 0)
    BY <1>0, <2>0 DEF NothingWaits
  <2>2. harm' => harm \/ (Head(s).by = "hand" /\ pane.screen \in Unmeant(Head(s).key))
    BY <1>3 DEF TakeKey
  <2>3. CASE MoveWaits
    <3>1. s[1] = HandMove /\ pane.screen = "no" /\ Len(s) = 1
      BY <2>0, <2>3 DEF MoveWaits, Waiting
    <3>2. Head(s).key = "move"
      BY <2>0, <3>1 DEF HandMove
    <3>3. pane.screen \notin Unmeant("move")
      BY <3>1 DEF Unmeant
    <3> QED BY <2>1, <2>2, <3>1, <3>2, <3>3 DEF NothingWaits
  <2>4. CASE EnterWaits
    <3>1. s[1] = HandEnter /\ pane.screen \in {"box", "yes"} /\ Len(s) = 1
      BY <2>0, <2>4 DEF EnterWaits, Waiting
    <3>2. Head(s).key = "enter"
      BY <2>0, <3>1 DEF HandEnter
    <3>3. pane.screen \notin Unmeant("enter")
      BY <3>1 DEF Unmeant
    <3> QED BY <2>1, <2>2, <3>1, <3>2, <3>3 DEF NothingWaits
  <2> QED BY <2>1, <2>3, <2>4
<1>4. CASE DropKey
  <2>0. s # <<>> /\ Len(s) \in Nat \ {0} /\ t = Tail(s) /\ harm' = harm
    BY <1>0, <1>4 DEF DropKey
  <2>1. Len(s) = 1 => Len(t) = 0
    BY <1>0, <2>0
  <2>2. Len(s) = 1
    BY <2>0 DEF NothingWaits, MoveWaits, EnterWaits, Waiting
  <2> QED BY <2>0, <2>1, <2>2 DEF NothingWaits
<1>5. ASSUME NEW press \in {"enter", "move"} PROVE ~OperatorPresses(press)
  BY <1>0 DEF OperatorPresses
<1> QED BY <1>2, <1>3, <1>4, <1>5 DEF AgentStep

\* A key that is sent is the only one, and goes to what it is meant for.
LEMMA KeyTyped ==
  ASSUME ScreenTypes, Reads, Meant, tending.at = "press", tending.rev = pane.rev, pane.screen # "gone",
         TypedKey(IF tending.read # "no" THEN HandEnter ELSE HandMove), NothingWaits \/ MoveWaits \/ EnterWaits,
         Prefilled' <=> Prefilled
  PROVE  \/ tending.read # "no" /\ Waiting(HandEnter, {IF Prefilled THEN "box" ELSE "yes"})'
         \/ tending.read = "no" /\ ~Prefilled /\ Waiting(HandMove, {"no"})'
<1> DEFINE k == IF tending.read # "no" THEN HandEnter ELSE HandMove
           s == pane.typed
           t == pane'.typed
<1>0. s \in Seq(Key) /\ k \in Key
  BY RunType DEF Key, HandEnter, HandMove
<1>1. pane.screen = tending.read /\ IF Prefilled THEN tending.read = "box"
                                    ELSE tending.read \in {"yes", "no"} /\ (tending.read = "no" => ~tending.moved)
  BY PressesRight
<1>2. NothingWaits
  <2>1. ~EnterWaits
    BY DEF EnterWaits, Looking
  <2>2. ~MoveWaits
    <3>1. MoveWaits => tending.moved /\ pane.screen = "no"
      BY DEF MoveWaits, Waiting, Looking
    <3> QED BY <1>1, <3>1
  <2> QED BY <2>1, <2>2
<1>3. pane'.screen = pane.screen /\ t = Append(s, k)
  BY DEF TypedKey
<1> HIDE DEF k
<1>4. Len(t) = 1 /\ t[1] = k
  BY <1>0, <1>2, <1>3 DEF NothingWaits
<1>5. CASE tending.read # "no"
  <2>1. k = HandEnter
    BY <1>5 DEF k
  <2>2. pane'.screen = IF Prefilled THEN "box" ELSE "yes"
    BY <1>1, <1>3, <1>5
  <2> QED BY <1>4, <1>5, <2>1, <2>2 DEF Waiting
<1>6. CASE tending.read = "no"
  <2>1. k = HandMove
    BY <1>6 DEF k
  <2> QED BY <1>1, <1>3, <1>4, <1>6, <2>1 DEF Waiting
<1> QED BY <1>5, <1>6

LEMMA OneKeyStep ==
  ScreenTypes /\ Sayings /\ Confirms /\ Reads /\ Meant /\ OneKey /\ ScreensNext => OneKey'
<1> SUFFICES ASSUME ScreenTypes, Sayings, Confirms, Reads, Meant, OneKey, ScreensNext, Undisturbed'
             PROVE  ~harm' /\ (NothingWaits' \/ MoveWaits' \/ EnterWaits')
  BY DEF OneKey, NothingWaits, MoveWaits, EnterWaits
<1>0. /\ harness' = harness /\ presses' = 0 /\ presses = 0 /\ (alone => alone')
      /\ lagged' \in Nat /\ lagged \in Nat /\ lagged <= lagged'
  BY ScreensKept DEF ScreenTypes, Undisturbed
<1>1. (Prefilled' <=> Prefilled) /\ (Prefilled => ~alone' /\ lagged' = 0)
  BY <1>0 DEF Prefilled, Undisturbed
<1>2. Undisturbed
  <2>1. Prefilled => ~alone
    BY <1>0, <1>1
  <2>2. Prefilled => lagged = 0
    BY <1>0, <1>1
  <2> QED BY <1>0, <2>1, <2>2 DEF Undisturbed
<1>3. ~harm /\ (NothingWaits \/ MoveWaits \/ EnterWaits)
  BY <1>2 DEF OneKey, NothingWaits, MoveWaits, EnterWaits
<1>4. CASE AgentStep
  BY <1>0, <1>1, <1>3, <1>4, AgentKey
<1>5. CASE LookStep
  <2>1. UNCHANGED <<pane, harm>> /\ tending.at \in Looking /\ tending'.moved = tending.moved
    BY <1>5, LookEffect DEF LookStep
  <2> QED BY <1>1, <1>3, <2>1 DEF NothingWaits, MoveWaits, EnterWaits, Waiting
<1>6. CASE Press
  <2>1. harm' = harm /\ tending.at = "press" /\ tending.rev = pane.rev /\ pane.screen # "gone"
        /\ \/ tending.read # "no" /\ tending'.at = "confirm" /\ TypedKey(HandEnter)
           \/ tending.read = "no" /\ tending'.at = "look" /\ tending'.moved /\ TypedKey(HandMove)
    BY <1>6, PressEffect
  <2>2. TypedKey(IF tending.read # "no" THEN HandEnter ELSE HandMove)
    BY <2>1
  <2> QED BY <1>1, <1>3, <2>1, <2>2, KeyTyped DEF MoveWaits, EnterWaits, Looking, Waiting
<1>7. CASE PressFails
  <2>1. harm' = harm /\ tending.at = "press" /\ tending'.at \notin Looking
    BY <1>7, PressFailsEffect DEF Looking
  <2>2. CASE UNCHANGED pane
    BY <1>1, <1>3, <2>1, <2>2 DEF NothingWaits, MoveWaits, EnterWaits, Waiting
  <2>3. CASE tending.rev = pane.rev /\ pane.screen # "gone" /\ TypedKey(IF tending.read # "no" THEN HandEnter ELSE HandMove)
    BY <1>1, <1>3, <2>1, <2>3, KeyTyped DEF MoveWaits, EnterWaits, Waiting
  <2>4. UNCHANGED pane \/ (KeysTaken /\ pane' = Typed)
    BY <1>7 DEF PressFails
  <2>5. KeysTaken /\ pane' = Typed =>
          tending.rev = pane.rev /\ pane.screen # "gone" /\ TypedKey(IF tending.read # "no" THEN HandEnter ELSE HandMove)
    BY TypedEffect DEF KeysTaken, ByEnter
  <2> QED BY <2>2, <2>3, <2>4, <2>5
<1>8. CASE ConfirmStep
  <2>1. UNCHANGED <<pane, harm>> /\ (tending'.at = "keys" \/ (Prefilled /\ (lagged' # 0 \/ Len(pane.typed) = 0)))
    BY <1>8, ConfirmEffect DEF ConfirmStep
  <2>2. CASE tending'.at = "keys"
    BY <1>1, <1>3, <2>1, <2>2 DEF NothingWaits, MoveWaits, EnterWaits, Waiting, Looking
  <2>3. CASE Len(pane.typed) = 0
    BY <1>3, <2>1, <2>3 DEF NothingWaits
  <2> QED BY <1>1, <2>1, <2>2, <2>3
<1>9. CASE NoteStep
  <2>1. UNCHANGED <<pane, harm>> /\ tending'.at \notin Looking
    BY <1>9, NoteEffect DEF NoteStep
  <2> QED BY <1>1, <1>3, <2>1 DEF NothingWaits, MoveWaits, EnterWaits, Waiting
<1> QED BY <1>4, <1>5, <1>6, <1>7, <1>8, <1>9, ScreensSteps

LEMMA ScreensStep == ScreensInv /\ [ScreensNext]_sVars => ScreensInv'
<1>1. ScreensInv /\ ScreensNext => ScreensInv'
  BY ScreensKept, ReadsStep, MeantStep, ConfirmsStep, SayingsStep, NotingsStep, AnsweringStep,
     OneKeyStep DEF ScreensInv
<1>2. ASSUME ScreensInv, UNCHANGED sVars PROVE ScreensInv'
  <2>1. UNCHANGED <<harness, trouble, pane, tending, noted, harm, own, alone, presses, lagged, drops>>
    BY <1>2 DEF sVars
  <2>2. (ScreenTypes /\ Reads /\ Meant /\ Confirms)'
    BY <1>2, <2>1 DEF ScreensInv, ScreenTypes, ScreensTypeOK, Reads, Meant, Confirms, Stands,
       Prefilled
  <2>3. (Sayings /\ Notings /\ Answering)'
    BY <1>2, <2>1 DEF ScreensInv, Sayings, Notings, savedTrust, Answering, EnterSent, Prefilled
  <2>4. OneKey'
    BY <1>2, <2>1 DEF ScreensInv, OneKey, Undisturbed, Waiting, Prefilled
  <2> QED BY <2>2, <2>3, <2>4 DEF ScreensInv
<1> QED BY <1>1, <1>2

\* hand's keys answer what they were meant for, and the row says what was left
\* to the operator (cli/launch.go, submitPrefilled and acceptTrust).
THEOREM ScreensSafe == ScreensSpec => []ScreensSafety
<1> QED BY ScreensStarts, ScreensStep, ScreensImplies, PTL DEF ScreensSpec

-----------------------------------------------------------------------------
(* Housekeeping: the inductive invariant *)

InboxTypes ==
  /\ day \in Day /\ mark \in Day \cup {0} /\ pruned \in Day \cup {0} /\ holder \in Pruners \cup {Nobody}
  /\ box \in [Files -> File \cup {NoFile}] /\ bin \in [Files -> File \cup {NoFile}] /\ prune \in [Pruners -> Prune]
PaperTypes == docs \in [Files -> Doc] /\ gc \in Gc /\ rowOf \in [Files -> {"none", "live", "ended"}] /\ deeds \in Nat
SnapTypes ==
  /\ snaps \in [Day -> {"none", "part", "whole"}] /\ partial \in {"none", "part", "whole"} /\ taken \subseteq Day
  /\ snap \in [at : {"idle", "copy", "rename", "prune"}, for : Day, seen : Day \cup {0}]

\* Only a prune of Hand's makes a file one that Hand moved, with its own day as
\* the time of modification or a later one.
Stamps == \A f \in Files : /\ box[f].since = 0
                           /\ bin[f].since > 0 => bin[f].mod >= bin[f].since

\* A prune that works holds the lock; what it has read of the trash and Hand had
\* moved there is as old as it was; what it renames is as new as it stamped it.
Pruning(p) == prune[p].at \notin {"idle", "mark"}
Sweeps(p) ==
  /\ Pruning(p) => holder = p
  /\ prune[p].now <= day
  /\ prune[p].held # {} => prune[p].at \in {"inbox", "delete"}
  /\ \A f \in prune[p].held : bin[f].since > 0 => bin[f].mod + TrashKeep < prune[p].now
  /\ prune[p].at = "rename" =>
       /\ box[prune[p].file] # NoFile => box[prune[p].file].mod >= prune[p].now
       /\ bin[prune[p].file].since = 0
       /\ bin[prune[p].file] # NoFile => bin[prune[p].file].mod >= prune[p].now

InboxInv == InboxTypes /\ Stamps /\ (\A p \in Pruners : Sweeps(p)) /\ ~early

\* What gc is about to remove is what it scanned, or was written a moment ago.
Scanned == gc.at = "remove" => docs[gc.file].ver = gc.found[gc.file] \/ gc.swapped
\* While the operator removes no worktree: a live attempt with a scratch folder
\* has its worktree, and the folders on the list are of attempts that ended.
Folders ==
  /\ \A f \in Files : f \in trees \cup scratch => rowOf[f] # "none"
  /\ deeds = 0 => \A f \in Files : rowOf[f] = "live" /\ f \in scratch => f \in trees
  /\ deeds = 0 /\ gc.at = "folders" => \A f \in gc.todo : rowOf[f] = "ended"
PaperInv == PaperTypes /\ Scanned /\ Folders /\ ~unseen

\* The copy that is renamed is whole, and what is kept was taken.
SnapInv ==
  /\ SnapTypes /\ SnapshotsKept
  /\ snap.at = "rename" => partial = "whole"
  /\ \A d \in Day : snaps[d] # "none" => d \in taken

KeepingInv == InboxInv /\ PaperInv /\ SnapInv

LEMMA KeepingImplies == KeepingInv => FilesSafety
  BY DEF KeepingInv, InboxInv, PaperInv, SnapInv, InboxTypes, PaperTypes, SnapTypes, FilesSafety,
     KeepingTypeOK,
     TrashKept, GcSound

LEMMA DaysAre == Day \subseteq Nat /\ 1 \in Day /\ IsFiniteSet(Day) /\ AnyFile \in Files /\ (CHOOSE a \in Ages : TRUE) \in Ages
<1>1. Day \subseteq Nat /\ 1 \in Day
  BY HousekeepingAssumption DEF Day
<1>2. IsFiniteSet(Day)
  BY FS_Interval, HousekeepingAssumption DEF Day
<1>3. AnyFile \in Files
  BY HousekeepingAssumption DEF AnyFile
<1>4. (CHOOSE a \in Ages : TRUE) \in Ages
  BY HousekeepingAssumption
<1> QED BY <1>1, <1>2, <1>3, <1>4

LEMMA NoPruneIs == NoPrune \in Prune /\ NoPrune.at = "idle" /\ NoPrune.now = 1 /\ NoPrune.held = {}
<1> DEFINE a == CHOOSE a \in Ages : TRUE  w == [f \in Files |-> 0]
<1>1. a \in Ages /\ w \in [Files -> Day \cup {0}] /\ {} \in SUBSET Files /\ 1 \in Day /\ AnyFile \in Files
  BY DaysAre
<1>2. NoPrune = [at |-> "idle", now |-> 1, age |-> a, held |-> {}, due |-> {}, was |-> w, file |-> AnyFile, moved |-> FALSE]
  BY DEF NoPrune
<1> HIDE DEF a, w
<1> QED BY <1>1, <1>2 DEF Prune

LEMMA NoGcIs == NoGc \in Gc /\ NoGc.at = "idle"
<1> DEFINE w == [f \in Files |-> 0]
<1>1. w \in [Files -> Nat] /\ {} \in SUBSET Files /\ AnyFile \in Files
  BY DaysAre
<1>2. NoGc = [at |-> "idle", found |-> w, todo |-> {}, file |-> AnyFile, live |-> {}, swapped |-> FALSE]
  BY DEF NoGc
<1> HIDE DEF w
<1> QED BY <1>1, <1>2 DEF Gc

LEMMA KeepingStarts == KeepingInit => KeepingInv
<1> SUFFICES ASSUME KeepingInit PROVE KeepingInv
  OBVIOUS
<1>1. InboxInv
  <2>1. /\ day = 1 /\ mark = 0 /\ pruned = 0 /\ holder = Nobody /\ ~early
        /\ box = [f \in Files |-> NoFile] /\ bin = box /\ prune = [p \in Pruners |-> NoPrune]
    BY DEF KeepingInit
  <2>2. InboxTypes
    BY <2>1, NoPruneIs, DaysAre DEF InboxTypes
  <2>3. Stamps
    BY <2>1 DEF Stamps, NoFile
  <2>4. ASSUME NEW p \in Pruners PROVE Sweeps(p)
    BY <2>1, NoPruneIs DEF Sweeps, Pruning
  <2> QED BY <2>1, <2>2, <2>3, <2>4 DEF InboxInv
<1>2. PaperInv
  <2>1. /\ docs = [f \in Files |-> [mod |-> 0, ver |-> 0]] /\ gc = NoGc /\ ~unseen /\ deeds = 0
        /\ rowOf = [f \in Files |-> "none"] /\ trees = {} /\ scratch = {}
    BY DEF KeepingInit
  <2>2. PaperTypes
    BY <2>1, NoGcIs DEF PaperTypes, Doc
  <2> QED BY <2>1, <2>2, NoGcIs DEF PaperInv, Scanned, Folders
<1>3. SnapInv
  <2>1. /\ snaps = [d \in Day |-> "none"] /\ partial = "none" /\ taken = {}
        /\ snap = [at |-> "idle", for |-> 1, seen |-> 0]
    BY DEF KeepingInit
  <2>2. SnapTypes
    BY <2>1, DaysAre DEF SnapTypes
  <2> QED BY <2>1, <2>2 DEF SnapInv, SnapshotsKept
<1> QED BY <1>1, <1>2, <1>3 DEF KeepingInv

-----------------------------------------------------------------------------
(* Housekeeping: the inbox *)

FileOr == File \cup {NoFile}

LEMMA FileIs ==
  ASSUME InboxTypes
  PROVE  /\ day \in Nat /\ NoFile.since = 0 /\ NoFile.mod = 0 /\ NoFile \in FileOr
         /\ \A f \in Files : /\ box[f] \in FileOr /\ box[f].mod \in Nat /\ box[f].since \in Nat
                             /\ bin[f] \in FileOr /\ bin[f].mod \in Nat /\ bin[f].since \in Nat
         /\ \A p \in Pruners : prune[p] \in Prune /\ prune[p].now \in Nat /\ prune[p].held \subseteq Files /\ prune[p].file \in Files
<1>1. day \in Nat /\ NoFile.since = 0 /\ NoFile.mod = 0 /\ NoFile \in FileOr
  BY DaysAre DEF InboxTypes, NoFile, FileOr
<1>2. ASSUME NEW x \in FileOr PROVE x.mod \in Nat /\ x.since \in Nat
  <2>1. CASE x \in File
    <3>1. x.mod \in Day /\ x.since \in Day \cup {0}
      BY <2>1 DEF File
    <3>2. x.mod \in Nat
      BY <3>1, DaysAre
    <3>3. x.since \in Nat
      <4>1. Day \cup {0} \subseteq Nat
        BY DaysAre
      <4> DEFINE s == x.since
      <4>2. s \in Day \cup {0}
        BY <3>1
      <4> HIDE DEF s
      <4>3. s \in Nat
        BY <4>1, <4>2
      <4> QED BY <4>3 DEF s
    <3> QED BY <3>2, <3>3
  <2>2. CASE x = NoFile
    BY <2>2 DEF NoFile
  <2> QED BY <2>1, <2>2 DEF FileOr
<1>3. \A f \in Files : box[f] \in FileOr /\ bin[f] \in FileOr
  BY DEF InboxTypes, FileOr
<1>4. ASSUME NEW p \in Pruners PROVE prune[p] \in Prune /\ prune[p].now \in Nat /\ prune[p].held \subseteq Files /\ prune[p].file \in Files
  BY DaysAre DEF InboxTypes, Prune
<1> QED BY <1>1, <1>2, <1>3, <1>4

\* One file of a folder changes.
LEMMA Filed ==
  ASSUME NEW d \in [Files -> FileOr], NEW f \in Files, NEW x \in FileOr
  PROVE  LET e == [d EXCEPT ![f] = x] IN e \in [Files -> FileOr] /\ e[f] = x /\ \A g \in Files : g # f => e[g] = d[g]
  OBVIOUS

\* A prune that does not work is not disturbed.
LEMMA Bystander ==
  ASSUME InboxTypes, NEW q \in Pruners, Sweeps(q), ~Pruning(q), prune'[q] = prune[q], day' = day
  PROVE  Sweeps(q)'
<1>1. prune[q].at \in {"idle", "mark"} /\ prune[q].held = {} /\ prune[q].now <= day
  BY DEF Sweeps, Pruning
<1> QED BY <1>1 DEF Sweeps, Pruning

\* While one prune works the others do not.
LEMMA OnePrunes ==
  ASSUME InboxTypes, \A q \in Pruners : Sweeps(q), NEW p \in Pruners, Pruning(p) \/ holder = Nobody, NEW q \in Pruners, q # p
  PROVE  ~Pruning(q)
  BY HousekeepingAssumption DEF Sweeps

\* What the steps of a working prune have in common.
SweepsOn(p, r) ==
  /\ r.at \notin {"idle", "mark"} => holder' = p
  /\ r.now <= day
  /\ r.held # {} => r.at \in {"inbox", "delete"}
  /\ \A f \in r.held : bin'[f].since > 0 => bin'[f].mod + TrashKeep < r.now
  /\ r.at = "rename" =>
       /\ box'[r.file] # NoFile => box'[r.file].mod >= r.now
       /\ bin'[r.file].since = 0
       /\ bin'[r.file] # NoFile => bin'[r.file].mod >= r.now

LEMMA SweepStep ==
  ASSUME InboxTypes, \A q \in Pruners : Sweeps(q), NEW p \in Pruners, Pruning(p) \/ holder = Nobody,
         NEW r \in Prune, PruneStep(p, r), day' = day, SweepsOn(p, r)
  PROVE  prune' \in [Pruners -> Prune] /\ \A q \in Pruners : Sweeps(q)'
<1>1. prune' \in [Pruners -> Prune] /\ prune'[p] = r /\ \A q \in Pruners : q # p => prune'[q] = prune[q]
  BY DEF PruneStep, InboxTypes
<1>2. Sweeps(p)'
  BY <1>1 DEF Sweeps, SweepsOn, Pruning
<1>3. ASSUME NEW q \in Pruners, q # p PROVE Sweeps(q)'
  BY <1>1, <1>3, OnePrunes, Bystander
<1> QED BY <1>1, <1>2, <1>3

\* The operator: what comes to the trash is not Hand's, and what comes back is
\* no older than it was.
AsNew(n, f) ==
  /\ box[f] # NoFile => box[f].mod >= n
  /\ bin[f].since = 0
  /\ bin[f] # NoFile => bin[f].mod >= n

LEMMA OperatorEffect ==
  ASSUME InboxTypes, Stamps, NEW f \in Files, saveImage(f) \/ Restore(f) \/ PutInTrash(f)
  PROVE  /\ UNCHANGED <<day, mark, pruned, prune, holder, early>>
         /\ box' \in [Files -> FileOr] /\ bin' \in [Files -> FileOr]
         /\ Stamps'
         /\ \A g \in Files : bin'[g] = bin[g] \/ bin'[g].since = 0
         /\ \A g \in Files, n \in Nat : n <= day /\ AsNew(n, g) => AsNew(n, g)'
<1>0. box \in [Files -> FileOr] /\ bin \in [Files -> FileOr]
  BY DEF InboxTypes, FileOr
<1>1. CASE saveImage(f)
  <2> DEFINE x == [mod |-> day, since |-> 0]
  <2>1. x \in FileOr /\ x.mod = day /\ x.since = 0
    BY DEF FileOr, File, InboxTypes
  <2>2. box' = [box EXCEPT ![f] = x] /\ bin' = bin /\ UNCHANGED <<day, mark, pruned, prune, holder, early>>
    BY <1>1 DEF saveImage, InInbox
  <2> HIDE DEF x
  <2>3. box' \in [Files -> FileOr] /\ box'[f] = x /\ \A g \in Files : g # f => box'[g] = box[g]
    BY <1>0, <2>1, <2>2
  <2> QED BY <1>0, <2>1, <2>2, <2>3 DEF Stamps, AsNew
<1>2. CASE Restore(f)
  <2> DEFINE x == [bin[f] EXCEPT !.since = 0]
  <2>1. x \in FileOr /\ x.mod = bin[f].mod /\ x.since = 0 /\ bin[f] # NoFile
    <3>1. bin[f] \in File
      BY <1>0, <1>2 DEF Restore, Files_, FileOr
    <3> QED BY <1>2, <3>1 DEF FileOr, File, Restore, Files_
  <2>2. box' = [box EXCEPT ![f] = x] /\ bin' = [bin EXCEPT ![f] = NoFile] /\ UNCHANGED <<day, mark, pruned, prune, holder, early>>
    BY <1>2 DEF Restore, InInbox
  <2> HIDE DEF x
  <2>3. box' \in [Files -> FileOr] /\ box'[f] = x /\ \A g \in Files : g # f => box'[g] = box[g]
    BY <1>0, <2>1, <2>2
  <2>4. bin' \in [Files -> FileOr] /\ bin'[f] = NoFile /\ \A g \in Files : g # f => bin'[g] = bin[g]
    BY <1>0, <2>2, FileIs
  <2> QED BY <1>0, <2>1, <2>2, <2>3, <2>4, FileIs DEF Stamps, AsNew
<1>3. CASE PutInTrash(f)
  <2>1. bin' = [bin EXCEPT ![f] = box[f]] /\ box' = [box EXCEPT ![f] = NoFile] /\ UNCHANGED <<day, mark, pruned, prune, holder, early>>
    BY <1>3 DEF PutInTrash, InInbox
  <2>2. bin' \in [Files -> FileOr] /\ bin'[f] = box[f] /\ \A g \in Files : g # f => bin'[g] = bin[g]
    BY <1>0, <2>1
  <2>3. box' \in [Files -> FileOr] /\ box'[f] = NoFile /\ \A g \in Files : g # f => box'[g] = box[g]
    BY <1>0, <2>1, FileIs
  <2>4. box[f].since = 0
    BY DEF Stamps
  <2> QED BY <1>0, <2>1, <2>2, <2>3, <2>4, FileIs DEF Stamps, AsNew
<1> QED BY <1>1, <1>2, <1>3

LEMMA OperatorStep ==
  ASSUME InboxInv, NEW f \in Files, saveImage(f) \/ Restore(f) \/ PutInTrash(f)
  PROVE  InboxInv'
<1>0. InboxTypes /\ Stamps /\ \A p \in Pruners : Sweeps(p)
  BY DEF InboxInv
<1>1. InboxTypes'
  BY <1>0, OperatorEffect DEF InboxTypes, FileOr
<1>2. ASSUME NEW p \in Pruners PROVE Sweeps(p)'
  <2> DEFINE r == prune[p]
  <2>1. UNCHANGED <<day, prune, holder>> /\ Sweeps(p)
    BY <1>0, OperatorEffect
  <2>2. r.now \in Nat /\ r.held \subseteq Files /\ r.file \in Files
    BY <1>0, FileIs
  <2>3. \A g \in r.held : bin'[g].since > 0 => bin'[g].mod + TrashKeep < r.now
    <3> SUFFICES ASSUME NEW g \in r.held, bin'[g].since > 0 PROVE bin'[g].mod + TrashKeep < r.now
      OBVIOUS
    <3>1. bin'[g] = bin[g]
      BY <1>0, <2>2, OperatorEffect
    <3> QED BY <2>1, <3>1 DEF Sweeps
  <2>4. r.at = "rename" => AsNew(r.now, r.file)'
    <3>1. r.at = "rename" => AsNew(r.now, r.file)
      BY <2>1 DEF Sweeps, AsNew
    <3>2. r.now <= day
      BY <2>1 DEF Sweeps
    <3>3. \A g \in Files, n \in Nat : n <= day /\ AsNew(n, g) => AsNew(n, g)'
      BY <1>0, OperatorEffect
    <3>4. AsNew(r.now, r.file) => (AsNew(r.now, r.file))'
      <4>1. r' = r
        BY <2>1
      <4> DEFINE n == r.now  g == r.file
      <4>2. AsNew(n, g) => /\ box'[g] # NoFile => box'[g].mod >= n
                           /\ bin'[g].since = 0
                           /\ bin'[g] # NoFile => bin'[g].mod >= n
        BY <2>2, <3>2, <3>3 DEF AsNew
      <4> QED BY <4>1, <4>2 DEF AsNew
    <3> QED BY <3>1, <3>4
  <2> QED BY <2>1, <2>3, <2>4 DEF Sweeps, Pruning, AsNew
<1> QED BY <1>0, <1>1, <1>2, OperatorEffect DEF InboxInv

\* A prune begins.
LEMMA BeginStep ==
  ASSUME InboxInv, NEW p \in Pruners, NEW age \in Ages, Begin(p, age)
  PROVE  InboxInv'
<1> DEFINE r == [NoPrune EXCEPT !.at = "trash", !.now = day, !.age = age]
<1>0. InboxTypes /\ Stamps /\ (\A q \in Pruners : Sweeps(q)) /\ ~early
  BY DEF InboxInv
<1>1. r \in Prune /\ r.at = "trash" /\ r.now = day /\ r.held = {}
  BY <1>0, NoPruneIs DEF Prune, InboxTypes
<1>2. holder = Nobody /\ holder' = p /\ PruneStep(p, r) /\ UNCHANGED <<day, box, bin, mark, pruned, early>>
  BY DEF Begin, Locks, InInbox
<1> HIDE DEF r
<1>3. SweepsOn(p, r)
  BY <1>0, <1>1, <1>2, FileIs DEF SweepsOn
<1>4. prune' \in [Pruners -> Prune] /\ \A q \in Pruners : Sweeps(q)'
  BY <1>0, <1>1, <1>2, <1>3, SweepStep
<1> QED BY <1>0, <1>2, <1>4 DEF InboxInv, InboxTypes, Stamps

\* The trash is read.
LEMMA ScanTrashStep ==
  ASSUME InboxInv, NEW p \in Pruners, ScanTrash(p)
  PROVE  InboxInv'
<1> DEFINE old == {f \in Files_(bin) : prune[p].now > bin[f].mod + TrashKeep}
           r == [prune[p] EXCEPT !.at = "inbox", !.held = old]
<1>0. InboxTypes /\ Stamps /\ (\A q \in Pruners : Sweeps(q)) /\ ~early /\ prune[p] \in Prune
  BY FileIs DEF InboxInv
<1>1. old \subseteq Files /\ \A f \in old : bin[f].mod + TrashKeep < prune[p].now
  <2>1. \A f \in Files : bin[f].mod + TrashKeep \in Nat /\ prune[p].now \in Nat
    BY <1>0, FileIs, HousekeepingAssumption
  <2> QED BY <2>1 DEF Files_
<1>2. r \in Prune /\ r.at = "inbox" /\ r.now = prune[p].now /\ r.held = old
  BY <1>0, <1>1 DEF Prune
<1>3. Pruning(p) /\ PruneStep(p, r) /\ UNCHANGED <<day, box, bin, mark, pruned, early, holder>>
  BY DEF ScanTrash, InInbox, Pruning
<1> HIDE DEF r, old
<1>4. SweepsOn(p, r)
  BY <1>0, <1>1, <1>2, <1>3 DEF SweepsOn, Sweeps
<1>5. prune' \in [Pruners -> Prune] /\ \A q \in Pruners : Sweeps(q)'
  BY <1>0, <1>2, <1>3, <1>4, SweepStep
<1> QED BY <1>0, <1>3, <1>5 DEF InboxInv, InboxTypes, Stamps

\* The inbox is read, and the reading of the trash is over.
LEMMA ReadOnStep ==
  ASSUME InboxInv, NEW p \in Pruners, ScanInbox(p) \/ Deleted(p)
  PROVE  InboxInv'
<1>0. InboxTypes /\ Stamps /\ (\A q \in Pruners : Sweeps(q)) /\ ~early /\ prune[p] \in Prune
  BY FileIs DEF InboxInv
<1>1. Pruning(p) /\ UNCHANGED <<day, box, bin, mark, pruned, early, holder>>
  BY DEF ScanInbox, Deleted, InInbox, Pruning
<1>2. PICK r \in Prune : PruneStep(p, r) /\ r.now = prune[p].now /\ r.held = prune[p].held
                         /\ r.at \in {"delete", "move"} /\ (r.at = "move" => r.held = {})
  <2>1. CASE ScanInbox(p)
    <3> DEFINE old == {f \in Files_(box) : prune[p].now > box[f].mod + prune[p].age}
               was == [f \in Files |-> box[f].mod]
               r == [prune[p] EXCEPT !.at = "delete", !.due = old, !.was = was]
    <3>1. old \subseteq Files /\ was \in [Files -> Day \cup {0}]
      <4>1. \A f \in Files : box[f].mod \in Day \cup {0}
        BY <1>0 DEF InboxTypes, File, NoFile
      <4> QED BY <4>1 DEF Files_
    <3>2. PruneStep(p, r)
      BY <2>1 DEF ScanInbox
    <3> HIDE DEF old, was
    <3>3. r \in Prune /\ r.now = prune[p].now /\ r.held = prune[p].held /\ r.at = "delete"
      BY <1>0, <3>1 DEF Prune
    <3> QED BY <3>2, <3>3
  <2>2. CASE Deleted(p)
    <3> DEFINE r == [prune[p] EXCEPT !.at = "move"]
    <3>1. PruneStep(p, r) /\ prune[p].held = {}
      BY <2>2 DEF Deleted
    <3>2. r \in Prune /\ r.now = prune[p].now /\ r.held = prune[p].held /\ r.at = "move"
      BY <1>0 DEF Prune
    <3> QED BY <3>1, <3>2
  <2> QED BY <2>1, <2>2
<1>3. SweepsOn(p, r)
  BY <1>0, <1>1, <1>2 DEF SweepsOn, Sweeps
<1>4. prune' \in [Pruners -> Prune] /\ \A q \in Pruners : Sweeps(q)'
  BY <1>0, <1>1, <1>2, <1>3, SweepStep
<1> QED BY <1>0, <1>1, <1>4 DEF InboxInv, InboxTypes, Stamps

\* A file of the trash is removed: if Hand moved it there, it is a week ago.
LEMMA DeleteStep ==
  ASSUME InboxInv, NEW p \in Pruners, NEW f \in Files, Delete(p, f)
  PROVE  InboxInv'
<1> DEFINE left == prune[p].held \ {f}
           r == [prune[p] EXCEPT !.held = left]
<1>0. InboxTypes /\ Stamps /\ (\A q \in Pruners : Sweeps(q)) /\ ~early /\ prune[p] \in Prune
  BY FileIs DEF InboxInv
<1>1. Pruning(p) /\ f \in prune[p].held /\ prune[p].at = "delete" /\ UNCHANGED <<day, box, mark, pruned, holder>>
  BY DEF Delete, InInbox, Pruning
<1>2. PruneStep(p, r)
  BY DEF Delete
<1>3. left \subseteq Files /\ left \subseteq prune[p].held
  BY <1>0, FileIs
<1> HIDE DEF left
<1>4. r \in Prune /\ r.now = prune[p].now /\ r.held = left /\ r.at = "delete"
  BY <1>0, <1>1, <1>3 DEF Prune
<1> HIDE DEF r
<1>5. (bin' \in [Files -> FileOr]) /\ \A g \in Files : bin'[g] = bin[g] \/ bin'[g] = NoFile
  <2>1. bin \in [Files -> FileOr] /\ NoFile \in FileOr
    BY <1>0, FileIs DEF InboxTypes, FileOr
  <2>2. bin' = [bin EXCEPT ![f] = NoFile] \/ bin' = bin
    BY DEF Delete
  <2> QED BY <2>1, <2>2
<1>6. ~(bin[f].since > 0 /\ day <= bin[f].since + TrashKeep)
  <2> DEFINE s == bin[f].since  m == bin[f].mod  n == prune[p].now
  <2>1. s \in Nat /\ m \in Nat /\ n \in Nat /\ day \in Nat /\ TrashKeep \in Nat
    BY <1>0, FileIs, HousekeepingAssumption
  <2>2. s > 0 => m >= s /\ m + TrashKeep < n
    BY <1>0, <1>1 DEF Stamps, Sweeps
  <2>3. n <= day
    BY <1>0 DEF Sweeps
  <2> HIDE DEF s, m, n
  <2>4. ~(s > 0 /\ day <= s + TrashKeep)
    BY <2>1, <2>2, <2>3
  <2> QED BY <2>4 DEF s
<1>7. ~early'
  BY <1>0, <1>6 DEF Delete
<1>8. SweepsOn(p, r)
  <2>1. holder' = p /\ r.now <= day
    BY <1>0, <1>1, <1>4 DEF Sweeps
  <2>2. \A g \in r.held : bin'[g].since > 0 => bin'[g].mod + TrashKeep < r.now
    <3> SUFFICES ASSUME NEW g \in r.held, bin'[g].since > 0 PROVE bin'[g].mod + TrashKeep < r.now
      OBVIOUS
    <3>1. g \in prune[p].held /\ g \in Files
      BY <1>0, <1>3, <1>4, FileIs
    <3>2. bin'[g] = bin[g]
      BY <1>0, <1>5, <3>1, FileIs
    <3> QED BY <1>0, <1>4, <3>1, <3>2 DEF Sweeps
  <2> QED BY <1>4, <2>1, <2>2 DEF SweepsOn
<1>9. prune' \in [Pruners -> Prune] /\ \A q \in Pruners : Sweeps(q)'
  BY <1>0, <1>1, <1>2, <1>4, <1>8, SweepStep
<1>10. Stamps'
  BY <1>0, <1>1, <1>5, FileIs DEF Stamps
<1> QED BY <1>0, <1>1, <1>5, <1>7, <1>9, <1>10 DEF InboxInv, InboxTypes, FileOr

\* A file is stamped, to be renamed; or it is passed over.
LEMMA MoveStep ==
  ASSUME InboxInv, NEW p \in Pruners, NEW f \in Files, move(p, f)
  PROVE  InboxInv'
<1>0. InboxTypes /\ Stamps /\ (\A q \in Pruners : Sweeps(q)) /\ ~early /\ prune[p] \in Prune
  BY FileIs DEF InboxInv
<1>1. Pruning(p) /\ prune[p].at = "move" /\ holder' = p /\ prune[p].held = {} /\ prune[p].now <= day
      /\ UNCHANGED <<day, bin, mark, pruned, holder, early>>
  BY <1>0 DEF move, InInbox, Pruning, Sweeps
<1>2. CASE f \in Files_(box) \ Files_(bin) /\ box' = [box EXCEPT ![f].mod = Stamp(p, f)]
           /\ PruneStep(p, [prune[p] EXCEPT !.at = "rename", !.file = f, !.due = @ \ {f}])
  <2> DEFINE n == prune[p].now
             x == [box[f] EXCEPT !.mod = n]
             left == prune[p].due \ {f}
             r == [prune[p] EXCEPT !.at = "rename", !.file = f, !.due = left]
  <2>1. n \in Day /\ n \in Nat /\ left \subseteq Files
    BY <1>0, FileIs DEF Prune
  <2>2. x \in FileOr /\ x.mod = n /\ x.since = 0
    <3>1. box[f] \in File /\ box[f].since = 0
      BY <1>0, <1>2 DEF Files_, InboxTypes, Stamps
    <3> QED BY <2>1, <3>1 DEF FileOr, File
  <2>3. box' = [box EXCEPT ![f] = x] /\ PruneStep(p, r)
    BY <1>2 DEF Stamp
  <2> HIDE DEF left
  <2>4. r \in Prune /\ r.at = "rename" /\ r.file = f /\ r.now = n /\ r.held = {}
    BY <1>0, <1>1, <2>1 DEF Prune
  <2> HIDE DEF r, x
  <2>5. box' \in [Files -> FileOr] /\ box'[f] = x /\ \A g \in Files : g # f => box'[g] = box[g]
    <3>1. box \in [Files -> FileOr]
      BY <1>0 DEF InboxTypes, FileOr
    <3> QED BY <2>2, <2>3, <3>1
  <2>6. bin[f] = NoFile /\ NoFile.since = 0
    BY <1>2 DEF Files_, NoFile
  <2>7. SweepsOn(p, r)
    <3>1. box'[r.file].mod >= r.now
      BY <2>1, <2>2, <2>4, <2>5
    <3>2. bin'[r.file] = NoFile
      BY <1>1, <2>4, <2>6
    <3> QED BY <1>1, <2>4, <2>6, <3>1, <3>2 DEF SweepsOn
  <2>8. prune' \in [Pruners -> Prune] /\ \A q \in Pruners : Sweeps(q)'
    BY <1>0, <1>1, <2>3, <2>4, <2>7, SweepStep
  <2>9. Stamps'
    BY <1>0, <1>1, <2>2, <2>5 DEF Stamps
  <2> QED BY <1>0, <1>1, <2>5, <2>8, <2>9 DEF InboxInv, InboxTypes, FileOr
<1>3. CASE PruneStep(p, [prune[p] EXCEPT !.due = @ \ {f}]) /\ UNCHANGED box
  <2> DEFINE left == prune[p].due \ {f}
             r == [prune[p] EXCEPT !.due = left]
  <2>1. left \subseteq Files
    BY <1>0 DEF Prune
  <2>2. PruneStep(p, r)
    BY <1>3
  <2> HIDE DEF left
  <2>3. r \in Prune /\ r.at = "move" /\ r.now = prune[p].now /\ r.held = {}
    BY <1>0, <1>1, <2>1 DEF Prune
  <2> HIDE DEF r
  <2>4. SweepsOn(p, r)
    BY <1>1, <2>3 DEF SweepsOn
  <2>5. prune' \in [Pruners -> Prune] /\ \A q \in Pruners : Sweeps(q)'
    BY <1>0, <1>1, <2>2, <2>3, <2>4, SweepStep
  <2> QED BY <1>0, <1>1, <1>3, <2>5 DEF InboxInv, InboxTypes, Stamps
<1> QED BY <1>2, <1>3 DEF move

\* It is renamed into the trash, where it takes the place of no file of Hand's; or it stays, with its time as it was.
LEMMA RenameStep ==
  ASSUME InboxInv, NEW p \in Pruners, Rename(p)
  PROVE  InboxInv'
<1> DEFINE f == prune[p].file
           n == prune[p].now
<1>0. InboxTypes /\ Stamps /\ (\A q \in Pruners : Sweeps(q)) /\ ~early /\ prune[p] \in Prune
      /\ f \in Files /\ n \in Nat /\ n \in Day
  BY FileIs DEF InboxInv, Prune
<1>1. Pruning(p) /\ prune[p].at = "rename" /\ holder' = p /\ prune[p].held = {} /\ n <= day
      /\ UNCHANGED <<day, mark, pruned, holder>>
  BY <1>0 DEF Rename, InInbox, Pruning, Sweeps
<1>2. /\ box[f] # NoFile => box[f].mod >= n
      /\ bin[f].since = 0
  BY <1>0, <1>1 DEF Sweeps
<1>3. box \in [Files -> FileOr] /\ bin \in [Files -> FileOr] /\ NoFile \in FileOr /\ NoFile.since = 0
  BY <1>0, FileIs DEF InboxTypes, FileOr
<1>4. ASSUME NEW went \in BOOLEAN, PruneStep(p, [prune[p] EXCEPT !.at = "move", !.moved = went])
      PROVE  prune' \in [Pruners -> Prune] /\ \A q \in Pruners : Sweeps(q)'
  <2> DEFINE r == [prune[p] EXCEPT !.at = "move", !.moved = went]
  <2>1. r \in Prune /\ r.at = "move" /\ r.now = n /\ r.held = {}
    BY <1>0, <1>1 DEF Prune
  <2>2. PruneStep(p, r)
    BY <1>4
  <2> HIDE DEF r
  <2>3. SweepsOn(p, r)
    BY <1>1, <2>1 DEF SweepsOn
  <2> QED BY <1>0, <1>1, <2>1, <2>2, <2>3, SweepStep
<1>5. CASE /\ f \in Files_(box)
           /\ early' = (early \/ (bin[f].since > 0 /\ day <= bin[f].since + TrashKeep))
           /\ bin' = [bin EXCEPT ![f] = [box[f] EXCEPT !.since = n]]
           /\ box' = [box EXCEPT ![f] = NoFile]
           /\ PruneStep(p, [prune[p] EXCEPT !.at = "move", !.moved = TRUE])
  <2> DEFINE x == [box[f] EXCEPT !.since = n]
  <2>1. x \in FileOr /\ x.since = n /\ x.mod >= n
    <3>1. box[f] \in File /\ box[f].mod >= n
      BY <1>0, <1>2, <1>3, <1>5 DEF Files_, FileOr
    <3> QED BY <1>0, <3>1 DEF FileOr, File
  <2>2. ~early'
    <3>1. ~(bin[f].since > 0)
      BY <1>2
    <3> QED BY <1>0, <1>5, <3>1, Zenon
  <2> HIDE DEF x
  <2>3. bin' \in [Files -> FileOr] /\ bin'[f] = x /\ \A g \in Files : g # f => bin'[g] = bin[g]
    BY <1>0, <1>3, <1>5, <2>1 DEF x
  <2>4. box' \in [Files -> FileOr] /\ box'[f] = NoFile /\ \A g \in Files : g # f => box'[g] = box[g]
    BY <1>0, <1>3, <1>5
  <2>5. Stamps'
    BY <1>0, <1>3, <2>1, <2>3, <2>4 DEF Stamps
  <2>6. prune' \in [Pruners -> Prune] /\ \A q \in Pruners : Sweeps(q)'
    BY <1>4, <1>5
  <2> QED BY <1>0, <1>1, <2>2, <2>3, <2>4, <2>5, <2>6 DEF InboxInv, InboxTypes, FileOr
<1>6. CASE /\ PruneStep(p, [prune[p] EXCEPT !.at = "move"]) /\ UNCHANGED <<bin, early>>
           /\ (box' = [box EXCEPT ![f].mod = prune[p].was[f]] \/ UNCHANGED box)
  <2> DEFINE x == [box[f] EXCEPT !.mod = prune[p].was[f]]
  <2>1. prune[p].was[f] \in Day \cup {0} /\ box[f].since = 0
    BY <1>0 DEF Prune, Stamps
  <2>2. x \in FileOr /\ x.since = 0
    <3>1. box[f] = [mod |-> box[f].mod, since |-> 0]
      BY <1>0, <1>3, <2>1 DEF FileOr, File, NoFile
    <3>2. x = [mod |-> prune[p].was[f], since |-> 0]
      BY <3>1
    <3>3. prune[p].was[f] = 0 => x = NoFile
      BY <3>2 DEF NoFile
    <3>4. prune[p].was[f] \in Day => x \in File
      BY <3>2 DEF File
    <3> QED BY <2>1, <3>2, <3>3, <3>4 DEF FileOr
  <2>3. box' = [box EXCEPT ![f] = x] \/ box' = box
    BY <1>6
  <2> HIDE DEF x
  <2>4. box' \in [Files -> FileOr] /\ \A g \in Files : box'[g].since = 0
    BY <1>0, <1>3, <2>2, <2>3 DEF Stamps
  <2>5. prune' \in [Pruners -> Prune] /\ \A q \in Pruners : Sweeps(q)'
    <3> DEFINE b == prune[p].moved
    <3>1. [prune[p] EXCEPT !.at = "move"] = [prune[p] EXCEPT !.at = "move", !.moved = b] /\ b \in BOOLEAN
      BY <1>0 DEF Prune
    <3>2. PruneStep(p, [prune[p] EXCEPT !.at = "move", !.moved = b])
      BY <1>6, <3>1
    <3> HIDE DEF b
    <3> QED BY <1>4, <3>1, <3>2
  <2> QED BY <1>0, <1>1, <1>6, <2>4, <2>5 DEF InboxInv, InboxTypes, FileOr, Stamps
<1> QED BY <1>5, <1>6 DEF Rename

\* The prune is over, noted or not; or it is killed.
LEMMA OverStep ==
  ASSUME InboxInv, NEW p \in Pruners, InboxPruned(p)
  PROVE  InboxInv'
<1>0. InboxTypes /\ Stamps /\ (\A q \in Pruners : Sweeps(q)) /\ ~early /\ prune[p] \in Prune
  BY FileIs DEF InboxInv
<1>1. Pruning(p) /\ prune[p].now <= day /\ prune[p].held = {} /\ UNCHANGED <<day, box, bin, mark, early>>
      /\ pruned' \in Day \cup {0} /\ holder' \in Pruners \cup {Nobody}
  BY <1>0 DEF InboxPruned, InInbox, Pruning, Sweeps, InboxTypes, Prune
<1>2. PICK r \in Prune : PruneStep(p, r) /\ r.at \in {"idle", "mark"} /\ r.held = {} /\ r.now <= day
  <2>1. CASE PruneStep(p, [prune[p] EXCEPT !.at = "mark"])
    <3> DEFINE r == [prune[p] EXCEPT !.at = "mark"]
    <3>1. r \in Prune /\ r.at = "mark" /\ r.held = {} /\ r.now <= day
      BY <1>0, <1>1 DEF Prune
    <3> QED BY <2>1, <3>1
  <2>2. CASE PruneStep(p, NoPrune)
    <3>1. NoPrune \in Prune /\ NoPrune.at = "idle" /\ NoPrune.held = {} /\ NoPrune.now <= day
      BY <1>0, NoPruneIs, DaysAre DEF InboxTypes, Day
    <3> QED BY <2>2, <3>1
  <2> QED BY <2>1, <2>2 DEF InboxPruned
<1>3. SweepsOn(p, r)
  BY <1>2 DEF SweepsOn
<1>4. prune' \in [Pruners -> Prune] /\ \A q \in Pruners : Sweeps(q)'
  BY <1>0, <1>1, <1>2, <1>3, SweepStep
<1> QED BY <1>0, <1>1, <1>4 DEF InboxInv, InboxTypes, Stamps

LEMMA RestStep ==
  ASSUME InboxInv, NEW p \in Pruners, KillPruner(p) \/ (MarkDay /\ p = Watcher)
  PROVE  InboxInv'
<1>0. InboxTypes /\ Stamps /\ (\A q \in Pruners : Sweeps(q)) /\ ~early /\ prune[p] \in Prune
  BY FileIs DEF InboxInv
<1>1. /\ PruneStep(p, NoPrune) /\ UNCHANGED <<day, box, bin, early>>
      /\ pruned' \in Day \cup {0} /\ mark' \in Day \cup {0} /\ holder' \in Pruners \cup {Nobody}
      /\ holder' = holder \/ (holder = p /\ holder' = Nobody)
  <2>1. prune[p].now \in Day
    BY <1>0 DEF Prune
  <2> QED BY <1>0, <2>1 DEF KillPruner, MarkDay, InInbox, InboxTypes
<1>2. prune' \in [Pruners -> Prune] /\ prune'[p] = NoPrune /\ \A q \in Pruners : q # p => prune'[q] = prune[q]
  BY <1>0, <1>1, NoPruneIs DEF PruneStep, InboxTypes
<1>3. Sweeps(p)'
  <2>1. 1 <= day
    BY <1>0 DEF InboxTypes, Day
  <2> QED BY <1>1, <1>2, <2>1, NoPruneIs DEF Sweeps, Pruning
<1>4. ASSUME NEW q \in Pruners, q # p PROVE Sweeps(q)'
  <2>1. Sweeps(q) /\ prune'[q] = prune[q]
    BY <1>0, <1>2, <1>4
  <2>2. Pruning(q) => holder' = q
    BY <1>1, <1>4, <2>1 DEF Sweeps
  <2> QED BY <1>1, <2>1, <2>2 DEF Sweeps, Pruning
<1> QED BY <1>0, <1>1, <1>2, <1>3, <1>4 DEF InboxInv, InboxTypes, Stamps

LEMMA InboxStep == InboxInv /\ InboxNext => InboxInv'
<1> SUFFICES ASSUME InboxInv, InboxNext PROVE InboxInv'
  OBVIOUS
<1>1. ASSUME Marked PROVE InboxInv'
  <2>1. UNCHANGED <<day, box, bin, mark, prune, holder, early>> /\ pruned' = day
    BY <1>1 DEF Marked, InInbox
  <2> QED BY <2>1 DEF InboxInv, InboxTypes, Stamps, Sweeps, Pruning
<1>2. ASSUME MarkDay PROVE InboxInv'
  BY <1>2, RestStep, HousekeepingAssumption
<1>3. ASSUME NEW age \in Ages, pruneInbox(age) PROVE InboxInv'
  BY <1>3, BeginStep, HousekeepingAssumption DEF pruneInbox
<1>4. ASSUME NEW p \in Pruners, NEW age \in Ages, cmdInboxPrune(p, age) PROVE InboxInv'
  BY <1>4, BeginStep DEF cmdInboxPrune
<1>5. ASSUME NEW p \in Pruners, ScanTrash(p) \/ ScanInbox(p) \/ Deleted(p) \/ Rename(p) \/ InboxPruned(p) \/ KillPruner(p)
      PROVE  InboxInv'
  BY <1>5, ScanTrashStep, ReadOnStep, RenameStep, OverStep, RestStep
<1>6. ASSUME NEW p \in Pruners, NEW f \in Files, Delete(p, f) \/ move(p, f) PROVE InboxInv'
  BY <1>6, DeleteStep, MoveStep
<1>7. ASSUME NEW f \in Files, saveImage(f) \/ Restore(f) \/ PutInTrash(f) PROVE InboxInv'
  BY <1>7, OperatorStep
<1> QED BY <1>1, <1>2, <1>3, <1>4, <1>5, <1>6, <1>7 DEF InboxNext

-----------------------------------------------------------------------------
(* Housekeeping: reports and shots, scratch folders, snapshots *)

\* A run of gc is at a step with what it has; the rest of it is of no account.
LEMMA GcIs ==
  ASSUME PaperTypes
  PROVE  gc \in Gc /\ gc.found \in [Files -> Nat] /\ gc.todo \subseteq Files /\ gc.file \in Files /\ deeds \in Nat
  BY DEF PaperTypes, Gc

\* The operator's deeds are counted, so that none was done while there are none.
LEMMA DeedIs == ASSUME PaperTypes, ByHand PROVE deeds' \in Nat /\ deeds' # 0
  BY DEF ByHand, PaperTypes

LEMMA WriteStep ==
  ASSUME PaperInv, day \in Day, NEW f \in Files, Write(f)
  PROVE  PaperInv'
<1>0. PaperTypes /\ Scanned /\ Folders /\ ~unseen /\ gc \in Gc /\ deeds \in Nat
  BY GcIs DEF PaperInv
<1> DEFINE x == [mod |-> day, ver |-> deeds + 1]
<1>1. docs' = [docs EXCEPT ![f] = [mod |-> day, ver |-> deeds + 1]] /\ UNCHANGED <<unseen, rowOf, trees, scratch>>
      /\ gc' = IF gc.at = "remove" /\ gc.file = f THEN [gc EXCEPT !.swapped = TRUE] ELSE gc
  BY DEF Write, InDocuments, scratchVars
<1>2. deeds' \in Nat /\ deeds' # 0
  BY <1>0, DeedIs DEF Write
<1>3. gc' \in Gc /\ gc'.at = gc.at /\ gc'.file = gc.file /\ gc'.found = gc.found /\ gc'.todo = gc.todo
      /\ (gc.at = "remove" /\ gc.file = f => gc'.swapped) /\ (~(gc.at = "remove" /\ gc.file = f) => gc' = gc)
  <2>1. CASE gc.at = "remove" /\ gc.file = f
    <3>1. gc' = [gc EXCEPT !.swapped = TRUE]
      BY <1>1, <2>1
    <3> QED BY <1>0, <2>1, <3>1 DEF Gc
  <2>2. CASE ~(gc.at = "remove" /\ gc.file = f)
    BY <1>0, <1>1, <2>2
  <2> QED BY <2>1, <2>2
<1>4. docs' \in [Files -> Doc] /\ \A g \in Files : g # f => docs'[g] = docs[g]
  <2>1. x \in Doc
    BY <1>0 DEF Doc
  <2> QED BY <1>0, <1>1, <2>1 DEF PaperTypes
<1>5. Scanned'
  <2>1. gc.file \in Files
    BY <1>0, GcIs
  <2> QED BY <1>0, <1>3, <1>4, <2>1 DEF Scanned
<1>6. Folders'
  BY <1>0, <1>1, <1>2 DEF Folders
<1> QED BY <1>0, <1>1, <1>2, <1>3, <1>4, <1>5, <1>6 DEF PaperInv, PaperTypes

\* Of documents, gc looks again before it removes.
LEMMA DocumentsStep ==
  ASSUME PaperInv, DocumentsNext, ~\E f \in Files : Write(f)
  PROVE  PaperInv'
<1>0. PaperTypes /\ Scanned /\ Folders /\ ~unseen /\ gc \in Gc /\ deeds \in Nat /\ gc.found \in [Files -> Nat] /\ gc.file \in Files
  BY GcIs DEF PaperInv
<1>1. UNCHANGED <<rowOf, trees, scratch, deeds>>
  BY DEF DocumentsNext, cmdGC, Check, RemoveDoc, GcRemoved, InDocuments, scratchVars
<1>2. ASSUME gc' \in Gc, gc'.at # "folders", docs' \in [Files -> Doc], ~unseen', Scanned' PROVE PaperInv'
  BY <1>0, <1>1, <1>2 DEF PaperInv, PaperTypes, Folders
<1>3. ASSUME NEW age \in Ages, NEW scope \in SUBSET Files, cmdGC(age, scope) PROVE PaperInv'
  <2> DEFINE t == Scan(age, scope)  w == [f \in Files |-> docs[f].ver]
  <2>1. t \subseteq Files /\ w \in [Files -> Nat]
    BY <1>0 DEF Scan, PaperTypes, Doc
  <2>2. gc' = [NoGc EXCEPT !.at = "check", !.todo = t, !.found = w] /\ UNCHANGED <<docs, unseen>>
    BY <1>3 DEF cmdGC
  <2> HIDE DEF t, w
  <2>3. gc' \in Gc /\ gc'.at = "check"
    BY <2>1, <2>2, NoGcIs DEF Gc
  <2> QED BY <1>0, <1>2, <2>2, <2>3 DEF Scanned, PaperTypes
<1>4. ASSUME NEW f \in Files, Check(f) PROVE PaperInv'
  <2> DEFINE t == gc.todo \ {f}  a == IF Same(f) THEN "remove" ELSE "check"
  <2>1. t \subseteq Files /\ a \in {"remove", "check"} /\ (a = "remove" => docs[f].ver = gc.found[f])
    BY <1>0, GcIs DEF Same
  <2>2. gc' = [gc EXCEPT !.todo = t, !.file = f, !.at = a, !.swapped = FALSE] /\ UNCHANGED <<docs, unseen>>
    BY <1>4 DEF Check
  <2> HIDE DEF t, a
  <2>3. gc' \in Gc /\ gc'.at = a /\ gc'.file = f /\ gc'.found = gc.found
    BY <1>0, <2>1, <2>2 DEF Gc
  <2> QED BY <1>0, <1>2, <2>1, <2>2, <2>3 DEF Scanned, PaperTypes
<1>5. ASSUME RemoveDoc PROVE PaperInv'
  <2>1. gc' = [gc EXCEPT !.at = "check"]
    BY <1>5 DEF RemoveDoc
  <2>2. gc' \in Gc /\ gc'.at = "check"
    BY <1>0, <2>1 DEF Gc
  <2>3. docs' \in [Files -> Doc]
    <3> DEFINE x == [docs[gc.file] EXCEPT !.mod = 0]
    <3>1. x \in Doc
      BY <1>0 DEF PaperTypes, Doc
    <3>2. docs' = [docs EXCEPT ![gc.file] = x] \/ docs' = docs
      BY <1>5 DEF RemoveDoc
    <3> HIDE DEF x
    <3> QED BY <1>0, <3>1, <3>2 DEF PaperTypes
  <2>4. ~unseen'
    <3>1. docs[gc.file].ver = gc.found[gc.file] \/ gc.swapped
      BY <1>0, <1>5 DEF RemoveDoc, Scanned
    <3> QED BY <1>0, <1>5, <3>1 DEF RemoveDoc
  <2> QED BY <1>2, <2>2, <2>3, <2>4 DEF Scanned
<1>6. ASSUME GcRemoved PROVE PaperInv'
  <2>1. gc' = NoGc /\ UNCHANGED <<docs, unseen>>
    BY <1>6 DEF GcRemoved
  <2> QED BY <1>0, <1>2, <2>1, NoGcIs DEF Scanned, PaperTypes
<1> QED BY <1>3, <1>4, <1>5, <1>6 DEF DocumentsNext

\* Of scratch folders: attempts come, go, and lose their worktrees.
LEMMA AttemptsStep ==
  ASSUME PaperInv, NEW f \in Files,
         AddRow(f) \/ AddWorktree(f) \/ makePrivate(f) \/ EndAttempt(f) \/ CleanWorktree(f) \/ removeScratch(f) \/ LoseWorktree(f)
  PROVE  PaperInv'
<1>0. PaperTypes /\ Scanned /\ Folders /\ ~unseen /\ deeds \in Nat
  BY GcIs DEF PaperInv
<1>1. UNCHANGED <<docs, gc, unseen>>
  BY DEF AddRow, AddWorktree, makePrivate, EndAttempt, CleanWorktree, removeScratch, LoseWorktree,
     InScratch
<1>2. (deeds' = deeds \/ (deeds' \in Nat /\ deeds' # 0)) /\ (LoseWorktree(f) => deeds' # 0)
  BY <1>0, DeedIs DEF AddRow, AddWorktree, makePrivate, EndAttempt, CleanWorktree, removeScratch,
     LoseWorktree
<1>3. /\ rowOf' \in [Files -> {"none", "live", "ended"}]
      /\ \A g \in Files : /\ rowOf[g] # "none" => rowOf'[g] # "none"
                          /\ rowOf[g] = "ended" => rowOf'[g] = "ended"
                          /\ rowOf'[g] = "live" => rowOf[g] = "live" \/ rowOf[g] = "none"
  BY <1>0 DEF AddRow, AddWorktree, makePrivate, EndAttempt, CleanWorktree, removeScratch,
     LoseWorktree, PaperTypes
<1>4. ASSUME NEW g \in Files, g \in trees' \cup scratch' PROVE rowOf'[g] # "none"
  <2>1. g \in trees \cup scratch \/ (g = f /\ rowOf[f] # "none")
    BY <1>0, <1>4 DEF AddRow, AddWorktree, makePrivate, EndAttempt, CleanWorktree, removeScratch,
       LoseWorktree, Folders
  <2> QED BY <1>0, <1>3, <2>1 DEF Folders
<1>5. ASSUME NEW g \in Files, deeds' = 0, rowOf'[g] = "live", g \in scratch' PROVE g \in trees'
  <2>0. deeds = 0 /\ ~LoseWorktree(f)
    BY <1>2, <1>5
  <2>1. g \in trees \/ g \notin scratch \/ rowOf[g] # "live"
    BY <1>0, <2>0 DEF Folders
  <2>2. g \in scratch => rowOf[g] = "live"
    BY <1>0, <1>3, <1>5 DEF Folders
  <2> QED BY <1>5, <2>0, <2>1, <2>2 DEF AddRow, AddWorktree, makePrivate, EndAttempt,
     CleanWorktree, removeScratch
<1>6. Folders'
  <2>1. deeds' = 0 => deeds = 0
    BY <1>2
  <2>2. gc.todo \subseteq Files
    BY <1>0, GcIs
  <2> QED BY <1>0, <1>1, <1>3, <1>4, <1>5, <2>1, <2>2 DEF Folders
<1>7. Scanned' /\ PaperTypes'
  BY <1>0, <1>1, <1>2, <1>3 DEF Scanned, PaperTypes
<1> QED BY <1>0, <1>1, <1>6, <1>7 DEF PaperInv

\* attempt gc: what is on its list had ended when it was made.
LEMMA OrphansStep ==
  ASSUME PaperInv, ReadLive \/ (\E old \in SUBSET Files : ListOrphans(old)) \/ (\E f \in Files : RemoveFolder(f)) \/ FoldersDone
  PROVE  PaperInv'
<1>0. PaperTypes /\ Scanned /\ Folders /\ ~unseen /\ gc \in Gc /\ deeds \in Nat /\ gc.todo \subseteq Files
  BY GcIs DEF PaperInv
<1>1. UNCHANGED <<docs, rowOf, trees, deeds>>
  BY DEF ReadLive, ListOrphans, RemoveFolder, FoldersDone, InScratch, scratchVars
<1>2. ASSUME gc' \in Gc, gc'.at # "remove", scratch' \subseteq scratch, ~unseen',
             deeds = 0 /\ gc'.at = "folders" => \A f \in gc'.todo : rowOf[f] = "ended"
      PROVE  PaperInv'
  BY <1>0, <1>1, <1>2 DEF PaperInv, PaperTypes, Folders, Scanned
<1>3. CASE ReadLive
  <2> DEFINE l == {f \in Files : rowOf[f] = "live"}
  <2>1. gc' = [NoGc EXCEPT !.at = "list", !.live = l] /\ UNCHANGED <<scratch, unseen>> /\ l \subseteq Files
    BY <1>3 DEF ReadLive, scratchVars
  <2> HIDE DEF l
  <2>2. gc' \in Gc /\ gc'.at = "list"
    BY <2>1, NoGcIs DEF Gc
  <2> QED BY <1>0, <1>2, <2>1, <2>2
<1>4. ASSUME NEW old \in SUBSET Files, ListOrphans(old) PROVE PaperInv'
  <2> DEFINE t == {f \in old : scratchOrphans(f)}
  <2>1. gc' = [gc EXCEPT !.at = "folders", !.todo = t] /\ UNCHANGED <<scratch, unseen>> /\ old \subseteq scratch
    BY <1>4 DEF ListOrphans, scratchVars
  <2>2. t \subseteq Files
    OBVIOUS
  <2>3. deeds = 0 => \A f \in t : rowOf[f] = "ended"
    <3> SUFFICES ASSUME deeds = 0, NEW f \in t PROVE rowOf[f] = "ended"
      OBVIOUS
    <3>1. f \in Files /\ f \in scratch /\ f \notin trees
      BY <2>1 DEF scratchOrphans, Orphans
    <3>2. rowOf[f] # "none" /\ rowOf[f] # "live" /\ rowOf[f] \in {"none", "live", "ended"}
      BY <1>0, <3>1 DEF Folders, PaperTypes
    <3> QED BY <3>2
  <2> HIDE DEF t
  <2>4. gc' \in Gc /\ gc'.at = "folders" /\ gc'.todo = t
    BY <1>0, <2>1, <2>2 DEF Gc
  <2> QED BY <1>0, <1>2, <2>1, <2>3, <2>4
<1>5. ASSUME NEW f \in Files, RemoveFolder(f) PROVE PaperInv'
  <2> DEFINE t == gc.todo \ {f}
  <2>1. gc' = [gc EXCEPT !.todo = t] /\ gc.at = "folders" /\ f \in gc.todo /\ t \subseteq gc.todo
    BY <1>5 DEF RemoveFolder
  <2> HIDE DEF t
  <2>2. gc' \in Gc /\ gc'.at = "folders" /\ gc'.todo = t
    BY <1>0, <2>1 DEF Gc
  <2>3. deeds = 0 => rowOf[f] = "ended"
    BY <1>0, <2>1 DEF Folders
  <2>4. ~unseen' /\ scratch' \subseteq scratch
    <3>1. ~(rowOf[f] = "live" /\ deeds = 0)
      BY <2>3
    <3>2. (scratch' = scratch \ {f} /\ unseen' = (unseen \/ (f \in scratch /\ rowOf[f] = "live" /\ deeds = 0)))
            \/ UNCHANGED <<scratch, unseen>>
      BY <1>5 DEF RemoveFolder
    <3>3. ~unseen'
      BY <1>0, <3>1, <3>2, Zenon
    <3> QED BY <3>2, <3>3
  <2>5. deeds = 0 => \A g \in t : rowOf[g] = "ended"
    BY <1>0, <2>1 DEF Folders
  <2> QED BY <1>2, <2>2, <2>4, <2>5
<1>6. CASE FoldersDone
  <2>1. gc' = NoGc /\ UNCHANGED <<scratch, unseen>>
    BY <1>6 DEF FoldersDone, scratchVars
  <2> QED BY <1>0, <1>2, <2>1, NoGcIs
<1> QED BY <1>3, <1>4, <1>5, <1>6

\* A copy is whole before it gets its name.
LEMMA CopyStep ==
  ASSUME SnapInv, day \in Day, snapshot \/ Backup \/ StopSnapshot
  PROVE  SnapInv'
<1>0. SnapTypes /\ SnapshotsKept /\ (snap.at = "rename" => partial = "whole") /\ \A d \in Day : snaps[d] # "none" => d \in taken
  BY DEF SnapInv
<1>1. UNCHANGED <<snaps, taken>>
  BY DEF snapshot, Backup, StopSnapshot
<1>2. /\ partial' \in {"none", "part", "whole"} /\ snap' \in [at : {"idle", "copy", "rename", "prune"}, for : Day, seen : Day \cup {0}]
      /\ snap'.at = "rename" => partial' = "whole"
  <2>1. CASE snapshot
    BY <1>0, <2>1 DEF snapshot, SnapTypes
  <2>2. CASE Backup
    <3>1. snap.at = "copy" /\ partial' \in {"none", "part", "whole"}
      BY <1>0, <2>2 DEF Backup, SnapTypes
    <3>2. CASE UNCHANGED snap
      BY <1>0, <3>1, <3>2 DEF SnapTypes
    <3>3. CASE Checked /\ snap' = [snap EXCEPT !.at = "rename"] /\ UNCHANGED partial
      BY <1>0, <3>1, <3>3 DEF SnapTypes, Checked
    <3>4. CASE snap' = Failed
      <4>1. snap.for \in Day \cup {0}
        BY <1>0 DEF SnapTypes
      <4> QED BY <1>0, <3>1, <3>4, <4>1 DEF Failed, SnapTypes
    <3> QED BY <2>2, <3>2, <3>3, <3>4 DEF Backup
  <2>3. CASE StopSnapshot
    BY <1>0, <2>3 DEF StopSnapshot, SnapTypes
  <2> QED BY <2>1, <2>2, <2>3
<1> QED BY <1>0, <1>1, <1>2 DEF SnapInv, SnapTypes, SnapshotsKept

\* The days after one.
Later2(S, d) == {e \in S : e > d}

LEMMA NewestStay ==
  ASSUME NEW S \in SUBSET Day, NEW T \in SUBSET Day, S \subseteq T, NEW d \in Day,
         Cardinality(Later2(T, d)) < SnapshotKeep
  PROVE  Cardinality(Later2(S, d)) < SnapshotKeep
<1>1. IsFiniteSet(Later2(T, d)) /\ Later2(S, d) \subseteq Later2(T, d)
  BY DaysAre, FS_Subset DEF Later2
<1>2. Cardinality(Later2(S, d)) <= Cardinality(Later2(T, d)) /\ Cardinality(Later2(S, d)) \in Nat /\ Cardinality(Later2(T, d)) \in Nat
  BY <1>1, FS_Subset, FS_CardinalityType
<1> QED BY <1>2, HousekeepingAssumption

LEMMA RenamedStep ==
  ASSUME SnapInv, RenameSnapshot
  PROVE  SnapInv'
<1>0. SnapTypes /\ SnapshotsKept /\ (snap.at = "rename" => partial = "whole") /\ \A d \in Day : snaps[d] # "none" => d \in taken
  BY DEF SnapInv
<1>1. CASE /\ snaps' = [snaps EXCEPT ![snap.for] = partial] /\ partial' = "none"
           /\ taken' = taken \cup {snap.for}
           /\ snap' = [snap EXCEPT !.at = "prune", !.seen = snap.for]
  <2> DEFINE n == snap.for
  <2>1. n \in Day /\ partial = "whole"
    BY <1>0 DEF SnapTypes, RenameSnapshot
  <2>2. snap' \in [at : {"idle", "copy", "rename", "prune"}, for : Day, seen : Day \cup {0}] /\ snap'.at = "prune"
    BY <1>0, <1>1, <2>1 DEF SnapTypes
  <2>3. snaps' \in [Day -> {"none", "part", "whole"}] /\ snaps'[n] = "whole" /\ \A d \in Day : d # n => snaps'[d] = snaps[d]
    BY <1>0, <1>1, <2>1 DEF SnapTypes
  <2>4. SnapTypes'
    BY <1>0, <1>1, <2>1, <2>2, <2>3 DEF SnapTypes
  <2>5. taken \subseteq taken' /\ taken' \subseteq Day /\ taken \subseteq Day
    BY <1>0, <1>1, <2>1 DEF SnapTypes
  <2>6. ASSUME NEW d \in taken', Cardinality(Later2(taken', d)) < SnapshotKeep PROVE snaps'[d] = "whole"
    <3>1. CASE d = n
      BY <2>3, <3>1
    <3>2. CASE d # n
      <4>1. d \in taken /\ d \in Day
        BY <1>1, <2>5, <3>2
      <4>2. Cardinality(Later2(taken, d)) < SnapshotKeep
        BY <2>5, <2>6, <4>1, NewestStay
      <4>3. snaps[d] = "whole"
        BY <1>0, <4>1, <4>2 DEF SnapshotsKept, Later2
      <4> QED BY <2>3, <3>2, <4>1, <4>3
    <3> QED BY <3>1, <3>2
  <2>7. SnapshotsKept'
    <3>1. \A d \in Day : snaps'[d] # "part"
      BY <1>0, <2>3 DEF SnapshotsKept
    <3> QED BY <2>6, <3>1 DEF SnapshotsKept, Later2
  <2>8. \A d \in Day : snaps'[d] # "none" => d \in taken'
    BY <1>0, <1>1, <2>3
  <2> QED BY <2>2, <2>4, <2>7, <2>8 DEF SnapInv
<1>2. CASE snap' = Failed /\ UNCHANGED <<snaps, partial, taken>>
  <2>1. snap' \in [at : {"idle", "copy", "rename", "prune"}, for : Day, seen : Day \cup {0}] /\ snap'.at = "idle"
    BY <1>0, <1>2 DEF SnapTypes, Failed
  <2> QED BY <1>0, <1>2, <2>1 DEF SnapInv, SnapTypes, SnapshotsKept
<1> QED BY <1>1, <1>2 DEF RenameSnapshot

\* The oldest goes, when there are more than are kept.
LEMMA PrunedStep ==
  ASSUME SnapInv, pruneSnapshots
  PROVE  SnapInv'
<1> DEFINE kept == {d \in Day : snaps[d] # "none"}
<1>0. SnapTypes /\ SnapshotsKept /\ \A d \in Day : snaps[d] # "none" => d \in taken
  BY DEF SnapInv
<1>1. partial' = "none" /\ taken' = taken /\ snap.at = "prune" /\ taken \subseteq Day
  BY <1>0 DEF pruneSnapshots, SnapTypes
<1>2. ASSUME NEW d \in kept, \A e \in kept : d <= e, snaps' = [snaps EXCEPT ![d] = "none"], snap' = snap,
             Cardinality(kept) > SnapshotKeep
      PROVE  SnapInv'
  <2>1. snaps' \in [Day -> {"none", "part", "whole"}] /\ snaps'[d] = "none" /\ \A e \in Day : e # d => snaps'[e] = snaps[e]
    BY <1>0, <1>2 DEF SnapTypes
  <2>2. ~(Cardinality(Later2(taken, d)) < SnapshotKeep)
    <3>1. IsFiniteSet(kept) /\ kept \subseteq Day /\ Day \subseteq Nat
      BY DaysAre, FS_Subset
    <3>2. IsFiniteSet(kept \ {d}) /\ Cardinality(kept \ {d}) = Cardinality(kept) - 1 /\ Cardinality(kept) \in Nat
      BY <3>1, FS_RemoveElement, FS_CardinalityType
    <3>3. kept \ {d} \subseteq Later2(taken, d)
      <4> SUFFICES ASSUME NEW e \in kept \ {d} PROVE e \in taken /\ e > d
        BY DEF Later2
      <4>1. e \in taken
        BY <1>0
      <4>2. d <= e /\ e # d /\ e \in Nat /\ d \in Nat
        BY <1>2, <3>1
      <4> QED BY <4>1, <4>2
    <3>4. IsFiniteSet(Later2(taken, d))
      BY <1>1, DaysAre, FS_Subset DEF Later2
    <3>5. Cardinality(kept \ {d}) <= Cardinality(Later2(taken, d)) /\ Cardinality(Later2(taken, d)) \in Nat
      BY <3>3, <3>4, FS_Subset, FS_CardinalityType
    <3> HIDE DEF kept
    <3> QED BY <1>2, <3>2, <3>5, HousekeepingAssumption
  <2>3. SnapshotsKept'
    <3>1. \A e \in Day : snaps'[e] # "part"
      BY <1>0, <2>1 DEF SnapshotsKept
    <3>2. ASSUME NEW e \in taken, Cardinality(Later2(taken, e)) < SnapshotKeep PROVE snaps'[e] = "whole"
      BY <1>0, <1>1, <2>1, <2>2, <3>2 DEF SnapshotsKept, Later2
    <3> QED BY <1>1, <3>1, <3>2 DEF SnapshotsKept, Later2
  <2>4. \A e \in Day : snaps'[e] # "none" => e \in taken'
    BY <1>0, <1>1, <2>1
  <2> QED BY <1>0, <1>1, <1>2, <2>1, <2>3, <2>4 DEF SnapInv, SnapTypes
<1>3. CASE snap' = [snap EXCEPT !.at = "idle"] /\ UNCHANGED snaps
  <2>1. snap' \in [at : {"idle", "copy", "rename", "prune"}, for : Day, seen : Day \cup {0}] /\ snap'.at = "idle"
    BY <1>0, <1>3 DEF SnapTypes
  <2> QED BY <1>0, <1>1, <1>3, <2>1 DEF SnapInv, SnapTypes, SnapshotsKept
<1> QED BY <1>2, <1>3 DEF pruneSnapshots

\* The chores share nothing but the day.
LEMMA KeepingStep == KeepingInv /\ [KeepingNext]_keepVars => KeepingInv'
<1> SUFFICES ASSUME KeepingInv, [KeepingNext]_keepVars PROVE KeepingInv'
  OBVIOUS
<1>0. InboxInv /\ PaperInv /\ SnapInv /\ day \in Day
  BY DEF KeepingInv, InboxInv, InboxTypes
<1>1. UNCHANGED <<day, inboxVars>> => InboxInv'
  BY <1>0 DEF inboxVars, InboxInv, InboxTypes, Stamps, Sweeps, Pruning
<1>2. UNCHANGED <<docs, gc, unseen, scratchVars, deeds>> => PaperInv'
  BY <1>0 DEF scratchVars, PaperInv, PaperTypes, Scanned, Folders
<1>3. UNCHANGED snapVars => SnapInv'
  BY <1>0 DEF snapVars, SnapInv, SnapTypes, SnapshotsKept
<1>4. CASE NewDay
  <2>1. day' = day + 1 /\ day < MaxDay /\ UNCHANGED <<box, bin, mark, pruned, prune, holder, early>>
    BY <1>4 DEF NewDay, inboxVars
  <2>2. day' \in Day /\ day <= day'
    BY <1>0, <2>1, HousekeepingAssumption DEF Day
  <2>3. ASSUME NEW p \in Pruners PROVE Sweeps(p)'
    <3>1. Sweeps(p) /\ prune[p].now \in Nat /\ day \in Nat /\ day' \in Nat
      BY <1>0, <2>2, FileIs, DaysAre DEF InboxInv
    <3>2. prune[p].now <= day'
      BY <2>2, <3>1 DEF Sweeps
    <3> QED BY <2>1, <3>1, <3>2 DEF Sweeps, Pruning
  <2>4. InboxInv'
    BY <1>0, <2>1, <2>2, <2>3 DEF InboxInv, InboxTypes, Stamps
  <2> QED BY <1>2, <1>3, <1>4, <2>4 DEF NewDay, KeepingInv
<1>5. CASE InboxNext
  <2>1. InboxInv'
    BY <1>0, <1>5, InboxStep
  <2>2. InInbox
    BY <1>5 DEF InboxNext, saveImage, Restore, PutInTrash, cmdInboxPrune, pruneInbox, Begin,
       Marked, ScanTrash, ScanInbox,
       Delete, Deleted, move, Rename, InboxPruned, MarkDay, KillPruner
  <2>3. PaperTypes' /\ Folders' /\ UNCHANGED <<docs, gc, unseen>>
    <3>1. UNCHANGED <<docs, gc, unseen, rowOf, trees, scratch>>
      BY <2>2 DEF InInbox, scratchVars
    <3>2. PaperTypes /\ Folders
      BY <1>0 DEF PaperInv
    <3>3. deeds' = deeds \/ (deeds' \in Nat /\ deeds' # 0)
      <4>1. ByHand => deeds' \in Nat /\ deeds' # 0
        BY <3>2, DeedIs
      <4>2. ByHand \/ deeds' = deeds
        BY <1>5 DEF InboxNext, saveImage, Restore, PutInTrash, cmdInboxPrune, pruneInbox, Begin,
           Marked, ScanTrash, ScanInbox,
           Delete, Deleted, move, Rename, InboxPruned, MarkDay, KillPruner
      <4> QED BY <4>1, <4>2
    <3> QED BY <3>1, <3>2, <3>3 DEF PaperTypes, Folders
  <2>4. PaperInv'
    BY <1>0, <2>3 DEF PaperInv, Scanned
  <2> QED BY <1>3, <2>1, <2>2, <2>4 DEF InInbox, KeepingInv
<1>6. CASE DocumentsNext
  <2>1. InDocuments
    BY <1>6 DEF DocumentsNext, Write, cmdGC, Check, RemoveDoc, GcRemoved
  <2>2. PaperInv'
    BY <1>0, <1>6, WriteStep, DocumentsStep
  <2> QED BY <1>1, <1>3, <2>1, <2>2 DEF InDocuments, KeepingInv
<1>7. CASE ScratchNext
  <2>1. InScratch
    BY <1>7 DEF ScratchNext, AddRow, AddWorktree, makePrivate, EndAttempt, CleanWorktree,
       removeScratch, LoseWorktree,
       RemoveFolder, ReadLive, ListOrphans, FoldersDone
  <2>2. PaperInv'
    BY <1>0, <1>7, AttemptsStep, OrphansStep DEF ScratchNext
  <2> QED BY <1>1, <1>3, <2>1, <2>2 DEF InScratch, KeepingInv
<1>8. CASE SnapshotsNext
  <2>1. InSnapshots
    BY <1>8 DEF SnapshotsNext, snapshot, Backup, RenameSnapshot, pruneSnapshots, StopSnapshot
  <2>2. SnapInv'
    BY <1>0, <1>8, CopyStep, RenamedStep, PrunedStep DEF SnapshotsNext
  <2> QED BY <1>1, <1>2, <2>1, <2>2 DEF InSnapshots, KeepingInv
<1>9. CASE UNCHANGED keepVars
  BY <1>1, <1>2, <1>3, <1>9 DEF keepVars, KeepingInv
<1> QED BY <1>4, <1>5, <1>6, <1>7, <1>8, <1>9 DEF KeepingNext

\* What is removed was old, and what a trash and snapshots keep is there (inbox/inbox.go, retention/retention.go,
\* cli/gc.go and the watcher's daily snapshot).
THEOREM FilesSafe == KeepingSpec => []FilesSafety
<1> QED BY KeepingStarts, KeepingStep, KeepingImplies, PTL DEF KeepingSpec

-----------------------------------------------------------------------------
(* FleetImport: the inductive invariant *)

ImportAts ==
  {"idle", "lock", "marker", "event", "source", "destination", "source again", "destination again", "begin", "commit",
   "mark", "file", "create", "copy"}
NameMap == [Names -> 0 .. MaxName]
Projects == [Names -> Repos \cup {NoRepo}]
Command ==
  [at : ImportAts, src : Homes \cup {NoFleet}, dst : Homes \cup {NoFleet}, holds : SUBSET Homes,
   seen : SUBSET Names, as : NameMap, file : Nat \ {0}]
FiledTask == [project : Names, ref : Nat, from : {<<>>} \cup (Homes \X (Nat \ {0}))]

ImportTypes ==
  /\ projects \in [Homes -> Projects] /\ tasks \in [Homes -> Seq(FiledTask)]
  /\ imported \in [Homes -> SUBSET Homes] /\ marker \in [Homes -> Homes \cup {NoFleet}] /\ live \subseteq Homes
  /\ notes \in [Homes -> [Names -> 0 .. Part]] /\ cmd \in [Imports -> Command] /\ mishaps \in Nat

\* A command that runs has two homes and, from the lock on, holds both.
Homed(c) ==
  /\ cmd[c].at # "idle" => cmd[c].src \in Homes /\ cmd[c].dst \in Homes /\ cmd[c].src # cmd[c].dst
  /\ cmd[c].at \notin {"idle", "lock"} => {cmd[c].src, cmd[c].dst} \subseteq cmd[c].holds
HoldersApart ==
  /\ \A c \in Imports : Homed(c)
  /\ \A c, e \in Imports : c # e => cmd[c].holds \cap cmd[e].holds = {}

\* What a command found under its locks is still so.
Found(c) ==
  /\ cmd[c].at \in {"commit", "mark"} => marker[cmd[c].src] = NoFleet
  /\ cmd[c].at = "commit" =>
       cmd[c].src \notin imported[cmd[c].dst] /\ \A n \in cmd[c].seen : projects[cmd[c].src][n] # NoRepo
  /\ cmd[c].at \in {"mark", "file", "create", "copy"} => cmd[c].src \in imported[cmd[c].dst]
  /\ cmd[c].at \in {"create", "copy"} => cmd[c].file \in Names
  /\ cmd[c].at = "copy" => notes[cmd[c].dst][Target(c)] = Part
StillFound == \A c \in Imports : Found(c)

\* Without a mishap, an import that is not marked yet is about to be.
Marking(s, d) == marker[s] = d \/ \E c \in Imports : cmd[c].at = "mark" /\ cmd[c].src = s /\ cmd[c].dst = d
MarkersTold ==
  /\ \A f \in Homes : f \notin imported[f]
  /\ \A s \in Homes : marker[s] # NoFleet => s \in imported[marker[s]]
  /\ mishaps = 0 => \A s, d \in Homes : s \in imported[d] => Marking(s, d)

\* A task is of a project that is there, refers to a task that is there and,
\* if it was imported, came with an import and is what it was in its source.
Entry(f, i) ==
  LET t == tasks[f][i] IN
  /\ projects[f][t.project] # NoRepo /\ t.ref \in {0} \cup DOMAIN tasks[f]
  /\ t.from # <<>> =>
       LET o == tasks[t.from[1]][t.from[2]] IN
       /\ t.from[1] \in imported[f] /\ t.from[2] \in DOMAIN tasks[t.from[1]]
       /\ projects[f][t.project] = projects[t.from[1]][o.project]
       /\ o.ref = 0 => t.ref = 0
       /\ o.ref # 0 => t.ref # 0 /\ tasks[f][t.ref].from = <<t.from[1], o.ref>>
Entries == \A f \in Homes : \A i \in DOMAIN tasks[f] : Entry(f, i)
OriginsApart ==
  \A f \in Homes : \A i, j \in DOMAIN tasks[f] :
    i # j /\ tasks[f][i].from # <<>> => tasks[f][i].from # tasks[f][j].from

ImportInv == ImportTypes /\ HoldersApart /\ StillFound /\ MarkersTold /\ Entries /\ OriginsApart

LEMMA ImportConstants ==
  /\ MaxHome \in Nat /\ MaxName \in Nat /\ NoRepo \notin Repos /\ NoFleet \notin Homes /\ Part \notin Homes
  /\ Homes \subseteq Nat \ {0} /\ Names \subseteq Nat \ {0} /\ 0 \in 0 .. Part /\ Part \in 0 .. Part
  /\ NoFleet = 0 /\ 0 \notin Names /\ Homes \subseteq 0 .. Part /\ Part # NoFleet
  BY ImportAssumption DEF Homes, Names, Part, NoFleet

-----------------------------------------------------------------------------
(* planImport: what becomes of the names of the source's projects *)

\* A set of names that is not empty has a last one.
LEMMA LastName == ASSUME NEW K \in SUBSET Names, K # {} PROVE \E m \in K : \A k \in K : k <= m
<1> DEFINE S == {n \in Nat : \A L \in SUBSET (1 .. n) : L # {} => \E m \in L : \A k \in L : k <= m}
<1>1. 0 \in S
  <2>1. 1 .. 0 = {}
    OBVIOUS
  <2> QED BY <2>1
<1>2. ASSUME NEW n \in Nat, n \in S PROVE n + 1 \in S
  <2> SUFFICES ASSUME NEW L \in SUBSET (1 .. n + 1), L # {} PROVE \E m \in L : \A k \in L : k <= m
    OBVIOUS
  <2>1. CASE n + 1 \in L
    BY <2>1
  <2>2. CASE n + 1 \notin L
    <3>1. L \in SUBSET (1 .. n)
      BY <2>2
    <3> QED BY <1>2, <3>1
  <2> QED BY <2>1, <2>2
<1> HIDE DEF S
<1>3. Nat \subseteq S
  BY <1>1, <1>2, SetInduction
<1>4. \A n \in Nat : \A L \in SUBSET (1 .. n) : L # {} => \E m \in L : \A k \in L : k <= m
  BY <1>3 DEF S
<1> QED BY <1>4, ImportConstants DEF Names

PlanState == [have : Projects, as : NameMap, ok : BOOLEAN]
\* The plan with one more name, as planImport adds it.
NextPlan(p, from, seen, n) ==
  LET known == {m \in Names : p.have[m] = from[n]} IN
  IF n \notin seen THEN p
  ELSE IF p.have[n] # NoRepo
  THEN [p EXCEPT !.as[n] = n, !.ok = @ /\ p.have[n] = from[n]]
  ELSE IF known # {}
  THEN [p EXCEPT !.as[n] = CHOOSE m \in known : \A k \in known : k <= m]
  ELSE [p EXCEPT !.as[n] = n, !.have[n] = from[n]]

\* A name that is added changes no other one and no project that was there.
LEMMA NextPlanIs ==
  ASSUME NEW p \in PlanState, NEW from \in Projects, NEW seen \in SUBSET Names, NEW n \in Names,
         n \in seen => from[n] # NoRepo, NEW q, q = NextPlan(p, from, seen, n)
  PROVE  /\ q \in PlanState /\ (q.ok => p.ok)
         /\ \A m \in Names : p.have[m] # NoRepo => q.have[m] = p.have[m]
         /\ \A m \in Names \ {n} : q.as[m] = p.as[m]
         /\ n \in seen /\ q.ok => q.as[n] \in Names /\ q.have[q.as[n]] = from[n]
<1>0. /\ p.have \in Projects /\ p.as \in NameMap /\ p.ok \in BOOLEAN /\ Names \subseteq 0 .. MaxName
      /\ p = [have |-> p.have, as |-> p.as, ok |-> p.ok]
  BY DEF PlanState, Names
<1>1. CASE n \notin seen
  BY <1>1 DEF NextPlan
<1>2. CASE n \in seen /\ p.have[n] # NoRepo
  <2>1. q = [p EXCEPT !.as[n] = n, !.ok = @ /\ p.have[n] = from[n]]
    BY <1>2 DEF NextPlan
  <2>2. q = [have |-> p.have, as |-> [p.as EXCEPT ![n] = n], ok |-> (p.ok /\ p.have[n] = from[n])]
    BY <1>0, <2>1
  <2> DEFINE good == p.ok /\ p.have[n] = from[n]
  <2> HIDE DEF good
  <2>6. q.have = p.have /\ q.as = [p.as EXCEPT ![n] = n] /\ q.ok = good
    BY <2>2 DEF good
  <2>7. good \in BOOLEAN
    BY Zenon DEF good
  <2>8. q.ok => p.ok /\ p.have[n] = from[n]
    BY <2>6, Zenon DEF good
  <2>3. q.have = p.have /\ q.as = [p.as EXCEPT ![n] = n] /\ (q.ok => p.ok /\ p.have[n] = from[n]) /\ q.ok \in BOOLEAN
    BY <2>6, <2>7, <2>8
  <2>4. q = [have |-> q.have, as |-> q.as, ok |-> q.ok] /\ q.as \in NameMap /\ q.as[n] = n
        /\ \A m \in Names \ {n} : q.as[m] = p.as[m]
    BY <1>0, <2>2, <2>3 DEF NameMap
  <2>5. q \in PlanState
    BY <1>0, <2>3, <2>4 DEF PlanState
  <2> QED BY <1>2, <2>3, <2>4, <2>5
<1>3. CASE n \in seen /\ p.have[n] = NoRepo /\ {m \in Names : p.have[m] = from[n]} # {}
  <2> DEFINE known == {m \in Names : p.have[m] = from[n]}
             last == CHOOSE m \in known : \A k \in known : k <= m
  <2>1. last \in known
    BY <1>3, LastName
  <2>2. q = [p EXCEPT !.as[n] = last]
    BY <1>3 DEF NextPlan
  <2>3. last \in Names /\ p.have[last] = from[n]
    BY <2>1
  <2> HIDE DEF last
  <2>4. q = [have |-> p.have, as |-> [p.as EXCEPT ![n] = last], ok |-> p.ok]
    BY <1>0, <2>2
  <2> QED BY <1>0, <2>3, <2>4 DEF PlanState, NameMap
<1>4. CASE n \in seen /\ p.have[n] = NoRepo /\ {m \in Names : p.have[m] = from[n]} = {}
  <2>1. q = [p EXCEPT !.as[n] = n, !.have[n] = from[n]]
    BY <1>4 DEF NextPlan
  <2>2. q = [have |-> [p.have EXCEPT ![n] = from[n]], as |-> [p.as EXCEPT ![n] = n], ok |-> p.ok]
    BY <1>0, <2>1
  <2>3. from[n] \in Repos \cup {NoRepo}
    BY DEF Projects
  <2> QED BY <1>0, <1>4, <2>2, <2>3 DEF PlanState, NameMap, Projects
<1> QED BY <1>1, <1>2, <1>3, <1>4

\* The plan has each name that was read at a project with its repository, and
\* keeps the destination's projects as they are.
LEMMA PlanIs ==
  ASSUME NEW have \in Projects, NEW from \in Projects, NEW seen \in SUBSET Names, \A n \in seen : from[n] # NoRepo
  PROVE  /\ PlanProjects(have, from, seen) \in PlanState
         /\ \A m \in Names : have[m] # NoRepo => PlanProjects(have, from, seen).have[m] = have[m]
         /\ PlanProjects(have, from, seen).ok => \A n \in seen :
              /\ PlanProjects(have, from, seen).as[n] \in Names
              /\ PlanProjects(have, from, seen).have[PlanProjects(have, from, seen).as[n]] = from[n]
<1> DEFINE first == [have |-> have, as |-> NoMap, ok |-> TRUE]
           Plans(k) == {q \in [0 .. k -> PlanState] : q[0] = first /\ \A n \in 1 .. k : q[n] = NextPlan(q[n - 1], from, seen, n)}
           S == {k \in Nat : k <= MaxName => Plans(k) # {}}
<1>1. first \in PlanState
  BY ImportConstants DEF PlanState, NameMap, NoMap
<1> HIDE DEF first
<1>2. 0 \in S
  <2> DEFINE q == [i \in 0 .. 0 |-> first]
  <2>1. q \in Plans(0)
    BY <1>1
  <2> QED BY <2>1
<1>3. ASSUME NEW k \in Nat, k \in S PROVE k + 1 \in S
  <2> HIDE DEF Plans
  <2> SUFFICES ASSUME k + 1 <= MaxName PROVE Plans(k + 1) # {}
    OBVIOUS
  <2> USE DEF Plans
  <2>1. k + 1 \in Names /\ k <= MaxName
    BY ImportConstants DEF Names
  <2>2. PICK q \in [0 .. k -> PlanState] : q[0] = first /\ \A n \in 1 .. k : q[n] = NextPlan(q[n - 1], from, seen, n)
    BY <1>3, <2>1
  <2> DEFINE x == NextPlan(q[k], from, seen, k + 1)
             r == [i \in 0 .. (k + 1) |-> IF i = k + 1 THEN x ELSE q[i]]
  <2>3. q[k] \in PlanState
    BY <2>2
  <2>4. x \in PlanState
    BY <2>1, <2>3, NextPlanIs
  <2> HIDE DEF x
  <2>5. r \in [0 .. (k + 1) -> PlanState] /\ r[0] = first /\ r[k + 1] = x /\ \A i \in 0 .. k : r[i] = q[i]
    BY <2>2, <2>4
  <2> HIDE DEF r
  <2>6. ASSUME NEW n \in 1 .. (k + 1) PROVE r[n] = NextPlan(r[n - 1], from, seen, n)
    <3>1. CASE n = k + 1
      <4>1. r[n - 1] = q[k]
        BY <2>5, <3>1
      <4> QED BY <2>5, <3>1, <4>1 DEF x
    <3>2. CASE n # k + 1
      <4>1. n \in 1 .. k /\ n - 1 \in 0 .. k /\ n \in 0 .. k
        BY <3>2
      <4>2. r[n] = q[n] /\ r[n - 1] = q[n - 1]
        BY <2>5, <4>1
      <4> QED BY <2>2, <4>1, <4>2
    <3> QED BY <3>1, <3>2
  <2> QED BY <2>5, <2>6
<1> HIDE DEF S
<1>4. MaxName \in S
  BY <1>2, <1>3, SetInduction, ImportConstants
<1>5. PICK q \in [0 .. MaxName -> PlanState] : q[0] = first /\ \A n \in 1 .. MaxName : q[n] = NextPlan(q[n - 1], from, seen, n)
  BY <1>4 DEF S
<1> HIDE DEF first
<1>6. q = [n \in 0 .. MaxName |-> IF n = 0 THEN first ELSE NextPlan(q[n - 1], from, seen, n)]
  <2>1. q = [n \in 0 .. MaxName |-> q[n]]
    BY <1>5
  <2>2. ASSUME NEW n \in 0 .. MaxName PROVE q[n] = IF n = 0 THEN first ELSE NextPlan(q[n - 1], from, seen, n)
    BY <1>5, ImportConstants
  <2> QED BY <2>1, <2>2
<1> DEFINE plan[n \in 0 .. MaxName] == IF n = 0 THEN first ELSE NextPlan(plan[n - 1], from, seen, n)
<1>7. plan = [n \in 0 .. MaxName |-> IF n = 0 THEN first ELSE NextPlan(plan[n - 1], from, seen, n)]
  BY <1>6
<1>8. PlanProjects(have, from, seen) = plan[MaxName]
  BY DEF PlanProjects, NextPlan, first
<1> HIDE DEF plan
<1> DEFINE Planned(n) ==
             /\ plan[n] \in PlanState
             /\ \A m \in Names : have[m] # NoRepo => plan[n].have[m] = have[m]
             /\ plan[n].ok => \A k \in seen : k <= n => plan[n].as[k] \in Names /\ plan[n].have[plan[n].as[k]] = from[k]
           T == {n \in Nat : n <= MaxName => Planned(n)}
<1>9. 0 \in T
  <2>1. plan[0] = first
    BY <1>7, ImportConstants
  <2>2. \A k \in seen : ~(k <= 0)
    BY ImportConstants
  <2>3. first.have = have
    BY DEF first
  <2> QED BY <1>1, <2>1, <2>2, <2>3
<1>10. ASSUME NEW i \in Nat, i \in T PROVE i + 1 \in T
  <2> SUFFICES ASSUME i + 1 <= MaxName PROVE Planned(i + 1)
    OBVIOUS
  <2>1. i + 1 \in Names /\ i <= MaxName /\ (i + 1) - 1 = i /\ i + 1 # 0 /\ i + 1 \in 0 .. MaxName
    BY ImportConstants DEF Names
  <2>2. Planned(i)
    BY <1>10, <2>1
  <2> DEFINE n == i + 1
             p == plan[i]
             r == plan[n]
  <2>3. r = NextPlan(p, from, seen, n)
    BY <1>7, <2>1
  <2>4. /\ p \in PlanState /\ (\A m \in Names : have[m] # NoRepo => p.have[m] = have[m])
        /\ p.ok => \A k \in seen : k <= i => p.as[k] \in Names /\ p.have[p.as[k]] = from[k]
    BY <2>2
  <2>5. n \in Names /\ \A k \in seen : k \in Names /\ (k <= n => k = n \/ (k <= i /\ k # n))
    BY <2>1, ImportConstants
  <2> HIDE DEF n, p, r
  <2>9. n \in seen => from[n] # NoRepo
    OBVIOUS
  <2>10. p \in PlanState /\ n \in Names
    BY <2>4, <2>5
  <2>6. /\ r \in PlanState /\ (r.ok => p.ok)
        /\ \A m \in Names : p.have[m] # NoRepo => r.have[m] = p.have[m]
        /\ \A m \in Names \ {n} : r.as[m] = p.as[m]
        /\ n \in seen /\ r.ok => r.as[n] \in Names /\ r.have[r.as[n]] = from[n]
    <3>1. NextPlan(p, from, seen, n) = r
      BY <2>3
    <3>2. n \in Names /\ p \in PlanState /\ from \in Projects /\ seen \in SUBSET Names /\ (n \in seen => from[n] # NoRepo)
      BY <2>9, <2>10
    <3> QED BY ONLY <3>1, <3>2, NextPlanIs
  <2>7. ASSUME r.ok, NEW k \in seen, k <= n PROVE r.as[k] \in Names /\ r.have[r.as[k]] = from[k]
    <3>1. CASE k = n
      BY <2>6, <2>7, <3>1
    <3>2. CASE k # n
      <4>1. p.as[k] \in Names /\ p.have[p.as[k]] = from[k] /\ r.as[k] = p.as[k]
        BY <2>4, <2>5, <2>6, <2>7, <3>2
      <4> QED BY <2>6, <4>1
    <3> QED BY <3>1, <3>2
  <2>8. \A m \in Names : have[m] # NoRepo => r.have[m] = have[m]
    BY <2>4, <2>6
  <2> QED BY <2>6, <2>7, <2>8 DEF n, r
<1> HIDE DEF T, Planned
<1>11. MaxName \in T
  BY <1>9, <1>10, SetInduction, ImportConstants
<1>12. Planned(MaxName) /\ \A k \in seen : k <= MaxName
  BY <1>11, ImportConstants DEF T, Names
<1> QED BY <1>8, <1>12 DEF Planned

-----------------------------------------------------------------------------
(* The tasks a fleet begins with *)

\* Of the names of a set, there is one that has as many before it as one likes.
LEMMA Ranked ==
  ASSUME NEW H \in SUBSET Names
  PROVE  IsFiniteSet(H) /\ \A i \in 1 .. Cardinality(H) : \E n \in H : Cardinality({m \in H : m < n}) = i - 1
<1> DEFINE Ranks(L) == IsFiniteSet(L) /\ \A i \in 1 .. Cardinality(L) : \E n \in L : Cardinality({m \in L : m < n}) = i - 1
           S == {n \in Nat : \A L \in SUBSET (1 .. n) : Ranks(L)}
<1>1. 0 \in S
  <2>1. \A L \in SUBSET (1 .. 0) : L = {}
    OBVIOUS
  <2>2. Ranks({})
    BY FS_EmptySet
  <2> QED BY <2>1, <2>2
<1>2. ASSUME NEW n \in Nat, n \in S PROVE n + 1 \in S
  <2> SUFFICES ASSUME NEW L \in SUBSET (1 .. n + 1) PROVE Ranks(L)
    OBVIOUS
  <2>1. CASE n + 1 \notin L
    <3>1. L \in SUBSET (1 .. n)
      BY <2>1
    <3> QED BY <1>2, <3>1
  <2>2. CASE n + 1 \in L
    <3> DEFINE K == L \ {n + 1}
    <3>1. K \in SUBSET (1 .. n) /\ n + 1 \notin K /\ L = K \cup {n + 1}
      BY <2>2
    <3>2. Ranks(K)
      BY <1>2, <3>1
    <3>3. IsFiniteSet(L) /\ Cardinality(L) = Cardinality(K) + 1 /\ Cardinality(K) \in Nat
      <4>1. IsFiniteSet(K)
        BY <3>2
      <4> HIDE DEF K
      <4> QED BY <3>1, <4>1, FS_AddElement, FS_CardinalityType
    <3>4. ASSUME NEW i \in 1 .. Cardinality(L) PROVE \E m \in L : Cardinality({e \in L : e < m}) = i - 1
      <4>1. CASE i = Cardinality(L)
        <5>1. {e \in L : e < n + 1} = K
          <6>1. \A e \in L : e \in 1 .. n + 1 /\ (e < n + 1 <=> e # n + 1)
            OBVIOUS
          <6> QED BY <6>1
        <5>2. Cardinality(K) = i - 1
          <6> HIDE DEF K
          <6> QED BY <3>3, <4>1
        <5>3. Cardinality({e \in L : e < n + 1}) = i - 1
          BY <5>1, <5>2
        <5> QED BY <2>2, <5>3
      <4>2. CASE i # Cardinality(L)
        <5>1. i \in 1 .. Cardinality(K)
          BY <3>3, <4>2
        <5>2. PICK m \in K : Cardinality({e \in K : e < m}) = i - 1
          BY <3>2, <5>1
        <5>3. {e \in L : e < m} = {e \in K : e < m}
          BY <3>1
        <5> QED BY <3>1, <5>2, <5>3
      <4> QED BY <4>1, <4>2
    <3> QED BY <3>3, <3>4
  <2> QED BY <2>1, <2>2
<1> HIDE DEF S
<1>3. MaxName \in S
  BY <1>1, <1>2, SetInduction, ImportConstants
<1> QED BY <1>3 DEF S, Names

LEMMA ImportStarts == ImportInit => ImportInv
<1> SUFFICES ASSUME ImportInit PROVE ImportInv
  OBVIOUS
<1>1. projects \in [Homes -> Projects]
  BY DEF ImportInit, Projects
<1> DEFINE has(f) == {n \in Names : projects[f][n] # NoRepo}
           of(f, i) == CHOOSE n \in has(f) : Cardinality({m \in has(f) : m < n}) = i - 1
           many(f) == Cardinality(has(f))
           task(f, i) == [project |-> of(f, i), ref |-> IF i = many(f) THEN 1 ELSE 0, from |-> <<>>]
<1>2. tasks = [f \in Homes |-> [i \in 1 .. many(f) |-> task(f, i)]]
  BY DEF ImportInit
<1>3. ASSUME NEW f \in Homes PROVE many(f) \in Nat /\ \A i \in 1 .. many(f) : of(f, i) \in has(f)
  <2>1. has(f) \in SUBSET Names
    OBVIOUS
  <2>2. IsFiniteSet(has(f)) /\ \A i \in 1 .. many(f) : \E n \in has(f) : Cardinality({m \in has(f) : m < n}) = i - 1
    BY <2>1, Ranked
  <2> QED BY <2>2, FS_CardinalityType
<1> HIDE DEF of, many
<1>4. ASSUME NEW f \in Homes
      PROVE  tasks[f] \in Seq(FiledTask) /\ \A i \in DOMAIN tasks[f] : Entry(f, i) /\ tasks[f][i].from = <<>>
  <2>1. \A i \in 1 .. many(f) : task(f, i) \in FiledTask
    BY <1>3 DEF FiledTask
  <2>2. tasks[f] = [i \in 1 .. many(f) |-> task(f, i)]
    BY <1>2
  <2>3. tasks[f] \in Seq(FiledTask) /\ DOMAIN tasks[f] = 1 .. many(f)
    BY <1>3, <2>1, <2>2
  <2>4. ASSUME NEW i \in 1 .. many(f) PROVE Entry(f, i) /\ tasks[f][i].from = <<>>
    <3>1. tasks[f][i].project = of(f, i) /\ tasks[f][i].ref = (IF i = many(f) THEN 1 ELSE 0) /\ tasks[f][i].from = <<>>
      BY <2>2
    <3>2. projects[f][of(f, i)] # NoRepo
      BY <1>3
    <3>3. tasks[f][i].ref \in {0} \cup DOMAIN tasks[f]
      BY <1>3, <2>3, <3>1
    <3> QED BY <3>1, <3>2, <3>3 DEF Entry
  <2> QED BY <2>3, <2>4
<1>5. Entries /\ OriginsApart
  BY <1>4 DEF Entries, OriginsApart
<1>6. NoImport \in Command
  BY ImportConstants DEF Command, NoImport, ImportAts, NameMap, NoMap
<1>7. notes \in [Homes -> [Names -> 0 .. Part]]
  <2>1. \A f \in Homes : f \in 0 .. Part /\ NoFleet \in 0 .. Part
    BY ImportConstants
  <2> QED BY <2>1 DEF ImportInit
<1>8. ImportTypes
  <2>1. tasks \in [Homes -> Seq(FiledTask)]
    BY <1>2, <1>4
  <2>2. imported \in [Homes -> SUBSET Homes] /\ marker \in [Homes -> Homes \cup {NoFleet}] /\ live \subseteq Homes
        /\ cmd \in [Imports -> Command] /\ mishaps \in Nat
    BY <1>6 DEF ImportInit
  <2> QED BY <1>1, <1>7, <2>1, <2>2 DEF ImportTypes
<1>9. \A c \in Imports : cmd[c].at = "idle" /\ cmd[c].holds = {}
  BY DEF ImportInit, NoImport
<1>10. HoldersApart /\ StillFound
  BY <1>9 DEF HoldersApart, Homed, StillFound, Found
<1>11. MarkersTold
  BY DEF MarkersTold, ImportInit
<1> QED BY <1>5, <1>8, <1>10, <1>11 DEF ImportInv

-----------------------------------------------------------------------------
(* What the steps of an import do *)

OthersStay(c) == cmd' \in [Imports -> Command] /\ \A e \in Imports \ {c} : cmd'[e] = cmd[e]
\* A command at another step, with the homes it has; and with what it read of them.
StepsTo(c, at) ==
  OthersStay(c) /\ cmd'[c].at = at /\ cmd'[c].src = cmd[c].src /\ cmd'[c].dst = cmd[c].dst /\ cmd'[c].holds = cmd[c].holds
GoesTo(c, at) == StepsTo(c, at) /\ cmd'[c].seen = cmd[c].seen /\ cmd'[c].as = cmd[c].as
ImportEnds(c) == OthersStay(c) /\ cmd'[c].at = "idle" /\ cmd'[c].holds = {}

LEMMA CommandIs ==
  ASSUME ImportTypes, NEW c \in Imports
  PROVE  /\ cmd[c] \in Command
         /\ cmd[c] = [at |-> cmd[c].at, src |-> cmd[c].src, dst |-> cmd[c].dst, holds |-> cmd[c].holds,
                      seen |-> cmd[c].seen, as |-> cmd[c].as, file |-> cmd[c].file]
         /\ cmd[c].at \in ImportAts /\ cmd[c].src \in Homes \cup {NoFleet} /\ cmd[c].dst \in Homes \cup {NoFleet}
         /\ cmd[c].holds \in SUBSET Homes /\ cmd[c].seen \in SUBSET Names /\ cmd[c].as \in NameMap /\ cmd[c].file \in Nat \ {0}
BY DEF ImportTypes, Command

LEMMA CmdGoesIs ==
  ASSUME ImportTypes, NEW c \in Imports, NEW at \in ImportAts, CmdGoes(c, at)
  PROVE  GoesTo(c, at) /\ cmd'[c].file = cmd[c].file
<1> DEFINE r == [cmd[c] EXCEPT !.at = at]
<1>1. r \in Command /\ r.at = at /\ r.src = cmd[c].src /\ r.dst = cmd[c].dst /\ r.holds = cmd[c].holds
      /\ r.seen = cmd[c].seen /\ r.as = cmd[c].as /\ r.file = cmd[c].file
  BY CommandIs DEF Command
<1>2. cmd' = [cmd EXCEPT ![c] = r]
  BY DEF CmdGoes
<1> HIDE DEF r
<1>3. cmd' \in [Imports -> Command] /\ cmd'[c] = r /\ \A e \in Imports \ {c} : cmd'[e] = cmd[e]
  BY <1>1, <1>2 DEF ImportTypes
<1> QED BY <1>1, <1>3 DEF GoesTo, StepsTo, OthersStay

LEMMA OverIs ==
  ASSUME ImportTypes, NEW c \in Imports, Over(c)
  PROVE  ImportEnds(c)
<1>1. NoImport \in Command /\ NoImport.at = "idle" /\ NoImport.holds = {}
  BY ImportConstants DEF Command, NoImport, ImportAts, NameMap, NoMap
<1>2. cmd' \in [Imports -> Command] /\ cmd'[c] = NoImport /\ \A e \in Imports \ {c} : cmd'[e] = cmd[e]
  BY <1>1 DEF Over, ImportTypes
<1> QED BY <1>1, <1>2 DEF ImportEnds, OthersStay

\* A file further: the next one is looked at.
NextFile(c) == GoesTo(c, "file") /\ cmd'[c].file = cmd[c].file + 1
LEMMA NextFileIs ==
  ASSUME ImportTypes, NEW c \in Imports, cmd' = [cmd EXCEPT ![c].at = "file", ![c].file = @ + 1]
  PROVE  NextFile(c)
<1> DEFINE r == [cmd[c] EXCEPT !.at = "file", !.file = @ + 1]
<1>0. cmd[c].file + 1 \in Nat \ {0}
  <2>1. cmd[c].file \in Nat \ {0}
    BY CommandIs
  <2> QED BY <2>1
<1>1. r \in Command /\ r.at = "file" /\ r.src = cmd[c].src /\ r.dst = cmd[c].dst /\ r.holds = cmd[c].holds
      /\ r.seen = cmd[c].seen /\ r.as = cmd[c].as /\ r.file = cmd[c].file + 1
  BY <1>0, CommandIs DEF Command, ImportAts
<1>2. cmd' = [cmd EXCEPT ![c] = r]
  BY CommandIs
<1> HIDE DEF r
<1>3. cmd' \in [Imports -> Command] /\ cmd'[c] = r /\ \A e \in Imports \ {c} : cmd'[e] = cmd[e]
  BY <1>1, <1>2 DEF ImportTypes
<1> QED BY <1>1, <1>3 DEF NextFile, GoesTo, StepsTo, OthersStay

\* The steps that only move a command on, before it writes anything.
Unwritten == UNCHANGED <<projects, tasks, imported, marker, live, notes>>
Early == {"marker", "event", "source", "destination", "source again", "destination again", "begin"}
Moves(c) ==
  \/ cmd[c].at # "mark" /\ ImportEnds(c)
  \/ cmd[c].at = "lock" /\ GoesTo(c, "marker") /\ {cmd[c].src, cmd[c].dst} \subseteq cmd[c].holds
  \/ cmd[c].at \in Early /\ \E at \in Early : GoesTo(c, at)
  \/ /\ cmd[c].at = "lock" /\ OthersStay(c) /\ cmd'[c].at = "lock" /\ cmd'[c].src = cmd[c].src /\ cmd'[c].dst = cmd[c].dst
     /\ \E f \in Homes : ~Held(f) /\ cmd'[c].holds = cmd[c].holds \cup {f}
  \/ /\ cmd[c].at = "idle" /\ OthersStay(c) /\ cmd'[c].at = "lock" /\ cmd'[c].holds = {}
     /\ cmd'[c].src \in Homes /\ cmd'[c].dst \in Homes /\ cmd'[c].src # cmd'[c].dst
  \/ /\ cmd[c].at = "begin" /\ OthersStay(c) /\ cmd'[c].at = "commit" /\ cmd'[c].holds = cmd[c].holds
     /\ cmd'[c].src = cmd[c].src /\ cmd'[c].dst = cmd[c].dst
     /\ marker[cmd[c].src] = NoFleet /\ cmd[c].src \notin imported[cmd[c].dst]
     /\ \A n \in cmd'[c].seen : projects[cmd[c].src][n] # NoRepo
  \/ /\ cmd[c].at = "file" /\ (GoesTo(c, "file") \/ (GoesTo(c, "create") /\ cmd'[c].file \in Names))

LEMMA LockMoves ==
  ASSUME ImportTypes, NEW c \in Imports, Homed(c), LockHome(c)
  PROVE  Moves(c) /\ Unwritten /\ UNCHANGED mishaps
<1> DEFINE wanted == {cmd[c].src, cmd[c].dst} \ cmd[c].holds
           next == CHOOSE f \in wanted : \A g \in wanted : f <= g
<1>0. Unwritten /\ UNCHANGED mishaps /\ cmd[c].at = "lock"
  BY DEF LockHome, Stores, Unwritten
<1>1. CASE wanted = {}
  <2>1. CmdGoes(c, "marker") /\ "marker" \in ImportAts
    BY <1>1 DEF LockHome, ImportAts
  <2> QED BY <1>0, <1>1, <2>1, CmdGoesIs DEF Moves
<1>2. CASE wanted # {}
  <2>1. wanted \in SUBSET Homes /\ \A f \in Homes : f \in Nat
    BY <1>0, ImportConstants DEF Homed
  <2>2. \E f \in wanted : \A g \in wanted : f <= g
    <3>1. \A f, g \in Homes : f <= g \/ g <= f
      BY <2>1
    <3>2. cmd[c].src \in Homes /\ cmd[c].dst \in Homes /\ cmd[c].src <= cmd[c].src /\ cmd[c].dst <= cmd[c].dst
      BY <1>0, <2>1 DEF Homed
    <3> QED BY <1>2, <3>1, <3>2
  <2>3. next \in Homes
    BY <2>1, <2>2
  <2>4. \/ Over(c)
        \/ ~Held(next) /\ cmd' = [cmd EXCEPT ![c].holds = @ \cup {next}]
    BY <1>2 DEF LockHome
  <2> HIDE DEF next
  <2>5. CASE Over(c)
    BY <1>0, <2>5, OverIs DEF Moves
  <2>6. CASE ~Held(next) /\ cmd' = [cmd EXCEPT ![c].holds = @ \cup {next}]
    <3> DEFINE r == [cmd[c] EXCEPT !.holds = @ \cup {next}]
    <3>1. r \in Command /\ r.at = "lock" /\ r.src = cmd[c].src /\ r.dst = cmd[c].dst /\ r.holds = cmd[c].holds \cup {next}
      BY <1>0, <2>3, CommandIs DEF Command
    <3>2. cmd' = [cmd EXCEPT ![c] = r]
      BY <2>6
    <3> HIDE DEF r
    <3>3. cmd' \in [Imports -> Command] /\ cmd'[c] = r /\ \A e \in Imports \ {c} : cmd'[e] = cmd[e]
      BY <3>1, <3>2 DEF ImportTypes
    <3> QED BY <1>0, <2>3, <2>6, <3>1, <3>3 DEF Moves, OthersStay
  <2> QED BY <2>4, <2>5, <2>6
<1> QED BY <1>1, <1>2

LEMMA LookMoves ==
  ASSUME ImportTypes, NEW c \in Imports, LookMarker(c) \/ LookEvent(c) \/ LookHealth(c)
  PROVE  Moves(c) /\ Unwritten /\ UNCHANGED mishaps
<1>1. Unwritten /\ UNCHANGED mishaps
  BY DEF LookMarker, LookEvent, LookHealth, Stores, Unwritten
<1>2. cmd[c].at \in Early /\ (Over(c) \/ \E at \in Early : CmdGoes(c, at))
  <2>1. CASE LookMarker(c)
    BY <2>1 DEF LookMarker, Early
  <2>2. CASE LookEvent(c)
    BY <2>2 DEF LookEvent, Early
  <2>3. CASE LookHealth(c)
    <3>1. PICK i \in 1 .. 4 : cmd[c].at = Health[i] /\ (Over(c) \/ CmdGoes(c, Health[i + 1]))
      BY <2>3 DEF LookHealth
    <3>2. \A j \in 1 .. 5 : Health[j] \in Early
      <4>1. Health[1] = "source" /\ Health[2] = "destination" /\ Health[3] = "source again"
            /\ Health[4] = "destination again" /\ Health[5] = "begin"
        BY DEF Health
      <4>2. \A j \in 1 .. 5 : j = 1 \/ j = 2 \/ j = 3 \/ j = 4 \/ j = 5
        OBVIOUS
      <4> QED BY <4>1, <4>2 DEF Early
    <3>3. i \in 1 .. 5 /\ i + 1 \in 1 .. 5
      OBVIOUS
    <3> QED BY <3>1, <3>2, <3>3
  <2> QED BY <2>1, <2>2, <2>3
<1>3. Early \subseteq ImportAts
  BY DEF Early, ImportAts
<1>4. cmd[c].at # "mark"
  BY <1>2 DEF Early
<1> QED BY <1>1, <1>2, <1>3, <1>4, OverIs, CmdGoesIs DEF Moves

LEMMA BeginMoves ==
  ASSUME ImportTypes, NEW c \in Imports, Homed(c), BeginImport(c)
  PROVE  Moves(c) /\ Unwritten /\ UNCHANGED mishaps
<1>1. Unwritten /\ UNCHANGED mishaps /\ cmd[c].at = "begin"
  BY DEF BeginImport, Stores, Unwritten
<1>2. CASE Over(c)
  BY <1>1, <1>2, OverIs DEF Moves
<1>3. CASE ~Over(c)
  <2> DEFINE had == {n \in Names : projects[cmd[c].src][n] # NoRepo}
             r == [cmd[c] EXCEPT !.at = "commit", !.seen = had]
  <2>1. marker[cmd[c].src] = NoFleet /\ cmd[c].src \notin imported[cmd[c].dst]
        /\ cmd' = [cmd EXCEPT ![c].at = "commit", ![c].seen = had]
    BY <1>3 DEF BeginImport
  <2>2. had \in SUBSET Names /\ \A n \in had : projects[cmd[c].src][n] # NoRepo
    OBVIOUS
  <2> HIDE DEF had
  <2>3. r \in Command /\ r.at = "commit" /\ r.src = cmd[c].src /\ r.dst = cmd[c].dst /\ r.holds = cmd[c].holds /\ r.seen = had
    BY <2>2, CommandIs DEF Command, ImportAts
  <2>4. cmd' = [cmd EXCEPT ![c] = r]
    BY <2>1, CommandIs
  <2> HIDE DEF r
  <2>5. cmd' \in [Imports -> Command] /\ cmd'[c] = r /\ \A e \in Imports \ {c} : cmd'[e] = cmd[e]
    BY <2>3, <2>4 DEF ImportTypes
  <2> QED BY <1>1, <2>1, <2>2, <2>3, <2>5 DEF Moves, OthersStay
<1> QED BY <1>2, <1>3

LEMMA BegunMoves ==
  ASSUME ImportTypes, NEW s \in Homes, NEW d \in Homes, ImportBegin(s, d)
  PROVE  (\E c \in Imports : Moves(c)) /\ Unwritten /\ UNCHANGED mishaps
<1> DEFINE c == CHOOSE c \in Imports : cmd[c].at = "idle"
           r == [at |-> "lock", src |-> s, dst |-> d, holds |-> {}, seen |-> {}, as |-> NoMap, file |-> 1]
<1>1. c \in Imports /\ cmd[c].at = "idle"
  BY DEF ImportBegin
<1>2. cmd' = [cmd EXCEPT ![c] = r] /\ s # d /\ Unwritten /\ UNCHANGED mishaps
  <2>1. [NoImport EXCEPT !.at = "lock", !.src = s, !.dst = d] = r
    <3> DEFINE a == [at |-> "lock", src |-> NoFleet, dst |-> NoFleet, holds |-> {}, seen |-> {}, as |-> NoMap, file |-> 1]
               b == [at |-> "lock", src |-> s, dst |-> NoFleet, holds |-> {}, seen |-> {}, as |-> NoMap, file |-> 1]
    <3>1. [NoImport EXCEPT !.at = "lock"] = a
      BY DEF NoImport
    <3>2. [a EXCEPT !.src = s] = b
      OBVIOUS
    <3>3. [b EXCEPT !.dst = d] = r
      OBVIOUS
    <3>4. [NoImport EXCEPT !.at = "lock", !.src = s, !.dst = d] = [[[NoImport EXCEPT !.at = "lock"] EXCEPT !.src = s] EXCEPT !.dst = d]
      BY Zenon
    <3> HIDE DEF a, b, r
    <3> QED BY <3>1, <3>2, <3>3, <3>4
  <2> QED BY <2>1 DEF ImportBegin, Stores, Unwritten
<1>3. r \in Command /\ r.at = "lock" /\ r.src = s /\ r.dst = d /\ r.holds = {}
  <2>2. NoMap \in NameMap /\ "lock" \in ImportAts
    BY ImportConstants DEF NoMap, NameMap, ImportAts
  <2>3. r.at = "lock" /\ r.src = s /\ r.dst = d /\ r.holds = {}
    OBVIOUS
  <2>4. r \in Command
    BY <2>2 DEF Command
  <2> QED BY <2>3, <2>4
<1> HIDE DEF c, r
<1>4. cmd' \in [Imports -> Command] /\ cmd'[c] = r /\ \A e \in Imports \ {c} : cmd'[e] = cmd[e]
  BY <1>1, <1>2, <1>3 DEF ImportTypes
<1>5. Moves(c)
  BY <1>1, <1>2, <1>3, <1>4 DEF Moves, OthersStay
<1> QED BY <1>1, <1>2, <1>5

LEMMA FileMoves ==
  ASSUME ImportTypes, NEW c \in Imports, LookFile(c)
  PROVE  Moves(c) /\ Unwritten /\ UNCHANGED mishaps
<1>1. Unwritten /\ UNCHANGED mishaps /\ cmd[c].at = "file"
  BY DEF LookFile, Stores, Unwritten
<1>2. CASE Over(c)
  BY <1>1, <1>2, OverIs DEF Moves
<1>3. CASE cmd[c].file <= MaxName /\ CmdGoes(c, "create")
  <2>1. "create" \in ImportAts /\ cmd[c].file \in Names
    <3>1. cmd[c].file \in Nat \ {0} /\ MaxName \in Nat
      BY CommandIs, ImportConstants
    <3> QED BY <1>3, <3>1 DEF ImportAts, Names
  <2> QED BY <1>1, <1>3, <2>1, CmdGoesIs DEF Moves
<1>4. CASE cmd' = [cmd EXCEPT ![c].file = @ + 1]
  <2> DEFINE r == [cmd[c] EXCEPT !.file = @ + 1]
  <2>0. cmd[c].file + 1 \in Nat \ {0}
    <3>1. cmd[c].file \in Nat \ {0}
      BY CommandIs
    <3> QED BY <3>1
  <2>1. r \in Command /\ r.at = "file" /\ r.src = cmd[c].src /\ r.dst = cmd[c].dst /\ r.holds = cmd[c].holds
        /\ r.seen = cmd[c].seen /\ r.as = cmd[c].as
    BY <1>1, <2>0, CommandIs DEF Command
  <2>2. cmd' = [cmd EXCEPT ![c] = r]
    BY <1>4
  <2> HIDE DEF r
  <2>3. cmd' \in [Imports -> Command] /\ cmd'[c] = r /\ \A e \in Imports \ {c} : cmd'[e] = cmd[e]
    BY <2>1, <2>2 DEF ImportTypes
  <2> QED BY <1>1, <2>1, <2>3 DEF Moves, GoesTo, StepsTo, OthersStay
<1>5. Over(c) \/ (cmd[c].file <= MaxName /\ CmdGoes(c, "create")) \/ cmd' = [cmd EXCEPT ![c].file = @ + 1]
  <2>1. cmd[c].file > MaxName \/ cmd[c].file <= MaxName
    <3>1. cmd[c].file \in Nat \ {0} /\ MaxName \in Nat
      BY CommandIs, ImportConstants
    <3> QED BY <3>1
  <2> QED BY <2>1 DEF LookFile
<1> QED BY <1>2, <1>3, <1>4, <1>5

LEMMA TargetIs == ASSUME ImportTypes, NEW c \in Imports, cmd[c].file \in Names PROVE Target(c) \in Names
<1>1. cmd[c].as \in [Names -> 0 .. MaxName]
  BY CommandIs DEF NameMap
<1> QED BY <1>1, ImportConstants DEF Target, Names

\* A step that ends a command by force.
ImportDies(c) == ImportEnds(c) /\ Unwritten /\ mishaps' \in Nat \ {0}
\* The transaction: the projects that were there stay, and each task of the
\* source is filed behind the tasks that are there, at a project of its repository.
Commits(c) ==
  LET s == cmd[c].src
      d == cmd[c].dst
      l == Len(tasks[d])
      m == Len(tasks[s]) IN
  /\ cmd[c].at = "commit" /\ StepsTo(c, "mark") /\ UNCHANGED <<marker, live, notes, mishaps>>
  /\ imported' = [imported EXCEPT ![d] = @ \cup {s}]
  /\ projects' \in [Homes -> Projects] /\ \A f \in Homes \ {d} : projects'[f] = projects[f]
  /\ \A n \in Names : projects[d][n] # NoRepo => projects'[d][n] = projects[d][n]
  /\ tasks' \in [Homes -> Seq(FiledTask)] /\ \A f \in Homes \ {d} : tasks'[f] = tasks[f]
  /\ Len(tasks'[d]) = l + m /\ \A i \in 1 .. l : tasks'[d][i] = tasks[d][i]
  /\ \A i \in 1 .. m :
       /\ tasks'[d][l + i].from = <<s, i>>
       /\ tasks'[d][l + i].ref = IF tasks[s][i].ref \in 1 .. m THEN tasks[s][i].ref + l ELSE tasks[s][i].ref
       /\ projects'[d][tasks'[d][l + i].project] = projects[s][tasks[s][i].project]
       /\ projects[s][tasks[s][i].project] # NoRepo

LEMMA CommitIs ==
  ASSUME ImportTypes, NEW c \in Imports, Homed(c), Found(c), CommitImport(c)
  PROVE  (Moves(c) /\ Unwritten /\ UNCHANGED mishaps) \/ Commits(c)
<1> DEFINE s == cmd[c].src
           d == cmd[c].dst
           seen == cmd[c].seen
           plan == PlanProjects(projects[d], projects[s], seen)
           l == Len(tasks[d])
           m == Len(tasks[s])
           new == [i \in DOMAIN tasks[s] |-> Shifted(s, i, plan.as, l)]
<1>1. cmd[c].at = "commit" /\ UNCHANGED <<marker, live, notes, mishaps>>
  BY DEF CommitImport
<1>2. \/ Over(c) /\ UNCHANGED Stores
      \/ /\ plan.ok /\ \A i \in DOMAIN new : tasks[s][i].project \in seen
         /\ projects' = [projects EXCEPT ![d] = plan.have]
         /\ tasks' = [tasks EXCEPT ![d] = @ \o new]
         /\ imported' = [imported EXCEPT ![d] = @ \cup {s}]
         /\ cmd' = [cmd EXCEPT ![c].at = "mark", ![c].as = plan.as]
  BY DEF CommitImport
<1>3. CASE Over(c) /\ UNCHANGED Stores
  BY <1>1, <1>3, OverIs DEF Moves, Unwritten, Stores
<1>4. CASE ~(Over(c) /\ UNCHANGED Stores)
  <2>1. /\ s \in Homes /\ d \in Homes /\ s # d /\ seen \in SUBSET Names /\ projects[s] \in Projects /\ projects[d] \in Projects
        /\ \A n \in seen : projects[s][n] # NoRepo
    BY <1>1, CommandIs DEF Homed, Found, ImportTypes
  <2>2. /\ plan \in PlanState /\ \A n \in Names : projects[d][n] # NoRepo => plan.have[n] = projects[d][n]
        /\ plan.ok => \A n \in seen : plan.as[n] \in Names /\ plan.have[plan.as[n]] = projects[s][n]
    BY SMTT(40), <2>1, PlanIs
  <2> HIDE DEF plan
  <2>3. plan.have \in Projects /\ plan.as \in NameMap
    BY <2>2 DEF PlanState
  <2>4. tasks[s] \in Seq(FiledTask) /\ tasks[d] \in Seq(FiledTask) /\ l \in Nat /\ m \in Nat /\ DOMAIN tasks[s] = 1 .. m
    BY <2>1 DEF ImportTypes
  <2>5. ASSUME NEW i \in 1 .. m
        PROVE  /\ new[i] \in FiledTask /\ new[i].from = <<s, i>> /\ tasks[s][i].project \in seen
               /\ new[i].project = plan.as[tasks[s][i].project]
               /\ new[i].ref = IF tasks[s][i].ref \in 1 .. m THEN tasks[s][i].ref + l ELSE tasks[s][i].ref
    <3> DEFINE t == tasks[s][i]
    <3>1. t \in FiledTask /\ t.project \in seen /\ new[i] = Shifted(s, i, plan.as, l)
      <4>1. i \in DOMAIN tasks[s] /\ t \in FiledTask
        BY <2>4
      <4>2. i \in DOMAIN new /\ new[i] = Shifted(s, i, plan.as, l)
        BY <4>1
      <4>3. \A j \in DOMAIN new : tasks[s][j].project \in seen
        BY ONLY <1>2, <1>4
      <4> QED BY <4>1, <4>2, <4>3
    <3>2. new[i] = [t EXCEPT !.project = plan.as[t.project], !.from = <<s, i>>,
                             !.ref = IF @ \in DOMAIN tasks[s] THEN @ + l ELSE @]
      BY <3>1 DEF Shifted
    <3> HIDE DEF t, new
    <3>3. new[i] = [project |-> plan.as[t.project], ref |-> IF t.ref \in 1 .. m THEN t.ref + l ELSE t.ref, from |-> <<s, i>>]
      BY <2>4, <3>1, <3>2 DEF FiledTask
    <3>4. plan.as[t.project] \in Names /\ t.ref \in Nat /\ <<s, i>> \in Homes \X (Nat \ {0})
      <4>1. plan.ok
        BY ONLY <1>2, <1>4
      <4>2. plan.as[t.project] \in Names
        BY <2>2, <3>1, <4>1
      <4>3. t.ref \in Nat
        BY <3>1 DEF FiledTask
      <4>4. s \in Homes /\ i \in Nat \ {0}
        BY <2>1, <2>4
      <4> QED BY <4>2, <4>3, <4>4
    <3>5. new[i].project = plan.as[t.project] /\ new[i].from = <<s, i>>
          /\ new[i].ref = (IF t.ref \in 1 .. m THEN t.ref + l ELSE t.ref)
      BY <3>3
    <3>6. (IF t.ref \in 1 .. m THEN t.ref + l ELSE t.ref) \in Nat
      BY <2>4, <3>4
    <3>7. new[i] \in FiledTask
      BY <3>3, <3>4, <3>6 DEF FiledTask
    <3> QED BY <3>1, <3>5, <3>7 DEF t
  <2>6. new = [i \in 1 .. m |-> new[i]]
    BY <2>4
  <2> HIDE DEF new
  <2>15. new \in Seq(FiledTask) /\ Len(new) = m
    <3>1. \A i \in 1 .. m : new[i] \in FiledTask
      BY <2>5
    <3>2. m \in Nat
      BY <2>4
    <3> HIDE DEF m
    <3>3. new \in [1 .. m -> FiledTask]
      BY <2>6, <3>1
    <3> QED BY <3>2, <3>3
  <2>7. /\ tasks[d] \o new \in Seq(FiledTask) /\ Len(tasks[d] \o new) = l + m
        /\ \A i \in 1 .. l : (tasks[d] \o new)[i] = tasks[d][i]
        /\ \A i \in 1 .. m : (tasks[d] \o new)[l + i] = new[i]
    <3> DEFINE a == tasks[d]
    <3>1. a \in Seq(FiledTask) /\ new \in Seq(FiledTask) /\ Len(a) = l /\ Len(new) = m /\ l \in Nat /\ m \in Nat
      BY <2>4, <2>15
    <3> HIDE DEF a, l, m
    <3>2. /\ a \o new \in Seq(FiledTask) /\ Len(a \o new) = l + m
          /\ \A i \in 1 .. l + m : (a \o new)[i] = IF i <= l THEN a[i] ELSE new[i - l]
      BY <3>1, ConcatProperties
    <3>3. \A i \in 1 .. l : i \in 1 .. l + m /\ i <= l
      BY <3>1
    <3>4. \A i \in 1 .. m : l + i \in 1 .. l + m /\ ~(l + i <= l) /\ (l + i) - l = i
      BY <3>1
    <3> QED BY <3>2, <3>3, <3>4 DEF a
  <2>8. /\ projects' = [projects EXCEPT ![d] = plan.have] /\ tasks' = [tasks EXCEPT ![d] = tasks[d] \o new]
        /\ imported' = [imported EXCEPT ![d] = @ \cup {s}] /\ plan.ok
    BY <1>2, <1>4
  <2>9. /\ tasks' \in [Homes -> Seq(FiledTask)] /\ tasks'[d] = tasks[d] \o new /\ \A f \in Homes \ {d} : tasks'[f] = tasks[f]
        /\ projects' \in [Homes -> Projects] /\ projects'[d] = plan.have /\ \A f \in Homes \ {d} : projects'[f] = projects[f]
    <3> DEFINE q == tasks[d] \o new
    <3>1. q \in Seq(FiledTask) /\ tasks' = [tasks EXCEPT ![d] = q]
      BY <2>7, <2>8
    <3> HIDE DEF q
    <3>2. tasks' \in [Homes -> Seq(FiledTask)] /\ tasks'[d] = q /\ \A f \in Homes \ {d} : tasks'[f] = tasks[f]
      BY <2>1, <3>1 DEF ImportTypes
    <3>3. projects' \in [Homes -> Projects] /\ projects'[d] = plan.have /\ \A f \in Homes \ {d} : projects'[f] = projects[f]
      BY <2>1, <2>3, <2>8 DEF ImportTypes
    <3> QED BY <3>2, <3>3 DEF q
  <2>10. StepsTo(c, "mark")
    <3> DEFINE r == [cmd[c] EXCEPT !.at = "mark", !.as = plan.as]
    <3>1. r \in Command /\ r.at = "mark" /\ r.src = cmd[c].src /\ r.dst = cmd[c].dst /\ r.holds = cmd[c].holds
      BY <2>3, CommandIs DEF Command, ImportAts
    <3>2. cmd' = [cmd EXCEPT ![c] = r]
      BY <1>2, <1>4, CommandIs
    <3> HIDE DEF r
    <3>3. cmd' \in [Imports -> Command] /\ cmd'[c] = r /\ \A e \in Imports \ {c} : cmd'[e] = cmd[e]
      BY <3>1, <3>2 DEF ImportTypes
    <3> QED BY <3>1, <3>3 DEF StepsTo, OthersStay
  <2>11. ASSUME NEW i \in 1 .. m
         PROVE  /\ projects'[d][tasks'[d][l + i].project] = projects[s][tasks[s][i].project]
                /\ projects[s][tasks[s][i].project] # NoRepo
    <3>1. tasks'[d][l + i] = new[i]
      <4>1. (tasks[d] \o new)[l + i] = new[i]
        BY <2>7
      <4> QED BY <2>9, <4>1
    <3>2. tasks[s][i].project \in seen /\ new[i].project = plan.as[tasks[s][i].project]
      BY <2>5
    <3>3. plan.have[plan.as[tasks[s][i].project]] = projects[s][tasks[s][i].project]
      BY <2>2, <2>8, <3>2
    <3> QED BY <2>1, <2>9, <3>1, <3>2, <3>3
  <2>12. ASSUME NEW i \in 1 .. m
         PROVE  /\ tasks'[d][l + i].from = <<s, i>>
                /\ tasks'[d][l + i].ref = IF tasks[s][i].ref \in 1 .. m THEN tasks[s][i].ref + l ELSE tasks[s][i].ref
    <3>1. tasks'[d][l + i] = new[i]
      <4>1. (tasks[d] \o new)[l + i] = new[i]
        BY <2>7
      <4> QED BY <2>9, <4>1
    <3> QED BY <2>5, <3>1
  <2>13. Len(tasks'[d]) = l + m /\ \A i \in 1 .. l : tasks'[d][i] = tasks[d][i]
    BY <2>7, <2>9
  <2>14. \A n \in Names : projects[d][n] # NoRepo => projects'[d][n] = projects[d][n]
    BY <2>2, <2>9
  <2> QED BY <1>1, <2>8, <2>9, <2>10, <2>11, <2>12, <2>13, <2>14 DEF Commits
<1> QED BY <1>3, <1>4

Marks(c) ==
  /\ cmd[c].at = "mark" /\ GoesTo(c, "file") /\ UNCHANGED <<projects, tasks, imported, live, notes>>
  /\ \/ marker' = [marker EXCEPT ![cmd[c].src] = IF @ = NoFleet THEN cmd[c].dst ELSE @] /\ UNCHANGED mishaps
     \/ mishaps' \in Nat \ {0} /\ UNCHANGED marker
Creates(c) ==
  /\ cmd[c].at = "create" /\ UNCHANGED <<projects, tasks, imported, marker, live, mishaps>>
  /\ \/ /\ notes[cmd[c].dst][Target(c)] = NoFleet /\ notes' = [notes EXCEPT ![cmd[c].dst][Target(c)] = Part]
        /\ GoesTo(c, "copy") /\ cmd'[c].file = cmd[c].file
     \/ NextFile(c) /\ UNCHANGED notes
Copies(c) ==
  /\ cmd[c].at = "copy" /\ NextFile(c) /\ UNCHANGED <<projects, tasks, imported, marker, live>>
  /\ mishaps' = mishaps \/ mishaps' \in Nat \ {0}
  /\ \E x \in 0 .. Part : notes' = [notes EXCEPT ![cmd[c].dst][Target(c)] = x]
Adds(f) ==
  /\ UNCHANGED <<imported, marker, cmd, mishaps>> /\ live' \subseteq Homes
  /\ \/ UNCHANGED <<projects, tasks, notes>>
     \/ UNCHANGED <<projects, tasks>> /\ \E n \in Names : notes[f][n] = NoFleet /\ notes' = [notes EXCEPT ![f][n] = f]
     \/ /\ UNCHANGED <<tasks, notes>>
        /\ \E n \in Names, r \in Repos : projects[f][n] = NoRepo /\ projects' = [projects EXCEPT ![f][n] = r]
     \/ /\ UNCHANGED <<projects, notes>>
        /\ \E n \in Names, ref \in 0 .. Len(tasks[f]) :
             projects[f][n] # NoRepo /\ tasks' = [tasks EXCEPT ![f] = Append(@, [project |-> n, ref |-> ref, from |-> <<>>])]

LEMMA MarkIs == ASSUME ImportTypes, NEW c \in Imports, WriteMarker(c) PROVE Marks(c)
<1>1. mishaps + 1 \in Nat \ {0}
  BY DEF ImportTypes
<1>2. GoesTo(c, "file")
  BY CmdGoesIs DEF WriteMarker, ImportAts
<1> QED BY <1>1, <1>2 DEF Marks, WriteMarker, Stores

LEMMA CreateIs == ASSUME ImportTypes, NEW c \in Imports, CreateFile(c) PROVE Creates(c)
<1>1. CASE notes[cmd[c].dst][Target(c)] = NoFleet
  <2>1. CmdGoes(c, "copy") /\ "copy" \in ImportAts
    BY <1>1 DEF CreateFile, ImportAts
  <2> QED BY <1>1, <2>1, CmdGoesIs DEF Creates, CreateFile, Stores
<1>2. CASE notes[cmd[c].dst][Target(c)] # NoFleet
  <2>1. NextFile(c)
    BY <1>2, NextFileIs DEF CreateFile
  <2> QED BY <1>2, <2>1 DEF Creates, CreateFile, Stores
<1> QED BY <1>1, <1>2

LEMMA CopyIs == ASSUME ImportTypes, NEW c \in Imports, Homed(c), Found(c), CopyFile(c) PROVE Copies(c)
<1>1. mishaps + 1 \in Nat \ {0}
  BY DEF ImportTypes
<1>2. NextFile(c) /\ cmd[c].at = "copy"
  BY NextFileIs DEF CopyFile
<1>3. notes[cmd[c].src][cmd[c].file] \in 0 .. Part /\ NoFleet \in 0 .. Part
  <2>1. cmd[c].src \in Homes /\ cmd[c].file \in Names
    BY <1>2 DEF Homed, Found
  <2>2. notes \in [Homes -> [Names -> 0 .. Part]]
    BY DEF ImportTypes
  <2> QED BY <2>1, <2>2, ImportConstants
<1>4. \E x \in 0 .. Part : notes' = [notes EXCEPT ![cmd[c].dst][Target(c)] = x]
  BY <1>3 DEF CopyFile
<1> QED BY <1>1, <1>2, <1>4 DEF Copies, CopyFile, Stores

LEMMA KillIs == ASSUME ImportTypes, NEW c \in Imports, ImportKilled(c) PROVE ImportDies(c)
<1>1. mishaps + 1 \in Nat \ {0}
  BY DEF ImportTypes
<1> QED BY <1>1, OverIs DEF ImportDies, ImportKilled, Stores, Unwritten

\* What a step is, by what it leaves behind.
ImportSteps ==
  \/ \E c \in Imports : (Moves(c) /\ Unwritten /\ UNCHANGED mishaps) \/ ImportDies(c) \/ Commits(c) \/ Marks(c) \/ Creates(c) \/ Copies(c)
  \/ \E f \in Homes : Adds(f)

LEMMA ImportStepIs == ImportInv /\ ImportNext => ImportSteps
<1> SUFFICES ASSUME ImportInv, ImportNext PROVE ImportSteps
  OBVIOUS
<1>0. ImportTypes /\ \A c \in Imports : Homed(c) /\ Found(c)
  BY DEF ImportInv, HoldersApart, StillFound
<1>1. ASSUME NEW c \in Imports, Import(c) PROVE ImportSteps
  <2>1. CASE LockHome(c)
    BY <1>0, <2>1, LockMoves DEF ImportSteps
  <2>2. CASE LookMarker(c) \/ LookEvent(c) \/ LookHealth(c)
    BY <1>0, <2>2, LookMoves DEF ImportSteps
  <2>3. CASE BeginImport(c)
    BY <1>0, <2>3, BeginMoves DEF ImportSteps
  <2>4. CASE CommitImport(c)
    BY <1>0, <2>4, CommitIs DEF ImportSteps
  <2>5. CASE WriteMarker(c)
    BY <1>0, <2>5, MarkIs DEF ImportSteps
  <2>6. CASE LookFile(c)
    BY <1>0, <2>6, FileMoves DEF ImportSteps
  <2>7. CASE CreateFile(c)
    BY <1>0, <2>7, CreateIs DEF ImportSteps
  <2>8. CASE CopyFile(c)
    BY <1>0, <2>8, CopyIs DEF ImportSteps
  <2> QED BY <1>1, <2>1, <2>2, <2>3, <2>4, <2>5, <2>6, <2>7, <2>8 DEF Import
<1>2. ASSUME NEW c \in Imports, ImportKilled(c) PROVE ImportSteps
  BY <1>0, <1>2, KillIs DEF ImportSteps
<1>3. ASSUME NEW s \in Homes, NEW d \in Homes, ImportBegin(s, d) PROVE ImportSteps
  BY <1>0, <1>3, BegunMoves DEF ImportSteps
<1>4. ASSUME NEW f \in Homes, Stirs(f) PROVE Adds(f)
  BY <1>0, <1>4 DEF Stirs, Edit, Adds, ImportTypes
<1>5. ASSUME NEW f \in Homes, NEW n \in Names, WriteNote(f, n) PROVE Adds(f)
  BY <1>0, <1>5 DEF WriteNote, Edit, Adds, ImportTypes
<1>6. ASSUME NEW f \in Homes, NEW n \in Names, NEW r \in Repos, AddProject(f, n, r) PROVE Adds(f)
  BY <1>0, <1>6 DEF AddProject, Edit, Adds, ImportTypes
<1>7. ASSUME NEW f \in Homes, NEW n \in Names, NEW ref \in 0 .. Len(tasks[f]), AddTask(f, n, ref) PROVE Adds(f)
  BY <1>0, <1>7 DEF AddTask, Edit, Adds, ImportTypes
<1> QED BY <1>1, <1>2, <1>3, <1>4, <1>5, <1>6, <1>7 DEF ImportNext, ImportSteps

-----------------------------------------------------------------------------
(* FleetImport: every step keeps every part of the invariant *)

LEMMA ImportTypesStep == ImportInv /\ ImportSteps => ImportTypes'
<1> SUFFICES ASSUME ImportInv, ImportSteps PROVE ImportTypes'
  OBVIOUS
<1>0. ImportTypes /\ \A c \in Imports : Homed(c) /\ Found(c)
  BY DEF ImportInv, HoldersApart, StillFound
<1>1. ASSUME NEW c \in Imports, Moves(c) \/ ImportEnds(c) PROVE cmd' \in [Imports -> Command]
  BY <1>1 DEF Moves, ImportEnds, GoesTo, StepsTo, OthersStay
<1>2. ASSUME NEW c \in Imports, (Moves(c) /\ Unwritten /\ UNCHANGED mishaps) \/ ImportDies(c) PROVE ImportTypes'
  BY <1>0, <1>1, <1>2 DEF ImportTypes, Unwritten, ImportDies
<1>3. ASSUME NEW c \in Imports, Commits(c) PROVE ImportTypes'
  <2>1. cmd[c].src \in Homes /\ cmd[c].dst \in Homes
    BY <1>0, <1>3 DEF Commits, Homed
  <2>2. imported' \in [Homes -> SUBSET Homes]
    BY <1>0, <1>3, <2>1 DEF ImportTypes, Commits
  <2> QED BY <1>0, <1>3, <2>2 DEF ImportTypes, Commits, StepsTo, OthersStay
<1>4. ASSUME NEW c \in Imports, Marks(c) PROVE ImportTypes'
  <2>1. cmd[c].src \in Homes /\ cmd[c].dst \in Homes
    BY <1>0, <1>4 DEF Marks, Homed
  <2>2. marker' \in [Homes -> Homes \cup {NoFleet}] /\ mishaps' \in Nat
    BY <1>0, <1>4, <2>1 DEF ImportTypes, Marks
  <2> QED BY <1>0, <1>4, <2>2 DEF ImportTypes, Marks, GoesTo, StepsTo, OthersStay
<1>5. ASSUME NEW c \in Imports, Creates(c) \/ Copies(c) PROVE ImportTypes'
  <2>1. cmd[c].dst \in Homes /\ Target(c) \in Names
    BY <1>0, <1>5, TargetIs DEF Creates, Copies, Homed, Found
  <2>2. notes' = notes \/ \E x \in 0 .. Part : notes' = [notes EXCEPT ![cmd[c].dst][Target(c)] = x]
    BY <1>5, ImportConstants DEF Creates, Copies
  <2>3. notes' \in [Homes -> [Names -> 0 .. Part]]
    <3>1. ASSUME NEW x \in 0 .. Part, notes' = [notes EXCEPT ![cmd[c].dst][Target(c)] = x]
          PROVE  notes' \in [Homes -> [Names -> 0 .. Part]]
      <4> DEFINE q == [notes[cmd[c].dst] EXCEPT ![Target(c)] = x]
      <4>1. q \in [Names -> 0 .. Part] /\ notes' = [notes EXCEPT ![cmd[c].dst] = q]
        BY <1>0, <2>1, <3>1 DEF ImportTypes
      <4> HIDE DEF q
      <4> QED BY <1>0, <2>1, <4>1 DEF ImportTypes
    <3> QED BY <1>0, <2>2, <3>1 DEF ImportTypes
  <2>4. cmd' \in [Imports -> Command] /\ mishaps' \in Nat /\ UNCHANGED <<projects, tasks, imported, marker, live>>
    BY <1>0, <1>5 DEF Creates, Copies, NextFile, GoesTo, StepsTo, OthersStay, ImportTypes
  <2> QED BY <1>0, <1>5, <2>3, <2>4 DEF ImportTypes
<1>6. ASSUME NEW f \in Homes, Adds(f) PROVE ImportTypes'
  <2>1. f \in 0 .. Part
    BY ImportConstants
  <2>2. notes' \in [Homes -> [Names -> 0 .. Part]]
    BY SMTT(40), <1>0, <1>6, <2>1 DEF ImportTypes, Adds
  <2>3. projects' \in [Homes -> Projects]
    <3>1. ASSUME NEW n \in Names, NEW r \in Repos, projects' = [projects EXCEPT ![f][n] = r]
          PROVE  projects' \in [Homes -> Projects]
      <4> DEFINE q == [projects[f] EXCEPT ![n] = r]
      <4>1. q \in Projects /\ projects' = [projects EXCEPT ![f] = q]
        BY <1>0, <3>1 DEF ImportTypes, Projects
      <4> HIDE DEF q
      <4> QED BY <1>0, <4>1 DEF ImportTypes
    <3> QED BY <1>0, <1>6, <3>1 DEF ImportTypes, Adds
  <2>4. tasks' \in [Homes -> Seq(FiledTask)]
    <3>1. CASE UNCHANGED tasks
      BY <1>0, <3>1 DEF ImportTypes
    <3>2. ASSUME NEW n \in Names, NEW ref \in 0 .. Len(tasks[f]),
                 tasks' = [tasks EXCEPT ![f] = Append(@, [project |-> n, ref |-> ref, from |-> <<>>])]
          PROVE  tasks' \in [Homes -> Seq(FiledTask)]
      <4>1. [project |-> n, ref |-> ref, from |-> <<>>] \in FiledTask
        BY DEF FiledTask
      <4>2. Append(tasks[f], [project |-> n, ref |-> ref, from |-> <<>>]) \in Seq(FiledTask)
        BY <1>0, <4>1 DEF ImportTypes
      <4> QED BY <1>0, <3>2, <4>2 DEF ImportTypes
    <3> QED BY <1>6, <3>1, <3>2 DEF Adds
  <2> QED BY <1>0, <1>6, <2>2, <2>3, <2>4 DEF ImportTypes, Adds
<1> QED BY <1>2, <1>3, <1>4, <1>5, <1>6 DEF ImportSteps

\* Homes are locked by one command at a time.
LEMMA HoldersApartStep == ImportInv /\ ImportSteps => HoldersApart'
<1> SUFFICES ASSUME ImportInv, ImportSteps PROVE HoldersApart'
  OBVIOUS
<1>0. ImportTypes /\ HoldersApart
  BY DEF ImportInv
\* A command that takes no home but one that is free.
<1>1. ASSUME NEW c \in Imports, OthersStay(c), Homed(c)',
             \A f \in cmd'[c].holds : f \in cmd[c].holds \/ ~Held(f)
      PROVE  HoldersApart'
  <2>1. \A e \in Imports \ {c} : cmd'[e] = cmd[e] /\ cmd'[c].holds \cap cmd[e].holds = {}
    BY <1>0, <1>1 DEF HoldersApart, OthersStay, Held
  <2>2. \A e \in Imports : Homed(e)'
    BY <1>0, <1>1, <2>1 DEF HoldersApart, Homed
  <2> QED BY <1>0, <2>1, <2>2 DEF HoldersApart
<1>2. ASSUME NEW c \in Imports, NEW at \in ImportAts \ {"idle"}, StepsTo(c, at), cmd[c].at \notin {"idle", "lock"} PROVE HoldersApart'
  <2>1. Homed(c)'
    BY <1>0, <1>2 DEF HoldersApart, Homed, StepsTo
  <2> QED BY <1>1, <1>2, <2>1 DEF StepsTo
<1>3. ASSUME NEW c \in Imports, ImportEnds(c) PROVE HoldersApart'
  <2>1. Homed(c)'
    BY <1>3 DEF ImportEnds, Homed
  <2> QED BY <1>1, <1>3, <2>1 DEF ImportEnds
<1>4. ASSUME NEW c \in Imports, Moves(c) PROVE HoldersApart'
  <2>1. CASE ImportEnds(c)
    BY <1>3, <2>1
  <2>2. CASE cmd[c].at = "lock" /\ GoesTo(c, "marker") /\ {cmd[c].src, cmd[c].dst} \subseteq cmd[c].holds
    <3>1. Homed(c)'
      BY <1>0, <2>2 DEF HoldersApart, Homed, GoesTo, StepsTo
    <3> QED BY <1>1, <2>2, <3>1 DEF GoesTo, StepsTo
  <2>3. CASE cmd[c].at \in Early /\ \E at \in Early : GoesTo(c, at)
    BY <1>2, <2>3 DEF Early, ImportAts, GoesTo
  <2>4. CASE /\ cmd[c].at = "lock" /\ OthersStay(c) /\ cmd'[c].at = "lock" /\ cmd'[c].src = cmd[c].src /\ cmd'[c].dst = cmd[c].dst
             /\ \E f \in Homes : ~Held(f) /\ cmd'[c].holds = cmd[c].holds \cup {f}
    <3>1. Homed(c)'
      BY <1>0, <2>4 DEF HoldersApart, Homed
    <3> QED BY <1>1, <2>4, <3>1
  <2>5. CASE /\ cmd[c].at = "idle" /\ OthersStay(c) /\ cmd'[c].at = "lock" /\ cmd'[c].holds = {}
             /\ cmd'[c].src \in Homes /\ cmd'[c].dst \in Homes /\ cmd'[c].src # cmd'[c].dst
    <3>1. Homed(c)'
      BY <2>5 DEF Homed
    <3> QED BY <1>1, <2>5, <3>1
  <2>6. CASE cmd[c].at = "begin" /\ StepsTo(c, "commit")
    BY <1>2, <2>6 DEF ImportAts
  <2>7. CASE cmd[c].at = "file" /\ (GoesTo(c, "file") \/ GoesTo(c, "create"))
    BY <1>2, <2>7 DEF ImportAts, GoesTo
  <2> QED BY <1>4, <2>1, <2>2, <2>3, <2>4, <2>5, <2>6, <2>7 DEF Moves, StepsTo
<1>5. ASSUME NEW c \in Imports, Commits(c) \/ Marks(c) \/ Creates(c) \/ Copies(c) PROVE HoldersApart'
  <2>1. cmd[c].at \notin {"idle", "lock"} /\ \E at \in ImportAts \ {"idle"} : StepsTo(c, at)
    BY <1>5 DEF Commits, Marks, Creates, Copies, NextFile, GoesTo, ImportAts
  <2> QED BY <1>2, <2>1
<1>6. ASSUME UNCHANGED cmd PROVE HoldersApart'
  BY <1>0, <1>6 DEF HoldersApart, Homed
<1> QED BY <1>3, <1>4, <1>5, <1>6 DEF ImportSteps, Adds, ImportDies

\* What was there stays, and each import is one more.
Grown ==
  /\ \A f \in Homes : \A n \in Names : projects[f][n] # NoRepo => projects'[f][n] = projects[f][n]
  /\ \A f \in Homes : DOMAIN tasks[f] \subseteq DOMAIN tasks'[f] /\ \A i \in DOMAIN tasks[f] : tasks'[f][i] = tasks[f][i]
  /\ \A f \in Homes : imported[f] \subseteq imported'[f]

LEMMA TasksAre ==
  ASSUME ImportTypes, NEW f \in Homes
  PROVE  tasks[f] \in Seq(FiledTask) /\ Len(tasks[f]) \in Nat /\ DOMAIN tasks[f] = 1 .. Len(tasks[f])
<1> DEFINE s == tasks[f]
<1>1. s \in Seq(FiledTask)
  BY DEF ImportTypes
<1> HIDE DEF s
<1>2. Len(s) \in Nat /\ DOMAIN s = 1 .. Len(s)
  BY <1>1
<1> QED BY <1>1, <1>2 DEF s

LEMMA TaskIs ==
  ASSUME ImportTypes, NEW f \in Homes, NEW i \in DOMAIN tasks[f]
  PROVE  /\ tasks[f][i] \in FiledTask /\ tasks[f][i].project \in Names /\ tasks[f][i].ref \in Nat
         /\ tasks[f][i].from # <<>> => tasks[f][i].from \in Homes \X (Nat \ {0})
<1> DEFINE s == tasks[f]
<1>1. s \in Seq(FiledTask) /\ i \in 1 .. Len(s)
  BY TasksAre
<1> HIDE DEF s
<1>2. s[i] \in FiledTask
  BY <1>1
<1> QED BY <1>2 DEF s, FiledTask

\* The task that is filed.
NewTask(f, t) ==
  /\ tasks' \in [Homes -> Seq(FiledTask)] /\ \A g \in Homes \ {f} : tasks'[g] = tasks[g]
  /\ DOMAIN tasks'[f] = DOMAIN tasks[f] \cup {Len(tasks[f]) + 1} /\ tasks'[f][Len(tasks[f]) + 1] = t
  /\ \A i \in DOMAIN tasks[f] : tasks'[f][i] = tasks[f][i]

LEMMA AppendIs ==
  ASSUME ImportTypes, NEW f \in Homes, NEW t \in FiledTask, tasks' = [tasks EXCEPT ![f] = Append(@, t)]
  PROVE  NewTask(f, t)
<1> DEFINE s == tasks[f]
           q == Append(s, t)
<1>1. s \in Seq(FiledTask) /\ Len(s) \in Nat /\ DOMAIN s = 1 .. Len(s)
  BY DEF ImportTypes
<1>2. tasks' = [tasks EXCEPT ![f] = q]
  OBVIOUS
<1> HIDE DEF s
<1>3. q \in Seq(FiledTask) /\ Len(q) = Len(s) + 1 /\ q[Len(s) + 1] = t /\ \A i \in 1 .. Len(s) : q[i] = s[i]
  BY <1>1, AppendProperties
<1> HIDE DEF q
<1>4. DOMAIN q = DOMAIN s \cup {Len(s) + 1}
  BY <1>1, <1>3
<1>5. tasks' \in [Homes -> Seq(FiledTask)] /\ tasks'[f] = q /\ \A g \in Homes \ {f} : tasks'[g] = tasks[g]
  BY <1>2, <1>3 DEF ImportTypes
<1> QED BY <1>1, <1>3, <1>4, <1>5 DEF NewTask, s

\* A task that was there is still what it was, wherever it came from.
LEMMA OldEntries ==
  ASSUME ImportTypes, Entries, Grown, NEW f \in Homes, NEW i \in DOMAIN tasks[f]
  PROVE  Entry(f, i)'
<1> DEFINE t == tasks[f][i]
<1>1. Entry(f, i) /\ t \in FiledTask /\ tasks'[f][i] = t /\ t.project \in Names
  BY TaskIs DEF Entries, Grown
<1>2. projects[f][t.project] # NoRepo /\ projects'[f][t.project] = projects[f][t.project]
  BY <1>1 DEF Entry, Grown
<1>3. t.ref \in {0} \cup DOMAIN tasks'[f]
  BY <1>1 DEF Entry, Grown
<1>4. ASSUME t.from # <<>>
      PROVE  LET o == tasks'[t.from[1]][t.from[2]] IN
             /\ t.from[1] \in imported'[f] /\ t.from[2] \in DOMAIN tasks'[t.from[1]]
             /\ projects'[f][t.project] = projects'[t.from[1]][o.project]
             /\ o.ref = 0 => t.ref = 0
             /\ o.ref # 0 => t.ref # 0 /\ tasks'[f][t.ref].from = <<t.from[1], o.ref>>
  <2> DEFINE s == t.from[1]
             o == tasks[t.from[1]][t.from[2]]
  <2>1. s \in Homes
    BY <1>4, TaskIs
  <2>2. /\ s \in imported[f] /\ t.from[2] \in DOMAIN tasks[s] /\ projects[f][t.project] = projects[s][o.project]
        /\ (o.ref = 0 => t.ref = 0) /\ (o.ref # 0 => t.ref # 0 /\ tasks[f][t.ref].from = <<s, o.ref>>)
    BY <1>1, <1>4 DEF Entry
  <2>3. tasks'[s][t.from[2]] = o /\ s \in imported'[f] /\ t.from[2] \in DOMAIN tasks'[s]
    BY <2>1, <2>2 DEF Grown
  <2>4. o \in FiledTask /\ o.project \in Names
    BY <2>1, <2>2, TaskIs
  <2>5. projects'[s][o.project] = projects[s][o.project]
    BY <1>2, <2>1, <2>2, <2>4 DEF Grown
  <2>6. o.ref # 0 => tasks'[f][t.ref] = tasks[f][t.ref]
    BY <1>1, <2>2 DEF Entry, Grown
  <2> QED BY <1>2, <2>2, <2>3, <2>5, <2>6
<1> QED BY <1>1, <1>2, <1>3, <1>4 DEF Entry

LEMMA ImportGrows ==
  ASSUME ImportTypes, HoldersApart, ImportSteps PROVE Grown
<1>1. ASSUME UNCHANGED <<projects, tasks, imported>> PROVE Grown
  BY <1>1 DEF Grown
<1>2. ASSUME NEW c \in Imports, Commits(c) PROVE Grown
  <2> DEFINE d == cmd[c].dst
  <2>1. d \in Homes
    BY <1>2 DEF Commits, HoldersApart, Homed
  <2>2. \A f \in Homes : imported[f] \subseteq imported'[f]
    BY <1>2, <2>1 DEF Commits, ImportTypes
  <2>3. \A f \in Homes : \A n \in Names : projects[f][n] # NoRepo => projects'[f][n] = projects[f][n]
    BY <1>2 DEF Commits
  <2>4. /\ DOMAIN tasks[d] = 1 .. Len(tasks[d]) /\ Len(tasks[d]) \in Nat /\ Len(tasks[cmd[c].src]) \in Nat
        /\ DOMAIN tasks'[d] = 1 .. Len(tasks'[d])
    <3>1. cmd[c].src \in Homes
      BY <1>2 DEF Commits, HoldersApart, Homed
    <3> DEFINE s == tasks'[d]
    <3>2. s \in Seq(FiledTask)
      BY <1>2, <2>1 DEF Commits
    <3> HIDE DEF s
    <3>3. DOMAIN s = 1 .. Len(s)
      BY <3>2
    <3> QED BY <2>1, <3>1, <3>3, TasksAre DEF s
  <2>5. /\ Len(tasks'[d]) = Len(tasks[d]) + Len(tasks[cmd[c].src]) /\ \A i \in 1 .. Len(tasks[d]) : tasks'[d][i] = tasks[d][i]
        /\ \A f \in Homes \ {d} : tasks'[f] = tasks[f]
    BY <1>2 DEF Commits
  <2>6. DOMAIN tasks[d] \subseteq DOMAIN tasks'[d] /\ \A i \in DOMAIN tasks[d] : tasks'[d][i] = tasks[d][i]
    <3> DEFINE k == Len(tasks[d])
               m == Len(tasks[cmd[c].src])
               z == Len(tasks'[d])
    <3>1. k \in Nat /\ m \in Nat /\ z = k + m
      BY <2>4, <2>5
    <3> HIDE DEF k, m, z
    <3>2. 1 .. k \subseteq 1 .. z
      BY <3>1
    <3> QED BY <2>4, <2>5, <3>2 DEF k, z
  <2>7. \A f \in Homes : DOMAIN tasks[f] \subseteq DOMAIN tasks'[f] /\ \A i \in DOMAIN tasks[f] : tasks'[f][i] = tasks[f][i]
    <3> TAKE f \in Homes
    <3> QED BY <2>5, <2>6
  <2> QED BY <2>2, <2>3, <2>7 DEF Grown
<1>3. ASSUME NEW f \in Homes, Adds(f) PROVE Grown
  <2>1. ASSUME NEW n \in Names, NEW r \in Repos, projects[f][n] = NoRepo, projects' = [projects EXCEPT ![f][n] = r], UNCHANGED <<tasks, imported>>
        PROVE  Grown
    BY <2>1 DEF Grown, ImportTypes, Projects
  <2>2. ASSUME NEW n \in Names, NEW ref \in 0 .. Len(tasks[f]), UNCHANGED <<projects, imported>>,
               tasks' = [tasks EXCEPT ![f] = Append(@, [project |-> n, ref |-> ref, from |-> <<>>])]
        PROVE  Grown
    <3>1. [project |-> n, ref |-> ref, from |-> <<>>] \in FiledTask
      BY DEF FiledTask
    <3>2. NewTask(f, [project |-> n, ref |-> ref, from |-> <<>>])
      BY <2>2, <3>1, AppendIs
    <3> QED BY <2>2, <3>2 DEF Grown, NewTask
  <2> QED BY <1>1, <1>3, <2>1, <2>2 DEF Adds
<1> QED BY <1>1, <1>2, <1>3 DEF ImportSteps, Unwritten, ImportDies, Marks, Creates, Copies

\* What a command found is changed by no one else while it holds its homes.
LEMMA StillFoundStep == ImportInv /\ ImportSteps => StillFound'
<1> SUFFICES ASSUME ImportInv, ImportSteps PROVE StillFound'
  OBVIOUS
<1>0. ImportTypes /\ HoldersApart /\ StillFound /\ Grown
  BY ImportGrows DEF ImportInv
\* It is enough to look at the homes of the others.
<1>1. ASSUME NEW c \in Imports, OthersStay(c), Found(c)',
             \A e \in Imports \ {c} : cmd[e].at \notin {"idle", "lock"} =>
               /\ marker'[cmd[e].src] = marker[cmd[e].src] /\ imported'[cmd[e].dst] = imported[cmd[e].dst]
               /\ notes'[cmd[e].dst] = notes[cmd[e].dst]
      PROVE  StillFound'
  <2> SUFFICES ASSUME NEW e \in Imports \ {c} PROVE Found(e)'
    BY <1>1 DEF StillFound
  <2>1. cmd'[e] = cmd[e] /\ Found(e) /\ Homed(e) /\ Target(e)' = Target(e)
    BY <1>0, <1>1 DEF OthersStay, StillFound, HoldersApart, Target
  <2>2. CASE cmd[e].at \in {"idle", "lock"}
    BY <2>1, <2>2 DEF Found
  <2>3. CASE cmd[e].at \notin {"idle", "lock"}
    <3>1. /\ marker'[cmd[e].src] = marker[cmd[e].src] /\ imported'[cmd[e].dst] = imported[cmd[e].dst]
          /\ notes'[cmd[e].dst] = notes[cmd[e].dst] /\ cmd[e].src \in Homes
      BY <1>1, <2>1, <2>3 DEF Homed
    <3>2. \A n \in cmd[e].seen : n \in Names
      BY <1>0, CommandIs
    <3>3. \A n \in cmd[e].seen : projects[cmd[e].src][n] # NoRepo => projects'[cmd[e].src][n] # NoRepo
      BY <1>0, <3>1, <3>2 DEF Grown
    <3> QED BY <2>1, <3>1, <3>3 DEF Found
  <2> QED BY <2>2, <2>3
<1>2. ASSUME NEW c \in Imports, Moves(c), Unwritten PROVE StillFound'
  <2>1. OthersStay(c)
    BY <1>2 DEF Moves, ImportEnds, GoesTo, StepsTo
  <2>2. Found(c)'
    <3>1. CASE cmd'[c].at \in {"idle", "lock"} \cup Early
      BY <3>1 DEF Found, Early
    <3>2. CASE cmd[c].at = "begin" /\ cmd'[c].at = "commit"
      BY <1>2, <3>2 DEF Moves, Found, ImportEnds, GoesTo, StepsTo, Unwritten, Early
    <3>3. CASE cmd[c].at = "file" /\ (GoesTo(c, "file") \/ (GoesTo(c, "create") /\ cmd'[c].file \in Names))
      BY <1>0, <1>2, <3>3 DEF StillFound, Found, GoesTo, StepsTo, Unwritten
    <3> QED BY <1>2, <3>1, <3>2, <3>3 DEF Moves, ImportEnds, GoesTo, StepsTo, Early
  <2> QED BY <1>1, <1>2, <2>1, <2>2 DEF Unwritten
<1>3. ASSUME NEW c \in Imports, ImportDies(c) PROVE StillFound'
  <2>1. OthersStay(c) /\ Found(c)'
    BY <1>3 DEF ImportDies, ImportEnds, Found
  <2> QED BY <1>1, <1>3, <2>1 DEF ImportDies, Unwritten
\* Another one has other homes.
<1>4. ASSUME NEW c \in Imports, cmd[c].at \notin {"idle", "lock"}, NEW e \in Imports \ {c}, cmd[e].at \notin {"idle", "lock"}
      PROVE  /\ {cmd[c].src, cmd[c].dst} \cap {cmd[e].src, cmd[e].dst} = {}
             /\ cmd[c].src \in Homes /\ cmd[c].dst \in Homes /\ cmd[e].src \in Homes /\ cmd[e].dst \in Homes
  BY <1>0, <1>4 DEF HoldersApart, Homed
<1>5. ASSUME NEW c \in Imports, Commits(c) PROVE StillFound'
  <2>1. OthersStay(c) /\ cmd[c].at = "commit" /\ cmd'[c].at = "mark" /\ cmd'[c].src = cmd[c].src /\ cmd'[c].dst = cmd[c].dst
        /\ imported' = [imported EXCEPT ![cmd[c].dst] = @ \cup {cmd[c].src}] /\ UNCHANGED <<marker, notes>>
    BY <1>5 DEF Commits, StepsTo
  <2>2. cmd[c].src \in imported'[cmd[c].dst] /\ marker[cmd[c].src] = NoFleet
    BY <1>0, <2>1 DEF HoldersApart, Homed, StillFound, Found, ImportTypes
  <2>3. Found(c)'
    BY <2>1, <2>2 DEF Found
  <2>4. \A e \in Imports \ {c} : cmd[e].at \notin {"idle", "lock"} => imported'[cmd[e].dst] = imported[cmd[e].dst]
    BY <1>0, <1>4, <2>1 DEF ImportTypes
  <2> QED BY <1>1, <2>1, <2>3, <2>4
<1>6. ASSUME NEW c \in Imports, Marks(c) PROVE StillFound'
  <2>1. OthersStay(c) /\ cmd[c].at = "mark" /\ cmd'[c].at = "file" /\ cmd'[c].src = cmd[c].src /\ cmd'[c].dst = cmd[c].dst
        /\ UNCHANGED <<imported, notes>>
    BY <1>6 DEF Marks, GoesTo, StepsTo
  <2>2. Found(c)'
    BY <1>0, <2>1 DEF StillFound, Found
  <2>3. ASSUME NEW e \in Imports \ {c}, cmd[e].at \notin {"idle", "lock"} PROVE marker'[cmd[e].src] = marker[cmd[e].src]
    <3>1. cmd[e].src \in Homes /\ cmd[e].src # cmd[c].src
      BY <1>4, <2>1, <2>3
    <3>2. UNCHANGED marker \/ \E x : marker' = [marker EXCEPT ![cmd[c].src] = x]
      BY <1>6 DEF Marks
    <3> QED BY <1>0, <3>1, <3>2 DEF ImportTypes
  <2> QED BY <1>1, <2>1, <2>2, <2>3
<1>7. ASSUME NEW c \in Imports, Creates(c) \/ Copies(c) PROVE StillFound'
  <2>1. /\ OthersStay(c) /\ cmd[c].at \in {"create", "copy"} /\ cmd'[c].at \in {"file", "copy"} /\ cmd'[c].src = cmd[c].src
        /\ cmd'[c].dst = cmd[c].dst /\ cmd'[c].as = cmd[c].as /\ UNCHANGED <<imported, marker>>
    BY <1>7 DEF Creates, Copies, NextFile, GoesTo, StepsTo
  <2>2. cmd[c].dst \in Homes /\ Target(c) \in Names /\ cmd[c].src \in imported[cmd[c].dst] /\ cmd[c].file \in Names
    BY <1>0, <2>1, TargetIs DEF HoldersApart, Homed, StillFound, Found
  <2>3. notes' = notes \/ \E x \in 0 .. Part : notes' = [notes EXCEPT ![cmd[c].dst][Target(c)] = x]
    BY <1>7, ImportConstants DEF Creates, Copies
  <2>4. \A e \in Imports \ {c} : cmd[e].at \notin {"idle", "lock"} => notes'[cmd[e].dst] = notes[cmd[e].dst]
    <3> SUFFICES ASSUME NEW e \in Imports \ {c}, cmd[e].at \notin {"idle", "lock"} PROVE notes'[cmd[e].dst] = notes[cmd[e].dst]
      OBVIOUS
    <3>1. cmd[e].dst \in Homes /\ cmd[e].dst # cmd[c].dst
      BY <1>4, <2>1
    <3>2. \A x : [notes EXCEPT ![cmd[c].dst][Target(c)] = x][cmd[e].dst] = notes[cmd[e].dst]
      BY <1>0, <3>1 DEF ImportTypes
    <3> QED BY <2>3, <3>2
  <2>5. CASE cmd'[c].at = "file"
    BY <1>1, <2>1, <2>2, <2>4, <2>5 DEF Found
  <2>6. CASE cmd'[c].at = "copy"
    <3>1. cmd'[c].file = cmd[c].file /\ notes' = [notes EXCEPT ![cmd[c].dst][Target(c)] = Part]
      BY <1>7, <2>6 DEF Creates, Copies, NextFile, GoesTo, StepsTo
    <3>2. Target(c)' = Target(c)
      BY <2>1, <3>1 DEF Target
    <3>3. notes'[cmd[c].dst][Target(c)] = Part
      BY <1>0, <2>2, <3>1 DEF ImportTypes
    <3>4. Found(c)'
      BY <2>1, <2>2, <2>6, <3>1, <3>2, <3>3 DEF Found
    <3> QED BY <1>1, <2>1, <2>4, <3>4
  <2> QED BY <2>1, <2>5, <2>6
<1>8. ASSUME NEW f \in Homes, Adds(f) PROVE StillFound'
  <2> SUFFICES ASSUME NEW e \in Imports PROVE Found(e)'
    BY DEF StillFound
  <2>1. cmd'[e] = cmd[e] /\ Found(e) /\ Homed(e) /\ Target(e)' = Target(e) /\ UNCHANGED <<marker, imported>>
    BY <1>0, <1>8 DEF StillFound, HoldersApart, Target, Adds
  <2>2. \A n \in cmd[e].seen : n \in Names
    BY <1>0, CommandIs
  <2>3. cmd[e].at = "commit" => \A n \in cmd[e].seen : projects'[cmd[e].src][n] # NoRepo
    BY <1>0, <2>1, <2>2 DEF Found, Homed, Grown
  <2>4. ASSUME cmd[e].at = "copy" PROVE notes'[cmd[e].dst][Target(e)] = Part
    <3>1. notes[cmd[e].dst][Target(e)] = Part /\ cmd[e].dst \in Homes /\ Target(e) \in Names
      BY <1>0, <2>1, <2>4, TargetIs DEF Found, Homed
    <3>2. Part # NoFleet
      BY ImportConstants
    <3>3. ASSUME NEW n \in Names, notes[f][n] = NoFleet, notes' = [notes EXCEPT ![f][n] = f]
          PROVE  notes'[cmd[e].dst][Target(e)] = Part
      <4>1. <<cmd[e].dst, Target(e)>> # <<f, n>>
        BY <3>1, <3>2, <3>3
      <4> QED BY <1>0, <3>1, <3>3, <4>1 DEF ImportTypes
    <3> QED BY <1>8, <3>1, <3>3 DEF Adds
  <2> QED BY <2>1, <2>3, <2>4 DEF Found
<1> QED BY <1>2, <1>3, <1>5, <1>6, <1>7, <1>8 DEF ImportSteps

\* The marker is written once, for the import that was made.
LEMMA MarkersToldStep == ImportInv /\ ImportSteps => MarkersTold'
<1> SUFFICES ASSUME ImportInv, ImportSteps PROVE MarkersTold'
  OBVIOUS
<1>0. ImportTypes /\ HoldersApart /\ StillFound /\ MarkersTold /\ mishaps \in Nat
  BY DEF ImportInv, ImportTypes
\* Nothing imported and no marker: an import that is to be marked stays so.
<1>1. ASSUME UNCHANGED <<marker, imported>>, mishaps' = mishaps \/ mishaps' \in Nat \ {0},
             mishaps' = mishaps => \A c \in Imports : cmd[c].at = "mark" =>
               cmd'[c].at = "mark" /\ cmd'[c].src = cmd[c].src /\ cmd'[c].dst = cmd[c].dst
      PROVE  MarkersTold'
  <2>1. mishaps' = 0 => \A s, d \in Homes : s \in imported[d] => Marking(s, d)'
    BY <1>0, <1>1 DEF MarkersTold, Marking
  <2> QED BY <1>0, <1>1, <2>1 DEF MarkersTold
<1>2. ASSUME NEW c \in Imports, OthersStay(c), cmd[c].at # "mark", UNCHANGED <<marker, imported>>, mishaps' = mishaps \/ mishaps' \in Nat \ {0}
      PROVE  MarkersTold'
  BY <1>1, <1>2 DEF OthersStay
<1>3. ASSUME NEW c \in Imports, Moves(c), Unwritten, UNCHANGED mishaps PROVE MarkersTold'
  <2>1. OthersStay(c) /\ cmd[c].at # "mark"
    BY <1>3 DEF Moves, ImportEnds, GoesTo, StepsTo, Early
  <2> QED BY <1>2, <1>3, <2>1 DEF Unwritten
<1>4. ASSUME NEW c \in Imports, ImportDies(c) PROVE MarkersTold'
  <2>1. mishaps' \in Nat \ {0} /\ UNCHANGED <<marker, imported>>
    BY <1>4 DEF ImportDies, Unwritten
  <2> QED BY <1>0, <2>1 DEF MarkersTold
<1>5. ASSUME NEW c \in Imports, Creates(c) \/ Copies(c) PROVE MarkersTold'
  <2>1. OthersStay(c) /\ cmd[c].at # "mark" /\ UNCHANGED <<marker, imported>> /\ (mishaps' = mishaps \/ mishaps' \in Nat \ {0})
    BY <1>5 DEF Creates, Copies, NextFile, GoesTo, StepsTo
  <2> QED BY <1>2, <2>1
<1>6. ASSUME NEW f \in Homes, Adds(f) PROVE MarkersTold'
  BY <1>1, <1>6 DEF Adds
<1>7. ASSUME NEW c \in Imports, Commits(c) PROVE MarkersTold'
  <2> DEFINE s == cmd[c].src
             d == cmd[c].dst
  <2>1. /\ s \in Homes /\ d \in Homes /\ s # d /\ marker[s] = NoFleet
        /\ OthersStay(c) /\ cmd[c].at = "commit" /\ cmd'[c].at = "mark" /\ cmd'[c].src = s /\ cmd'[c].dst = d
        /\ imported' = [imported EXCEPT ![d] = @ \cup {s}] /\ UNCHANGED <<marker, mishaps>>
    BY <1>0, <1>7 DEF Commits, StepsTo, HoldersApart, Homed, StillFound, Found
  <2>2. imported'[d] = imported[d] \cup {s} /\ \A f \in Homes \ {d} : imported'[f] = imported[f]
    BY <1>0, <2>1 DEF ImportTypes
  <2>3. \A f \in Homes : f \notin imported'[f]
    BY <1>0, <2>1, <2>2 DEF MarkersTold
  <2>4. \A f \in Homes : marker[f] # NoFleet => f \in imported'[marker[f]]
    BY <1>0, <2>1, <2>2 DEF MarkersTold, ImportTypes
  <2>5. ASSUME mishaps = 0, NEW f \in Homes, NEW g \in Homes, f \in imported'[g] PROVE Marking(f, g)'
    <3>1. CASE f = s /\ g = d
      BY <2>1, <3>1 DEF Marking
    <3>2. CASE ~(f = s /\ g = d)
      <4>1. Marking(f, g)
        BY <1>0, <2>2, <2>5, <3>2 DEF MarkersTold
      <4>2. \A e \in Imports : cmd[e].at = "mark" => cmd'[e] = cmd[e]
        BY <2>1 DEF OthersStay
      <4> QED BY <2>1, <4>1, <4>2 DEF Marking
    <3> QED BY <3>1, <3>2
  <2> QED BY <2>1, <2>3, <2>4, <2>5 DEF MarkersTold
<1>8. ASSUME NEW c \in Imports, Marks(c) PROVE MarkersTold'
  <2> DEFINE s == cmd[c].src
             d == cmd[c].dst
  <2>1. /\ s \in Homes /\ d \in Homes /\ marker[s] = NoFleet /\ s \in imported[d] /\ d # NoFleet
        /\ OthersStay(c) /\ cmd[c].at = "mark" /\ UNCHANGED imported
    BY <1>0, <1>8, ImportConstants DEF Marks, GoesTo, StepsTo, HoldersApart, Homed, StillFound, Found
  <2>2. CASE mishaps' \in Nat \ {0} /\ UNCHANGED marker
    BY <1>0, <2>1, <2>2 DEF MarkersTold
  <2>3. CASE marker' = [marker EXCEPT ![s] = IF @ = NoFleet THEN d ELSE @] /\ UNCHANGED mishaps
    <3>1. marker'[s] = d /\ \A f \in Homes \ {s} : marker'[f] = marker[f]
      BY <1>0, <2>1, <2>3 DEF ImportTypes
    <3>2. \A f \in Homes : marker'[f] # NoFleet => f \in imported[marker'[f]]
      BY <1>0, <2>1, <3>1 DEF MarkersTold
    <3>3. ASSUME mishaps = 0, NEW f \in Homes, NEW g \in Homes, f \in imported[g] PROVE Marking(f, g)'
      <4>1. Marking(f, g)
        BY <1>0, <3>3 DEF MarkersTold
      <4>2. CASE marker[f] = g
        <5>1. f # s
          BY <2>1, <4>2, ImportConstants
        <5> QED BY <3>1, <4>2, <5>1 DEF Marking
      <4>3. ASSUME NEW e \in Imports, cmd[e].at = "mark", cmd[e].src = f, cmd[e].dst = g PROVE Marking(f, g)'
        <5>1. CASE e = c
          BY <3>1, <4>3, <5>1 DEF Marking
        <5>2. CASE e # c
          <6>1. cmd'[e] = cmd[e]
            BY <2>1, <5>2 DEF OthersStay
          <6> QED BY <4>3, <6>1 DEF Marking
        <5> QED BY <5>1, <5>2
      <4> QED BY <4>1, <4>2, <4>3 DEF Marking
    <3> QED BY <1>0, <2>1, <2>3, <3>2, <3>3 DEF MarkersTold
  <2> QED BY <1>8, <2>2, <2>3 DEF Marks
<1> QED BY <1>3, <1>4, <1>5, <1>6, <1>7, <1>8 DEF ImportSteps

\* What is filed, by AddTask or by an import, is as the others are.
LEMMA EntriesStep == ImportInv /\ ImportSteps => Entries' /\ OriginsApart'
<1> SUFFICES ASSUME ImportInv, ImportSteps PROVE Entries' /\ OriginsApart'
  OBVIOUS
<1>0. ImportTypes /\ HoldersApart /\ StillFound /\ Entries /\ OriginsApart /\ Grown
  BY ImportGrows DEF ImportInv
<1>1. \A f \in Homes : \A i \in DOMAIN tasks[f] : Entry(f, i)' /\ tasks'[f][i] = tasks[f][i]
  BY <1>0, OldEntries DEF Grown
<1>2. ASSUME UNCHANGED tasks PROVE Entries' /\ OriginsApart'
  BY <1>0, <1>1, <1>2 DEF Entries, OriginsApart
<1>3. ASSUME NEW f \in Homes, NEW n \in Names, NEW ref \in 0 .. Len(tasks[f]), projects[f][n] # NoRepo, UNCHANGED projects,
             tasks' = [tasks EXCEPT ![f] = Append(@, [project |-> n, ref |-> ref, from |-> <<>>])]
      PROVE  Entries' /\ OriginsApart'
  <2> DEFINE t == [project |-> n, ref |-> ref, from |-> <<>>]
  <2>0. PICK k : k = Len(tasks[f]) + 1
    OBVIOUS
  <2>1. t \in FiledTask /\ t.project = n /\ t.ref = ref /\ t.from = <<>>
    BY DEF FiledTask
  <2>2. NewTask(f, t)
    BY <1>0, <1>3, <2>1, AppendIs
  <2>3. ref \in {0} \cup DOMAIN tasks[f]
    BY <1>0, TasksAre
  <2> HIDE DEF t
  <2>4. /\ tasks'[f][k] = t /\ DOMAIN tasks'[f] = DOMAIN tasks[f] \cup {k} /\ \A g \in Homes \ {f} : tasks'[g] = tasks[g]
    BY <2>0, <2>2 DEF NewTask
  <2>5. Entry(f, k)'
    BY <1>3, <2>1, <2>3, <2>4 DEF Entry
  <2>6. Entries'
    BY <1>1, <2>4, <2>5 DEF Entries
  <2>7. OriginsApart'
    <3> SUFFICES ASSUME NEW g \in Homes, NEW i \in DOMAIN tasks'[g], NEW j \in DOMAIN tasks'[g], i # j, tasks'[g][i].from # <<>>
                 PROVE  tasks'[g][i].from # tasks'[g][j].from
      BY DEF OriginsApart
    <3>1. CASE g # f
      BY <1>0, <1>1, <2>4, <3>1 DEF OriginsApart
    <3>2. CASE g = f
      BY <1>0, <1>1, <2>1, <2>4, <3>2 DEF OriginsApart
    <3> QED BY <3>1, <3>2
  <2> QED BY <2>6, <2>7
<1>4. ASSUME NEW c \in Imports, Commits(c) PROVE Entries' /\ OriginsApart'
  <2>0. PICK s, d, l, m : s = cmd[c].src /\ d = cmd[c].dst /\ l = Len(tasks[d]) /\ m = Len(tasks[s])
    OBVIOUS
  <2>1. s \in Homes /\ d \in Homes /\ s # d /\ s \notin imported[d] /\ s \in imported'[d]
    BY <1>0, <1>4, <2>0 DEF Commits, HoldersApart, Homed, StillFound, Found, ImportTypes
  <2>2. /\ tasks'[s] = tasks[s] /\ \A f \in Homes \ {d} : tasks'[f] = tasks[f]
        /\ projects'[s] = projects[s]
    BY <1>4, <2>0, <2>1 DEF Commits
  <2>3. l \in Nat /\ m \in Nat /\ DOMAIN tasks[d] = 1 .. l /\ DOMAIN tasks[s] = 1 .. m
    BY <1>0, <2>0, <2>1, TasksAre
  <2>4. DOMAIN tasks'[d] = 1 .. l + m
    <3> DEFINE q == tasks'[d]
    <3>1. q \in Seq(FiledTask) /\ Len(q) = l + m
      BY <1>4, <2>0, <2>1 DEF Commits
    <3> HIDE DEF q
    <3>2. DOMAIN q = 1 .. l + m
      BY <3>1
    <3> QED BY <3>2 DEF q
  <2>5. ASSUME NEW i \in 1 .. m
        PROVE  /\ tasks'[d][l + i].from = <<s, i>>
               /\ tasks'[d][l + i].ref = (IF tasks[s][i].ref \in 1 .. m THEN tasks[s][i].ref + l ELSE tasks[s][i].ref)
               /\ projects'[d][tasks'[d][l + i].project] = projects[s][tasks[s][i].project]
               /\ projects[s][tasks[s][i].project] # NoRepo
    BY <1>4, <2>0 DEF Commits
  <2>6. \A k \in 1 .. l + m : k \in 1 .. l \/ \E i \in 1 .. m : k = l + i
    <3> TAKE k \in 1 .. l + m
    <3>1. k \in 1 .. l \/ (k - l \in 1 .. m /\ k = l + (k - l))
      BY <2>3
    <3> QED BY <3>1
  <2>7. \A i \in 1 .. m : l + i \in 1 .. l + m /\ l + i # 0 /\ i \in Nat \ {0}
    BY <2>3
  <2>8. ASSUME NEW i \in 1 .. m PROVE Entry(d, l + i)'
    <3> DEFINE t == tasks'[d][l + i]
               o == tasks[s][i]
    <3>1. o.ref \in {0} \cup (1 .. m) /\ i \in DOMAIN tasks[s]
      BY <1>0, <2>1, <2>3 DEF Entries, Entry
    <3>2. t.from = <<s, i>> /\ t.from # <<>> /\ t.from[1] = s /\ t.from[2] = i
      <4>1. t.from = <<s, i>>
        BY <2>5
      <4>2. <<s, i>> # <<>> /\ <<s, i>>[1] = s /\ <<s, i>>[2] = i
        OBVIOUS
      <4> HIDE DEF t
      <4> QED BY <4>1, <4>2
    <3>3. o.ref = 0 => t.ref = 0
      <4>1. 0 \notin 1 .. m
        OBVIOUS
      <4> QED BY <2>5, <4>1
    <3>4. o.ref # 0 => t.ref = l + o.ref /\ t.ref # 0 /\ t.ref \in 1 .. l + m /\ tasks'[d][t.ref].from = <<s, o.ref>>
      <4> SUFFICES ASSUME o.ref # 0 PROVE t.ref = l + o.ref /\ t.ref # 0 /\ t.ref \in 1 .. l + m /\ tasks'[d][t.ref].from = <<s, o.ref>>
        OBVIOUS
      <4>1. o.ref \in 1 .. m
        BY <3>1
      <4>2. t.ref = o.ref + l
        BY <2>5, <4>1
      <4>3. o.ref + l = l + o.ref
        BY <2>3, <4>1
      <4> QED BY <2>5, <2>7, <4>1, <4>2, <4>3
    <3>5. projects'[d][t.project] # NoRepo /\ projects'[d][t.project] = projects[s][o.project]
      BY <2>5
    <3> HIDE DEF t, o
    <3>6. tasks'[s][i] = o /\ i \in DOMAIN tasks'[s] /\ DOMAIN tasks'[d] = 1 .. l + m /\ tasks'[d][l + i] = t
      BY <2>2, <2>4, <3>1 DEF t, o
    <3>7. t.ref \in {0} \cup DOMAIN tasks'[d]
      BY <3>1, <3>3, <3>4, <3>6
    <3> QED BY <2>1, <2>2, <3>2, <3>3, <3>4, <3>5, <3>6, <3>7 DEF Entry
  <2>9. Entries'
    <3> SUFFICES ASSUME NEW f \in Homes, NEW k \in DOMAIN tasks'[f] PROVE Entry(f, k)'
      BY DEF Entries
    <3>1. CASE f # d
      BY <1>1, <2>2, <3>1
    <3>2. CASE f = d
      <4>1. k \in DOMAIN tasks[d] \/ \E i \in 1 .. m : k = l + i
        BY <2>3, <2>4, <2>6, <3>2
      <4> QED BY <1>1, <2>1, <2>8, <3>2, <4>1
    <3> QED BY <3>1, <3>2
  <2>10. ASSUME NEW i \in DOMAIN tasks[d], tasks[d][i].from # <<>> PROVE tasks[d][i].from[1] # s
    BY <1>0, <2>1, <2>10 DEF Entries, Entry
  <2>11. OriginsApart'
    <3> SUFFICES ASSUME NEW f \in Homes, NEW i \in DOMAIN tasks'[f], NEW j \in DOMAIN tasks'[f], i # j, tasks'[f][i].from # <<>>
                 PROVE  tasks'[f][i].from # tasks'[f][j].from
      BY DEF OriginsApart
    <3>1. CASE f # d
      BY <1>0, <2>2, <3>1 DEF OriginsApart
    <3>2. CASE f = d
      <4>1. ASSUME NEW k \in 1 .. m, NEW e \in DOMAIN tasks[d] PROVE tasks'[d][l + k].from # tasks'[d][e].from
        <5>1. tasks'[d][l + k].from = <<s, k>> /\ tasks'[d][e] = tasks[d][e]
          BY <1>1, <2>1, <2>5
        <5>2. <<s, k>> # <<>> /\ <<s, k>>[1] = s
          OBVIOUS
        <5> QED BY <2>10, <5>1, <5>2
      <4>2. ASSUME NEW k \in 1 .. m, NEW e \in 1 .. m, l + k # l + e PROVE tasks'[d][l + k].from # tasks'[d][l + e].from
        BY <2>5, <4>2
      <4>3. i \in DOMAIN tasks[d] \/ \E k \in 1 .. m : i = l + k
        BY <2>3, <2>4, <2>6, <3>2
      <4>4. j \in DOMAIN tasks[d] \/ \E k \in 1 .. m : j = l + k
        BY <2>3, <2>4, <2>6, <3>2
      <4>5. CASE i \in DOMAIN tasks[d] /\ j \in DOMAIN tasks[d]
        BY <1>0, <1>1, <2>1, <3>2, <4>5 DEF OriginsApart
      <4> QED BY <3>2, <4>1, <4>2, <4>3, <4>4, <4>5
    <3> QED BY <3>1, <3>2
  <2> QED BY <2>9, <2>11
<1> QED BY <1>2, <1>3, <1>4 DEF ImportSteps, Adds, Unwritten, ImportDies, Marks, Creates, Copies

LEMMA ImportInvStep == ImportInv /\ [ImportNext]_iVars => ImportInv'
<1>1. CASE UNCHANGED iVars
  <2> SUFFICES ASSUME ImportInv PROVE ImportInv'
    BY <1>1
  <2>1. UNCHANGED <<projects, tasks, imported, marker, live, notes, cmd, mishaps>>
    BY <1>1 DEF iVars
  <2>2. \A c \in Imports : Homed(c)' = Homed(c) /\ Found(c)' = Found(c)
    BY <2>1 DEF Homed, Found, Target
  <2>3. ImportTypes' /\ HoldersApart' /\ StillFound'
    BY <2>1, <2>2 DEF ImportInv, ImportTypes, HoldersApart, StillFound
  <2>4. MarkersTold' /\ OriginsApart'
    BY <2>1 DEF ImportInv, MarkersTold, Marking, OriginsApart
  <2>5. Entries'
    <3>1. Entries
      BY DEF ImportInv
    <3>2. \A f, i : Entry(f, i)' = Entry(f, i)
      BY <2>1 DEF Entry
    <3> QED BY <2>1, <3>1, <3>2 DEF Entries
  <2> QED BY <2>3, <2>4, <2>5 DEF ImportInv
<1>2. CASE ImportNext
  BY <1>2, ImportStepIs, ImportTypesStep, HoldersApartStep, StillFoundStep, MarkersToldStep, EntriesStep DEF ImportInv
<1> QED BY <1>1, <1>2

LEMMA ImportInvSafe == ImportInv => ImportSafety
<1> SUFFICES ASSUME ImportInv PROVE ImportSafety
  OBVIOUS
<1>0. ImportTypes /\ HoldersApart /\ StillFound /\ MarkersTold /\ Entries /\ OriginsApart
  BY DEF ImportInv
<1>1. ImportTypeOK
  BY <1>0 DEF ImportTypes, HoldersApart, MarkersTold, ImportTypeOK, Projects
<1>2. ASSUME mishaps = 0, NEW s \in Homes PROVE Cardinality({d \in Homes : s \in imported[d]}) <= 1
  \* A second destination would need a second command that holds the source.
  <2>1. ASSUME NEW d \in Homes, NEW e \in Homes, s \in imported[d], s \in imported[e] PROVE d = e
    <3>1. Marking(s, d) /\ Marking(s, e)
      BY <1>0, <1>2, <2>1 DEF MarkersTold
    <3>2. d # NoFleet /\ e # NoFleet
      BY ImportConstants
    <3>3. \A c \in Imports : cmd[c].at = "mark" /\ cmd[c].src = s => marker[s] = NoFleet
      BY <1>0 DEF StillFound, Found
    <3>4. \A c, b \in Imports : cmd[c].at = "mark" /\ cmd[c].src = s /\ cmd[b].at = "mark" /\ cmd[b].src = s => c = b
      BY <1>0 DEF HoldersApart, Homed
    <3> QED BY <3>1, <3>2, <3>3, <3>4 DEF Marking
  <2> DEFINE D == {d \in Homes : s \in imported[d]}
  <2>2. D = {} \/ \E d \in D : D = {d}
    BY <2>1
  <2> HIDE DEF D
  <2>3. Cardinality(D) <= 1
    BY SMTT(40), <2>2, FS_EmptySet, FS_Singleton
  <2> QED BY <2>3 DEF D
<1>3. ImportedOnce
  BY <1>0, <1>2 DEF ImportedOnce, OriginsApart
<1>4. MarkerTold
  BY <1>0 DEF MarkerTold, MarkersTold
<1>5. TaskMapped
  BY <1>0 DEF TaskMapped, Entries, Entry
<1> QED BY <1>1, <1>3, <1>4, <1>5 DEF ImportSafety

\* A file is created where there is none, and its copy is what an import writes over.
LEMMA NotesKeptStep ==
  ImportInv /\ [ImportNext]_iVars => [\A f \in Homes, n \in Names : notes[f][n] \in Homes => notes'[f][n] = notes[f][n]]_iVars
<1> SUFFICES ASSUME ImportInv, ImportNext, NEW f \in Homes, NEW n \in Names, notes[f][n] \in Homes
             PROVE  notes'[f][n] = notes[f][n]
  OBVIOUS
<1>0. ImportTypes /\ HoldersApart /\ StillFound /\ ImportSteps
  BY ImportStepIs DEF ImportInv
<1>1. notes[f][n] # NoFleet /\ notes[f][n] # Part
  BY ImportConstants
<1>2. ASSUME NEW g \in Homes, NEW m \in Names, NEW x, notes[g][m] \in {NoFleet, Part}, notes' = [notes EXCEPT ![g][m] = x]
      PROVE  notes'[f][n] = notes[f][n]
  <2>1. <<g, m>> # <<f, n>>
    BY <1>1, <1>2
  <2> QED BY <1>0, <1>2, <2>1 DEF ImportTypes
<1>3. ASSUME NEW c \in Imports, Creates(c) \/ Copies(c) PROVE notes'[f][n] = notes[f][n]
  <2>1. cmd[c].dst \in Homes /\ Target(c) \in Names /\ (cmd[c].at = "copy" => notes[cmd[c].dst][Target(c)] = Part)
    BY <1>0, <1>3, TargetIs DEF Creates, Copies, HoldersApart, Homed, StillFound, Found
  <2>2. UNCHANGED notes \/ (notes[cmd[c].dst][Target(c)] \in {NoFleet, Part}
                            /\ \E x : notes' = [notes EXCEPT ![cmd[c].dst][Target(c)] = x])
    BY <1>3, <2>1 DEF Creates, Copies
  <2>3. CASE UNCHANGED notes
    BY <2>3
  <2>4. ASSUME notes[cmd[c].dst][Target(c)] \in {NoFleet, Part}, NEW x, notes' = [notes EXCEPT ![cmd[c].dst][Target(c)] = x]
        PROVE  notes'[f][n] = notes[f][n]
    <3>1. PICK g \in Homes, m \in Names : g = cmd[c].dst /\ m = Target(c)
      BY <2>1
    <3>2. notes[g][m] \in {NoFleet, Part} /\ notes' = [notes EXCEPT ![g][m] = x]
      BY <2>4, <3>1
    <3>3. g # f \/ m # n
      BY <1>1, <3>2
    <3> QED BY <1>0, <3>2, <3>3 DEF ImportTypes
  <2> QED BY <2>2, <2>3, <2>4
<1>4. ASSUME NEW g \in Homes, Adds(g) PROVE notes'[f][n] = notes[f][n]
  BY <1>2, <1>4 DEF Adds
<1> QED BY <1>0, <1>3, <1>4 DEF ImportSteps, Unwritten, ImportDies, Commits, Marks

\* Imports at once, one after the other and killed, for any homes, projects and
\* bounds: a task comes in once, of its repository and with its reference, a
\* marker names a fleet that has the import, and a lock has one holder.
THEOREM ImportSafe == ImportSpec => []ImportSafety
<1>1. ImportSpec => []ImportInv
  BY ImportStarts, ImportInvStep, PTL DEF ImportSpec
<1> QED BY <1>1, ImportInvSafe, PTL

\* No step of an import, and of what goes on beside it, changes a complete file.
THEOREM ImportKeepsNotes == ImportSpec => NotesKept
<1>1. ImportSpec => []ImportInv
  BY ImportStarts, ImportInvStep, PTL DEF ImportSpec
<1> QED BY <1>1, NotesKeptStep, PTL DEF ImportSpec, NotesKept
=============================================================================
