-------------------------- MODULE BoardSide_proofs ---------------------------
(***************************************************************************)
(* Proofs about what runs beside the board: IrohForwarder,                 *)
(* PeerConnections, PhonePairing and BoardServices, for any number of      *)
(* links, connections, phones, fleets, codes and boards. Each section has  *)
(* the inductive invariant of one of them, what its actions do to what the *)
(* invariant is about, and a lemma per part of the invariant.              *)
(***************************************************************************)
EXTENDS IrohForwarder, PeerConnections, PhonePairing, BoardServices, FiniteSetTheorems, SequenceTheorems, TLAPS

-----------------------------------------------------------------------------
(* IrohForwarder: the inductive invariant *)

LinkAts == {"new", "refused", "handshake", "shaken", "serve", "full", "gone", "idle"}
Present == {"handshake", "shaken", "serve"}
LinkRecord == [at : LinkAts, source : Sources \cup {"none"}, since : Nat]
StreamRecord == [at : {"none", "opening", "open"}, active : Nat]

ForwarderTypes ==
  /\ now \in Nat /\ slots \in Nat /\ shakes \in Nat /\ counts \in [Sources -> Nat]
  /\ link \in [Links -> LinkRecord] /\ stream \in [Links -> StreamRecord]
  /\ bucket \in [Links -> Nat] /\ active \in [Links -> Nat] /\ opened \in [Links -> Nat] /\ moved \in [Links -> Nat]
  /\ \A k \in Links : link[k].since <= now /\ (link[k].at \in Present => link[k].source \in Sources)

\* The connections of a source.
OfSource(s) == {k \in AtStep(Present) : link[k].source = s}

\* What is counted is finite, so that it may be counted.
Permits ==
  /\ IsFiniteSet(AtStep({"serve"})) /\ IsFiniteSet(AtStep({"handshake"})) /\ \A s \in Sources : IsFiniteSet(OfSource(s))
  /\ slots + Cardinality(AtStep({"serve"})) = MaxConnections
  /\ shakes + Cardinality(AtStep({"handshake"})) = Handshakes
  /\ \A s \in Sources : counts[s] = Cardinality(OfSource(s))

\* A connection that is served has streams, and none was opened before.
Earned ==
  \A k \in Links :
    /\ link[k].at \in {"new", "handshake", "shaken"} => opened[k] = 0
    /\ link[k].at = "serve" => opened[k] + bucket[k] <= Burst + (now - link[k].since)
    /\ stream[k].at # "none" => link[k].at = "serve"

\* Its Activity is never older than what it moved.
Silence ==
  \A k \in Links : /\ moved[k] <= active[k] /\ active[k] <= now
                   /\ link[k].at = "idle" => link[k].since - moved[k] >= Quiet

ForwarderInv == ForwarderTypes /\ Permits /\ Earned /\ Silence
-----------------------------------------------------------------------------
(* IrohForwarder: what the steps do *)

\* Only connection k goes on, to step a, and it keeps its source if it had one.
GoesOn(k, a) ==
  /\ link' \in [Links -> LinkRecord] /\ \A j \in Links \ {k} : link'[j] = link[j]
  /\ link'[k].at = a /\ link'[k].since = now

LEMMA LinkEffect ==
  ASSUME ForwarderTypes, NEW k \in Links, NEW a \in LinkAts, LinkStep(k, a)
  PROVE  GoesOn(k, a) /\ link'[k].source = link[k].source
<1> DEFINE e == [link[k] EXCEPT !.at = a, !.since = now]
<1>1. link[k] \in LinkRecord /\ now \in Nat
  BY DEF ForwarderTypes
<1>2. e \in LinkRecord /\ e.at = a /\ e.since = now /\ e.source = link[k].source
  BY <1>1 DEF LinkRecord
<1>3. link' = [link EXCEPT ![k] = e]
  BY DEF LinkStep, ForwarderTypes
<1> HIDE DEF e
<1> QED BY <1>2, <1>3 DEF GoesOn, ForwarderTypes

\* A set that one element may leave or enter.
LEMMA OneMoves ==
  ASSUME NEW S, IsFiniteSet(S), NEW T, NEW k, \A j : j # k => (j \in T <=> j \in S)
  PROVE  /\ IsFiniteSet(T) /\ Cardinality(S) \in Nat /\ Cardinality(T) \in Nat
         /\ k \notin S /\ k \in T => Cardinality(T) = Cardinality(S) + 1
         /\ k \in S /\ k \notin T => Cardinality(T) = Cardinality(S) - 1
         /\ (k \in S <=> k \in T) => Cardinality(T) = Cardinality(S)
<1>1. CASE k \in T
  <2>1. T = S \cup {k}
    BY <1>1
  <2> QED BY <1>1, <2>1, FS_AddElement, FS_CardinalityType
<1>2. CASE k \notin T
  <2>1. T = S \ {k}
    BY <1>2
  <2> QED BY <1>2, <2>1, FS_RemoveElement, FS_CardinalityType
<1> QED BY <1>1, <1>2

\* What one connection's step does to what is counted: it enters, leaves or stays.
Counted3(S, T, k) ==
  /\ IsFiniteSet(T) /\ Cardinality(S) \in Nat /\ Cardinality(T) \in Nat
  /\ k \notin S /\ k \in T => Cardinality(T) = Cardinality(S) + 1
  /\ k \in S /\ k \notin T => Cardinality(T) = Cardinality(S) - 1
  /\ (k \in S <=> k \in T) => Cardinality(T) = Cardinality(S)

LEMMA SetsMove ==
  ASSUME ForwarderTypes, Permits, NEW k \in Links, NEW a, GoesOn(k, a)
  PROVE  /\ Counted3(AtStep({"serve"}), AtStep({"serve"})', k)
         /\ Counted3(AtStep({"handshake"}), AtStep({"handshake"})', k)
         /\ \A s \in Sources : Counted3(OfSource(s), OfSource(s)', k)
<1>1. \A j : j # k => (j \in AtStep({"serve"})' <=> j \in AtStep({"serve"}))
  BY DEF GoesOn, AtStep
<1>2. \A j : j # k => (j \in AtStep({"handshake"})' <=> j \in AtStep({"handshake"}))
  BY DEF GoesOn, AtStep
<1>3. ASSUME NEW s \in Sources PROVE \A j : j # k => (j \in OfSource(s)' <=> j \in OfSource(s))
  BY DEF GoesOn, AtStep, OfSource
<1>4. IsFiniteSet(AtStep({"serve"})) /\ IsFiniteSet(AtStep({"handshake"})) /\ \A s \in Sources : IsFiniteSet(OfSource(s))
  BY DEF Permits
<1>5. Counted3(AtStep({"serve"}), AtStep({"serve"})', k)
  BY <1>1, <1>4, OneMoves DEF Counted3
<1>6. Counted3(AtStep({"handshake"}), AtStep({"handshake"})', k)
  BY <1>2, <1>4, OneMoves DEF Counted3
<1>7. ASSUME NEW s \in Sources PROVE Counted3(OfSource(s), OfSource(s)', k)
  BY <1>3, <1>4, OneMoves DEF Counted3
<1> QED BY <1>5, <1>6, <1>7

\* A connection is in the sets of its step.
LEMMA Members ==
  ASSUME ForwarderTypes, NEW k \in Links, link' \in [Links -> LinkRecord]
  PROVE  /\ k \in AtStep({"serve"}) <=> link[k].at = "serve"
         /\ k \in AtStep({"handshake"}) <=> link[k].at = "handshake"
         /\ \A s \in Sources : k \in OfSource(s) <=> link[k].at \in Present /\ link[k].source = s
         /\ k \in AtStep({"serve"})' <=> link'[k].at = "serve"
         /\ k \in AtStep({"handshake"})' <=> link'[k].at = "handshake"
         /\ \A s \in Sources : k \in OfSource(s)' <=> link'[k].at \in Present /\ link'[k].source = s
  BY DEF AtStep, OfSource

\* What has its permits: the difference the step makes to each of the three.
Served(k) == IF link'[k].at = "serve" THEN IF link[k].at = "serve" THEN slots' = slots ELSE slots' + 1 = slots
             ELSE IF link[k].at = "serve" THEN slots' = slots + 1 ELSE slots' = slots
Shaken(k) == IF link'[k].at = "handshake" THEN IF link[k].at = "handshake" THEN shakes' = shakes ELSE shakes' + 1 = shakes
             ELSE IF link[k].at = "handshake" THEN shakes' = shakes + 1 ELSE shakes' = shakes
OwnSource(k, s) == link[k].at \in Present /\ link[k].source = s
Placed(k) ==
  \A s \in Sources : IF OwnSource(k, s)' THEN IF OwnSource(k, s) THEN counts'[s] = counts[s] ELSE counts'[s] = counts[s] + 1
                     ELSE IF OwnSource(k, s) THEN counts'[s] = counts[s] - 1 ELSE counts'[s] = counts[s]

LEMMA PermitsMove ==
  ASSUME ForwarderTypes, Permits, NEW k \in Links, NEW a, GoesOn(k, a), Served(k), Shaken(k), Placed(k),
         slots' \in Nat, shakes' \in Nat, counts' \in [Sources -> Int]
  PROVE  Permits' /\ counts' \in [Sources -> Nat]
<1>1. link' \in [Links -> LinkRecord]
  BY DEF GoesOn
<1>2. IsFiniteSet(AtStep({"serve"})') /\ slots' + Cardinality(AtStep({"serve"})') = MaxConnections
  <2>1. Counted3(AtStep({"serve"}), AtStep({"serve"})', k)
    BY SetsMove
  <2>2. (k \in AtStep({"serve"}) <=> link[k].at = "serve") /\ (k \in AtStep({"serve"})' <=> link'[k].at = "serve")
    BY <1>1, Members
  <2>3. slots + Cardinality(AtStep({"serve"})) = MaxConnections /\ slots \in Nat /\ slots' \in Nat
    BY DEF Permits, ForwarderTypes
  <2> DEFINE n == Cardinality(AtStep({"serve"}))
             m == Cardinality(AtStep({"serve"})')
  <2>4. /\ n \in Nat /\ m \in Nat
        /\ link[k].at # "serve" /\ link'[k].at = "serve" => m = n + 1
        /\ link[k].at = "serve" /\ link'[k].at # "serve" => m = n - 1
        /\ (link[k].at = "serve" <=> link'[k].at = "serve") => m = n
    BY <2>1, <2>2 DEF Counted3
  <2>5. slots + n = MaxConnections /\ IsFiniteSet(AtStep({"serve"})')
    BY <2>1, <2>3 DEF Counted3
  <2> HIDE DEF n, m
  <2>6. slots' + m = MaxConnections
    <3>1. \/ slots = slots' + 1 /\ m = n + 1
          \/ slots' = slots + 1 /\ m = n - 1
          \/ slots' = slots /\ m = n
      <4>1. CASE link'[k].at = "serve"
        BY <2>4, <4>1 DEF Served
      <4>2. CASE link'[k].at # "serve"
        BY <2>4, <4>2 DEF Served
      <4> QED BY <4>1, <4>2
    <3>2. slots + n = MaxConnections
      BY <2>5
    <3>3. slots \in Nat /\ slots' \in Nat /\ n \in Nat /\ m \in Nat
      BY <2>3, <2>4
    <3> DEFINE x == slots
               y == slots'
    <3>4. x \in Nat /\ y \in Nat /\ ((x = y + 1 /\ m = n + 1) \/ (y = x + 1 /\ m = n - 1) \/ (y = x /\ m = n))
      BY <3>1, <3>3
    <3> HIDE DEF x, y
    <3>5. y + m = x + n
      BY <3>3, <3>4
    <3> QED BY <3>2, <3>5 DEF x, y
  <2> QED BY <2>5, <2>6 DEF m
<1>3. IsFiniteSet(AtStep({"handshake"})') /\ shakes' + Cardinality(AtStep({"handshake"})') = Handshakes
  <2>1. Counted3(AtStep({"handshake"}), AtStep({"handshake"})', k)
    BY SetsMove
  <2>2. (k \in AtStep({"handshake"}) <=> link[k].at = "handshake") /\ (k \in AtStep({"handshake"})' <=> link'[k].at = "handshake")
    BY <1>1, Members
  <2>3. shakes + Cardinality(AtStep({"handshake"})) = Handshakes /\ shakes \in Nat /\ shakes' \in Nat
    BY DEF Permits, ForwarderTypes
  <2> DEFINE n == Cardinality(AtStep({"handshake"}))
             m == Cardinality(AtStep({"handshake"})')
  <2>4. /\ n \in Nat /\ m \in Nat
        /\ link[k].at # "handshake" /\ link'[k].at = "handshake" => m = n + 1
        /\ link[k].at = "handshake" /\ link'[k].at # "handshake" => m = n - 1
        /\ (link[k].at = "handshake" <=> link'[k].at = "handshake") => m = n
    BY <2>1, <2>2 DEF Counted3
  <2>5. shakes + n = Handshakes /\ IsFiniteSet(AtStep({"handshake"})')
    BY <2>1, <2>3 DEF Counted3
  <2> HIDE DEF n, m
  <2>6. shakes' + m = Handshakes
    <3>1. \/ shakes = shakes' + 1 /\ m = n + 1
          \/ shakes' = shakes + 1 /\ m = n - 1
          \/ shakes' = shakes /\ m = n
      <4>1. CASE link'[k].at = "handshake"
        BY <2>4, <4>1 DEF Shaken
      <4>2. CASE link'[k].at # "handshake"
        BY <2>4, <4>2 DEF Shaken
      <4> QED BY <4>1, <4>2
    <3>2. shakes + n = Handshakes
      BY <2>5
    <3>3. shakes \in Nat /\ shakes' \in Nat /\ n \in Nat /\ m \in Nat
      BY <2>3, <2>4
    <3> DEFINE x == shakes
               y == shakes'
    <3>4. x \in Nat /\ y \in Nat /\ ((x = y + 1 /\ m = n + 1) \/ (y = x + 1 /\ m = n - 1) \/ (y = x /\ m = n))
      BY <3>1, <3>3
    <3> HIDE DEF x, y
    <3>5. y + m = x + n
      BY <3>3, <3>4
    <3> QED BY <3>2, <3>5 DEF x, y
  <2> QED BY <2>5, <2>6 DEF m
<1>4. ASSUME NEW s \in Sources
      PROVE  IsFiniteSet(OfSource(s)') /\ counts'[s] = Cardinality(OfSource(s)') /\ counts'[s] \in Nat
  <2>1. Counted3(OfSource(s), OfSource(s)', k) /\ counts[s] = Cardinality(OfSource(s)) /\ counts[s] \in Nat
    BY SetsMove DEF Permits, ForwarderTypes
  <2>2. (k \in OfSource(s) <=> OwnSource(k, s)) /\ (k \in OfSource(s)' <=> OwnSource(k, s)')
    BY <1>1, Members DEF OwnSource
  <2>3. IF OwnSource(k, s)' THEN IF OwnSource(k, s) THEN counts'[s] = counts[s] ELSE counts'[s] = counts[s] + 1
        ELSE IF OwnSource(k, s) THEN counts'[s] = counts[s] - 1 ELSE counts'[s] = counts[s]
    BY DEF Placed
  <2> HIDE DEF OwnSource
  <2> QED BY <2>1, <2>2, <2>3 DEF Counted3
<1> QED BY <1>2, <1>3, <1>4 DEF Permits

\* A source is given back.
LEMMA DropEffect ==
  ASSUME ForwarderTypes, NEW k \in Links, link[k].at \in Present, Drop(k), NEW a \in LinkAts \ Present, GoesOn(k, a)
  PROVE  Placed(k) /\ counts' \in [Sources -> Int]
<1>1. link[k].source \in Sources /\ counts \in [Sources -> Nat]
  BY DEF ForwarderTypes
<1>2. link'[k].at \notin Present
  BY DEF GoesOn
<1> QED BY <1>1, <1>2 DEF Drop, Placed, OwnSource

\* A connection comes in, or is refused.
LEMMA IncomingEffect ==
  ASSUME ForwarderTypes, NEW k \in Links, Incoming(k)
  PROVE  /\ UNCHANGED <<now, bucket, active, stream, opened, moved>> /\ link[k].at = "new"
         /\ GoesOn(k, "refused") \/ (GoesOn(k, "handshake") /\ link'[k].source \in Sources)
         /\ Served(k) /\ Shaken(k) /\ Placed(k)
         /\ slots' \in Nat /\ shakes' \in Nat /\ counts' \in [Sources -> Int]
<1>1. UNCHANGED <<now, slots, bucket, active, stream, opened, moved>> /\ link[k].at = "new"
  BY DEF Incoming, Streams
<1>2. CASE LinkStep(k, "refused") /\ UNCHANGED <<shakes, counts>>
  <2>1. GoesOn(k, "refused")
    BY <1>2, LinkEffect DEF LinkAts
  <2> QED BY <1>1, <1>2, <2>1 DEF GoesOn, Served, Shaken, Placed, OwnSource, Present, ForwarderTypes
<1>3. ASSUME NEW s \in Sources, shakes > 0, shakes' = shakes - 1, counts' = [counts EXCEPT ![s] = @ + 1],
             link' = [link EXCEPT ![k] = [at |-> "handshake", source |-> s, since |-> now]]
      PROVE  /\ GoesOn(k, "handshake") /\ link'[k].source \in Sources
             /\ Served(k) /\ Shaken(k) /\ Placed(k)
             /\ slots' \in Nat /\ shakes' \in Nat /\ counts' \in [Sources -> Int]
  <2> DEFINE e == [at |-> "handshake", source |-> s, since |-> now]
  <2>1. e \in LinkRecord /\ e.at = "handshake" /\ e.source = s /\ e.since = now
    BY DEF LinkRecord, LinkAts, ForwarderTypes
  <2>2. link' = [link EXCEPT ![k] = e]
    BY <1>3
  <2> HIDE DEF e
  <2>3. GoesOn(k, "handshake") /\ link'[k] = e
    BY <2>1, <2>2 DEF GoesOn, ForwarderTypes
  <2>4. Placed(k) /\ counts' \in [Sources -> Int]
    BY <1>1, <1>3, <2>1, <2>3 DEF Placed, OwnSource, Present, ForwarderTypes
  <2>5. Served(k) /\ Shaken(k) /\ slots' \in Nat /\ shakes' \in Nat
    BY <1>1, <1>3, <2>1, <2>3 DEF Served, Shaken, ForwarderTypes
  <2> QED BY <2>1, <2>3, <2>4, <2>5
<1>4. \/ LinkStep(k, "refused") /\ UNCHANGED <<shakes, counts>>
      \/ \E s \in Sources : /\ shakes > 0 /\ shakes' = shakes - 1 /\ counts' = [counts EXCEPT ![s] = @ + 1]
                            /\ link' = [link EXCEPT ![k] = [at |-> "handshake", source |-> s, since |-> now]]
  BY DEF Incoming, Refuse
<1> QED BY <1>1, <1>2, <1>3, <1>4

\* A handshake ends.
LEMMA ShakeEffect ==
  ASSUME ForwarderTypes, NEW k \in Links, HandshakeFails(k) \/ HandshakeEnds(k)
  PROVE  /\ UNCHANGED <<now, bucket, active, stream, opened, moved>> /\ link[k].at = "handshake"
         /\ GoesOn(k, "gone") \/ GoesOn(k, "shaken")
         /\ link'[k].source = link[k].source /\ Served(k) /\ Shaken(k) /\ Placed(k)
         /\ slots' \in Nat /\ shakes' \in Nat /\ counts' \in [Sources -> Int]
<1>1. UNCHANGED <<now, slots, bucket, active, stream, opened, moved>> /\ link[k].at = "handshake" /\ shakes' = shakes + 1
  BY DEF HandshakeFails, HandshakeEnds, Streams
<1>2. CASE HandshakeFails(k)
  <2>1. GoesOn(k, "gone") /\ link'[k].source = link[k].source
    BY <1>2, LinkEffect DEF HandshakeFails, LinkAts
  <2>2. Placed(k) /\ counts' \in [Sources -> Int]
    BY <1>1, <1>2, <2>1, DropEffect DEF HandshakeFails, LinkAts, Present
  <2> QED BY <1>1, <2>1, <2>2 DEF GoesOn, Served, Shaken, ForwarderTypes
<1>3. CASE HandshakeEnds(k)
  <2>1. GoesOn(k, "shaken") /\ link'[k].source = link[k].source /\ UNCHANGED counts
    BY <1>3, LinkEffect DEF HandshakeEnds, LinkAts
  <2>2. Placed(k) /\ counts' \in [Sources -> Int]
    BY <1>1, <2>1 DEF GoesOn, Placed, OwnSource, Present, ForwarderTypes
  <2> QED BY <1>1, <2>1, <2>2 DEF GoesOn, Served, Shaken, ForwarderTypes
<1> QED BY <1>2, <1>3

\* The connection gets a slot, or is turned away.
LEMMA SlotEffect ==
  ASSUME ForwarderTypes, NEW k \in Links, TakeSlot(k)
  PROVE  /\ UNCHANGED <<now, stream, opened>> /\ link[k].at = "shaken"
         /\ \/ /\ GoesOn(k, "serve") /\ bucket' = [bucket EXCEPT ![k] = Burst]
               /\ active' = [active EXCEPT ![k] = now] /\ moved' = [moved EXCEPT ![k] = now]
            \/ GoesOn(k, "full") /\ UNCHANGED <<bucket, active, moved>>
         /\ link'[k].source = link[k].source /\ Served(k) /\ Shaken(k) /\ Placed(k)
         /\ slots' \in Nat /\ shakes' \in Nat /\ counts' \in [Sources -> Int]
<1>1. UNCHANGED <<now, shakes, stream, opened>> /\ link[k].at = "shaken"
  BY DEF TakeSlot
<1>2. CASE slots > 0 /\ slots' = slots - 1 /\ LinkStep(k, "serve") /\ UNCHANGED counts
  <2>1. GoesOn(k, "serve") /\ link'[k].source = link[k].source
    BY <1>2, LinkEffect DEF LinkAts
  <2>2. Placed(k) /\ counts' \in [Sources -> Int]
    BY <1>1, <1>2, <2>1 DEF GoesOn, Placed, OwnSource, Present, ForwarderTypes
  <2>3. Served(k) /\ Shaken(k) /\ slots' \in Nat /\ shakes' \in Nat
    BY <1>1, <1>2, <2>1 DEF GoesOn, Served, Shaken, ForwarderTypes
  <2>4. bucket' = [bucket EXCEPT ![k] = Burst] /\ active' = [active EXCEPT ![k] = now] /\ moved' = [moved EXCEPT ![k] = now]
    BY <1>2 DEF TakeSlot
  <2> QED BY <1>1, <2>1, <2>2, <2>3, <2>4
<1>3. CASE slots = 0 /\ LinkStep(k, "full") /\ Drop(k) /\ UNCHANGED <<slots, bucket, active, moved>>
  <2>1. GoesOn(k, "full") /\ link'[k].source = link[k].source
    BY <1>3, LinkEffect DEF LinkAts
  <2>2. Placed(k) /\ counts' \in [Sources -> Int]
    BY <1>1, <1>3, <2>1, DropEffect DEF LinkAts, Present
  <2>3. Served(k) /\ Shaken(k) /\ slots' \in Nat /\ shakes' \in Nat
    BY <1>1, <1>3, <2>1 DEF GoesOn, Served, Shaken, ForwarderTypes
  <2> QED BY <1>1, <1>3, <2>1, <2>2, <2>3
<1> QED BY <1>2, <1>3 DEF TakeSlot

\* A connection that is served ends.
LEMMA LeaveEffect ==
  ASSUME ForwarderTypes, NEW k \in Links, IdleConnection(k) \/ PeerLeaves(k)
  PROVE  /\ UNCHANGED <<now, bucket, active, opened, moved>> /\ link[k].at = "serve"
         /\ stream' = [stream EXCEPT ![k] = NoStream]
         /\ GoesOn(k, "gone") \/ (GoesOn(k, "idle") /\ now - active[k] >= Quiet)
         /\ link'[k].source = link[k].source /\ Served(k) /\ Shaken(k) /\ Placed(k)
         /\ slots' \in Nat /\ shakes' \in Nat /\ counts' \in [Sources -> Int]
<1>1. PICK a \in {"gone", "idle"} : Leave(k, a) /\ (a = "idle" => now - active[k] >= Quiet)
  BY DEF IdleConnection, PeerLeaves
<1>2. /\ UNCHANGED <<now, shakes, bucket, active, opened, moved>> /\ link[k].at = "serve" /\ slots' = slots + 1
      /\ stream' = [stream EXCEPT ![k] = NoStream] /\ LinkStep(k, a) /\ Drop(k)
  BY <1>1 DEF Leave
<1>3. a \in LinkAts \ Present
  BY DEF LinkAts, Present
<1>4. GoesOn(k, a) /\ link'[k].source = link[k].source
  BY <1>2, <1>3, LinkEffect
<1>5. Placed(k) /\ counts' \in [Sources -> Int]
  BY <1>2, <1>3, <1>4, DropEffect DEF Present
<1>6. Served(k) /\ Shaken(k) /\ slots' \in Nat /\ shakes' \in Nat
  BY <1>2, <1>4 DEF GoesOn, Served, Shaken, ForwarderTypes
<1> QED BY <1>1, <1>2, <1>4, <1>5, <1>6

\* What a stream does leaves the connections and permits.
StreamOnly == UNCHANGED <<now, link, slots, shakes, counts>>

LEMMA StreamEffect ==
  ASSUME ForwarderTypes, NEW k \in Links, AcceptStream(k) \/ OpenBoard(k) \/ MoveBytes(k) \/ EndStream(k)
  PROVE  /\ StreamOnly /\ stream' \in [Links -> StreamRecord] /\ \A j \in Links \ {k} : stream'[j] = stream[j]
         /\ \/ /\ link[k].at = "serve" /\ bucket[k] > 0 /\ bucket' = [bucket EXCEPT ![k] = @ - 1]
               /\ opened' = [opened EXCEPT ![k] = @ + 1] /\ UNCHANGED <<active, moved>>
            \/ /\ stream[k].at # "none" /\ UNCHANGED <<bucket, opened>>
               /\ \/ UNCHANGED <<active, moved>>
                  \/ active' = [active EXCEPT ![k] = now] /\ moved' = [moved EXCEPT ![k] = now]
<1>1. CASE AcceptStream(k)
  <2> DEFINE e == [at |-> "opening", active |-> now]
  <2>1. e \in StreamRecord
    BY DEF StreamRecord, ForwarderTypes
  <2>2. stream' = [stream EXCEPT ![k] = e]
    BY <1>1 DEF AcceptStream
  <2> HIDE DEF e
  <2> QED BY <1>1, <2>1, <2>2 DEF AcceptStream, Take, StreamOnly, ForwarderTypes
<1>2. CASE OpenBoard(k)
  <2> DEFINE e == [at |-> "open", active |-> now]
  <2>1. e \in StreamRecord /\ NoStream \in StreamRecord
    BY DEF StreamRecord, ForwarderTypes, NoStream
  <2>2. stream' = [stream EXCEPT ![k] = e] \/ stream' = [stream EXCEPT ![k] = NoStream]
    BY <1>2 DEF OpenBoard
  <2> HIDE DEF e
  <2>3. stream[k].at # "none" /\ StreamOnly /\ UNCHANGED <<bucket, opened, active, moved>>
    BY <1>2 DEF OpenBoard, StreamOnly
  <2> QED BY <2>1, <2>2, <2>3 DEF ForwarderTypes
<1>3. CASE MoveBytes(k)
  <2> DEFINE e == [stream[k] EXCEPT !.active = now]
  <2>1. e \in StreamRecord
    BY DEF StreamRecord, ForwarderTypes
  <2>2. stream' = [stream EXCEPT ![k] = e]
    BY <1>3 DEF MoveBytes, Touch, ForwarderTypes
  <2> HIDE DEF e
  <2>3. /\ stream[k].at # "none" /\ StreamOnly /\ UNCHANGED <<bucket, opened>>
        /\ active' = [active EXCEPT ![k] = now] /\ moved' = [moved EXCEPT ![k] = now]
    BY <1>3 DEF MoveBytes, Touch, StreamOnly
  <2> QED BY <2>1, <2>2, <2>3 DEF ForwarderTypes
<1>4. CASE EndStream(k)
  <2>1. NoStream \in StreamRecord
    BY DEF StreamRecord, NoStream
  <2> QED BY <1>4, <2>1 DEF EndStream, StreamOnly, ForwarderTypes
<1> QED BY <1>1, <1>2, <1>3, <1>4

\* Time passes, and buckets fill up to the burst.
LEMMA TickEffect ==
  ASSUME ForwarderTypes, Tick
  PROVE  /\ UNCHANGED <<link, slots, shakes, counts, active, stream, opened, moved>> /\ now' = now + 1
         /\ bucket' \in [Links -> Nat] /\ \A k \in Links : bucket'[k] <= bucket[k] + 1
  BY DEF Tick, Refill, ForwarderTypes

\* A step of a connection's own moves no time and touches no other connection.
LEMMA ForwarderTypesStep ==
  ASSUME ForwarderTypes, Permits, Earned, ForwarderNext
  PROVE  ForwarderTypes'
<1>0. Burst \in Nat
  BY ForwarderAssumption
<1>1. ASSUME NEW k \in Links, NEW a \in LinkAts, GoesOn(k, a), link'[k].at \in Present => link'[k].source \in Sources, now' = now
      PROVE  /\ link' \in [Links -> LinkRecord]
             /\ \A j \in Links : link'[j].since <= now' /\ (link'[j].at \in Present => link'[j].source \in Sources)
  BY <1>1 DEF GoesOn, ForwarderTypes
<1>2. ASSUME NEW k \in Links, Incoming(k)
      PROVE  ForwarderTypes'
  <2>1. PICK a \in {"refused", "handshake"} : GoesOn(k, a) /\ (a = "handshake" => link'[k].source \in Sources)
    BY <1>2, IncomingEffect
  <2>2. a \in LinkAts /\ (link'[k].at \in Present => link'[k].source \in Sources)
    BY <2>1 DEF GoesOn, LinkAts, Present
  <2>3. /\ UNCHANGED <<now, bucket, active, stream, opened, moved>> /\ Served(k) /\ Shaken(k) /\ Placed(k)
        /\ slots' \in Nat /\ shakes' \in Nat /\ counts' \in [Sources -> Int]
    BY <1>2, IncomingEffect
  <2>4. counts' \in [Sources -> Nat]
    BY <2>1, <2>3, PermitsMove
  <2> QED BY <1>1, <2>1, <2>2, <2>3, <2>4 DEF ForwarderTypes
<1>3. ASSUME NEW k \in Links, HandshakeFails(k) \/ HandshakeEnds(k)
      PROVE  ForwarderTypes'
  <2>1. PICK a \in {"gone", "shaken"} : GoesOn(k, a)
    BY <1>3, ShakeEffect
  <2>2. /\ UNCHANGED <<now, bucket, active, stream, opened, moved>> /\ Served(k) /\ Shaken(k) /\ Placed(k)
        /\ slots' \in Nat /\ shakes' \in Nat /\ counts' \in [Sources -> Int]
        /\ link[k].at = "handshake" /\ link'[k].source = link[k].source
    BY <1>3, ShakeEffect
  <2>3. a \in LinkAts /\ link'[k].source \in Sources
    BY <2>2 DEF LinkAts, Present, ForwarderTypes
  <2>4. counts' \in [Sources -> Nat]
    BY <2>1, <2>2, PermitsMove
  <2> QED BY <1>1, <2>1, <2>2, <2>3, <2>4 DEF ForwarderTypes
<1>4. ASSUME NEW k \in Links, TakeSlot(k)
      PROVE  ForwarderTypes'
  <2>1. PICK a \in {"serve", "full"} : GoesOn(k, a)
    BY <1>4, SlotEffect
  <2>2. /\ UNCHANGED <<now, stream, opened>> /\ Served(k) /\ Shaken(k) /\ Placed(k)
        /\ slots' \in Nat /\ shakes' \in Nat /\ counts' \in [Sources -> Int]
        /\ link[k].at = "shaken" /\ link'[k].source = link[k].source
    BY <1>4, SlotEffect
  <2>3. a \in LinkAts /\ link'[k].source \in Sources
    BY <2>2 DEF LinkAts, Present, ForwarderTypes
  <2>4. counts' \in [Sources -> Nat]
    BY <2>1, <2>2, PermitsMove
  <2>5. bucket' \in [Links -> Nat] /\ active' \in [Links -> Nat] /\ moved' \in [Links -> Nat]
    BY <1>0, <1>4, SlotEffect DEF ForwarderTypes
  <2> QED BY <1>1, <2>1, <2>2, <2>3, <2>4, <2>5 DEF ForwarderTypes
<1>5. ASSUME NEW k \in Links, IdleConnection(k) \/ PeerLeaves(k)
      PROVE  ForwarderTypes'
  <2>1. PICK a \in {"gone", "idle"} : GoesOn(k, a)
    BY <1>5, LeaveEffect
  <2>2. /\ UNCHANGED <<now, bucket, active, opened, moved>> /\ Served(k) /\ Shaken(k) /\ Placed(k)
        /\ slots' \in Nat /\ shakes' \in Nat /\ counts' \in [Sources -> Int]
        /\ stream' = [stream EXCEPT ![k] = NoStream] /\ link[k].at = "serve" /\ link'[k].source = link[k].source
    BY <1>5, LeaveEffect
  <2>3. a \in LinkAts /\ link'[k].source \in Sources
    BY <2>2 DEF LinkAts, Present, ForwarderTypes
  <2>4. counts' \in [Sources -> Nat]
    BY <2>1, <2>2, PermitsMove
  <2>5. stream' \in [Links -> StreamRecord]
    BY <2>2 DEF ForwarderTypes, StreamRecord, NoStream
  <2> QED BY <1>1, <2>1, <2>2, <2>3, <2>4, <2>5 DEF ForwarderTypes
<1>6. ASSUME NEW k \in Links, AcceptStream(k) \/ OpenBoard(k) \/ MoveBytes(k) \/ EndStream(k)
      PROVE  ForwarderTypes'
  BY <1>6, StreamEffect DEF StreamOnly, ForwarderTypes
<1>7. CASE Tick
  <2>1. /\ UNCHANGED <<link, slots, shakes, counts, active, stream, opened, moved>> /\ now' = now + 1
        /\ bucket' \in [Links -> Nat]
    BY <1>7, TickEffect
  <2>2. \A j \in Links : link[j].since \in Nat
    BY DEF ForwarderTypes, LinkRecord
  <2> QED BY <2>1, <2>2 DEF ForwarderTypes
<1> QED BY <1>2, <1>3, <1>4, <1>5, <1>6, <1>7 DEF ForwarderNext

LEMMA PermitsStep ==
  ASSUME ForwarderTypes, Permits, ForwarderNext
  PROVE  Permits'
<1>1. ASSUME NEW k \in Links, Incoming(k)
      PROVE  Permits'
  BY <1>1, IncomingEffect, PermitsMove
<1>2. ASSUME NEW k \in Links, HandshakeFails(k) \/ HandshakeEnds(k)
      PROVE  Permits'
  BY <1>2, ShakeEffect, PermitsMove
<1>3. ASSUME NEW k \in Links, TakeSlot(k)
      PROVE  Permits'
  BY <1>3, SlotEffect, PermitsMove
<1>4. ASSUME NEW k \in Links, IdleConnection(k) \/ PeerLeaves(k)
      PROVE  Permits'
  BY <1>4, LeaveEffect, PermitsMove
<1>5. ASSUME UNCHANGED <<link, slots, shakes, counts>>
      PROVE  Permits'
  BY <1>5 DEF Permits, AtStep, OfSource
<1>6. ASSUME NEW k \in Links, AcceptStream(k) \/ OpenBoard(k) \/ MoveBytes(k) \/ EndStream(k)
      PROVE  Permits'
  BY <1>5, <1>6, StreamEffect DEF StreamOnly
<1>7. CASE Tick
  BY <1>5, <1>7, TickEffect
<1> QED BY <1>1, <1>2, <1>3, <1>4, <1>6, <1>7 DEF ForwarderNext

LEMMA EarnedStep ==
  ASSUME ForwarderTypes, Permits, Earned, ForwarderNext
  PROVE  Earned'
<1>0. Burst \in Nat
  BY ForwarderAssumption
<1>1. \A j \in Links : link[j].since \in Nat /\ opened[j] \in Nat /\ bucket[j] \in Nat /\ now \in Nat
  BY DEF ForwarderTypes, LinkRecord
<1>2. ASSUME NEW k \in Links, Incoming(k)
      PROVE  Earned'
  <2>1. UNCHANGED <<now, bucket, stream, opened>> /\ link[k].at = "new" /\ (GoesOn(k, "refused") \/ GoesOn(k, "handshake"))
    BY <1>2, IncomingEffect
  <2> QED BY <2>1 DEF Earned, GoesOn
<1>3. ASSUME NEW k \in Links, HandshakeFails(k) \/ HandshakeEnds(k)
      PROVE  Earned'
  <2>1. UNCHANGED <<now, bucket, stream, opened>> /\ link[k].at = "handshake" /\ (GoesOn(k, "gone") \/ GoesOn(k, "shaken"))
    BY <1>3, ShakeEffect
  <2> QED BY <2>1 DEF Earned, GoesOn
<1>4. ASSUME NEW k \in Links, TakeSlot(k)
      PROVE  Earned'
  <2>1. UNCHANGED <<now, stream, opened>> /\ link[k].at = "shaken" /\ opened[k] = 0
    BY <1>4, SlotEffect DEF Earned
  <2>2. CASE GoesOn(k, "serve") /\ bucket' = [bucket EXCEPT ![k] = Burst]
    <3>1. link'[k].at = "serve" /\ link'[k].since = now /\ \A j \in Links \ {k} : link'[j] = link[j]
      BY <2>2 DEF GoesOn
    <3>2. bucket'[k] = Burst /\ \A j \in Links \ {k} : bucket'[j] = bucket[j]
      BY <2>2 DEF ForwarderTypes
    <3>3. opened'[k] + bucket'[k] <= Burst + (now' - link'[k].since)
      BY <1>0, <1>1, <2>1, <3>1, <3>2
    <3> QED BY <2>1, <3>1, <3>2, <3>3 DEF Earned
  <2>3. CASE GoesOn(k, "full") /\ UNCHANGED bucket
    BY <2>1, <2>3 DEF Earned, GoesOn
  <2> QED BY <1>4, <2>2, <2>3, SlotEffect
<1>5. ASSUME NEW k \in Links, IdleConnection(k) \/ PeerLeaves(k)
      PROVE  Earned'
  <2>1. /\ UNCHANGED <<now, bucket, opened>> /\ stream' = [stream EXCEPT ![k] = NoStream]
        /\ GoesOn(k, "gone") \/ GoesOn(k, "idle")
    BY <1>5, LeaveEffect
  <2>2. stream'[k].at = "none" /\ \A j \in Links \ {k} : stream'[j] = stream[j]
    BY <2>1 DEF ForwarderTypes, NoStream
  <2> QED BY <2>1, <2>2 DEF Earned, GoesOn
<1>6. ASSUME NEW k \in Links, AcceptStream(k) \/ OpenBoard(k) \/ MoveBytes(k) \/ EndStream(k)
      PROVE  Earned'
  <2>1. UNCHANGED <<now, link>> /\ \A j \in Links \ {k} : stream'[j] = stream[j]
    BY <1>6, StreamEffect DEF StreamOnly
  <2>2. CASE link[k].at = "serve" /\ bucket[k] > 0 /\ bucket' = [bucket EXCEPT ![k] = @ - 1] /\ opened' = [opened EXCEPT ![k] = @ + 1]
    <3>1. bucket'[k] = bucket[k] - 1 /\ opened'[k] = opened[k] + 1 /\ \A j \in Links \ {k} : bucket'[j] = bucket[j] /\ opened'[j] = opened[j]
      BY <2>2 DEF ForwarderTypes
    <3>2. opened'[k] + bucket'[k] = opened[k] + bucket[k]
      BY <1>1, <3>1
    <3> QED BY <2>1, <2>2, <3>1, <3>2 DEF Earned
  <2>3. CASE stream[k].at # "none" /\ UNCHANGED <<bucket, opened>>
    BY <2>1, <2>3 DEF Earned
  <2> QED BY <1>6, <2>2, <2>3, StreamEffect
<1>7. CASE Tick
  <2>1. UNCHANGED <<link, stream, opened>> /\ now' = now + 1 /\ bucket' \in [Links -> Nat] /\ \A k \in Links : bucket'[k] <= bucket[k] + 1
    BY <1>7, TickEffect
  <2>2. ASSUME NEW j \in Links, link[j].at = "serve"
        PROVE  opened[j] + bucket'[j] <= Burst + ((now + 1) - link[j].since)
    <3>1. opened[j] + bucket[j] <= Burst + (now - link[j].since) /\ bucket'[j] <= bucket[j] + 1 /\ bucket'[j] \in Nat
      BY <2>1, <2>2 DEF Earned
    <3> QED BY <1>0, <1>1, <3>1
  <2> QED BY <2>1, <2>2 DEF Earned
<1> QED BY <1>2, <1>3, <1>4, <1>5, <1>6, <1>7 DEF ForwarderNext

LEMMA SilenceStep ==
  ASSUME ForwarderTypes, Earned, Silence, ForwarderNext
  PROVE  Silence'
<1>1. Quiet \in Nat /\ Quiet > 0
  BY ForwarderAssumption
<1>2. now \in Nat /\ \A j \in Links : active[j] \in Nat /\ moved[j] \in Nat
  BY DEF ForwarderTypes
<1>3. ASSUME NEW k \in Links, Incoming(k)
      PROVE  Silence'
  <2>1. UNCHANGED <<now, active, moved>> /\ (GoesOn(k, "refused") \/ GoesOn(k, "handshake"))
    BY <1>3, IncomingEffect
  <2> QED BY <2>1 DEF Silence, GoesOn
<1>4. ASSUME NEW k \in Links, HandshakeFails(k) \/ HandshakeEnds(k)
      PROVE  Silence'
  <2>1. UNCHANGED <<now, active, moved>> /\ (GoesOn(k, "gone") \/ GoesOn(k, "shaken"))
    BY <1>4, ShakeEffect
  <2> QED BY <2>1 DEF Silence, GoesOn
<1>5. ASSUME NEW k \in Links, TakeSlot(k)
      PROVE  Silence'
  <2>1. /\ UNCHANGED now
        /\ \/ UNCHANGED <<active, moved>>
           \/ active' = [active EXCEPT ![k] = now] /\ moved' = [moved EXCEPT ![k] = now]
    BY <1>5, SlotEffect
  <2>2. (link'[k].at = "serve" \/ link'[k].at = "full") /\ \A j \in Links \ {k} : link'[j] = link[j]
    BY <1>5, SlotEffect DEF GoesOn
  <2> QED BY <1>2, <2>1, <2>2 DEF Silence, ForwarderTypes
<1>6. ASSUME NEW k \in Links, IdleConnection(k) \/ PeerLeaves(k)
      PROVE  Silence'
  <2>1. UNCHANGED <<now, active, moved>> /\ (GoesOn(k, "gone") \/ (GoesOn(k, "idle") /\ now - active[k] >= Quiet))
    BY <1>6, LeaveEffect
  <2>2. link'[k].at = "idle" => link'[k].since - moved[k] >= Quiet
    BY <1>1, <1>2, <2>1 DEF GoesOn, Silence
  <2>3. \A j \in Links \ {k} : link'[j] = link[j]
    BY <2>1 DEF GoesOn
  <2> QED BY <2>1, <2>2, <2>3 DEF Silence
<1>7. ASSUME NEW k \in Links, AcceptStream(k) \/ OpenBoard(k) \/ MoveBytes(k) \/ EndStream(k)
      PROVE  Silence'
  <2>1. /\ UNCHANGED <<now, link>>
        /\ \/ UNCHANGED <<active, moved>>
           \/ stream[k].at # "none" /\ active' = [active EXCEPT ![k] = now] /\ moved' = [moved EXCEPT ![k] = now]
    BY <1>7, StreamEffect DEF StreamOnly
  <2>2. stream[k].at # "none" => link[k].at = "serve"
    BY DEF Earned
  <2> QED BY <1>2, <2>1, <2>2 DEF Silence, ForwarderTypes
<1>8. CASE Tick
  <2>1. UNCHANGED <<link, active, moved>> /\ now' = now + 1
    BY <1>8, TickEffect
  <2> QED BY <1>2, <2>1 DEF Silence
<1> QED BY <1>3, <1>4, <1>5, <1>6, <1>7, <1>8 DEF ForwarderNext

\* No connection is there yet, and every permit is free.
LEMMA ForwarderStarts == ForwarderInit => ForwarderInv
<1> SUFFICES ASSUME ForwarderInit
             PROVE  ForwarderInv
  OBVIOUS
<1>1. {MaxConnections, Handshakes, Quiet, Burst} \subseteq Nat
  BY ForwarderAssumption
<1>2. ForwarderTypes
  BY <1>1 DEF ForwarderInit, ForwarderTypes, NoLink, NoStream, LinkRecord, LinkAts, StreamRecord,
     Present
<1>3. AtStep({"serve"}) = {} /\ AtStep({"handshake"}) = {} /\ \A s \in Sources : OfSource(s) = {}
  BY DEF ForwarderInit, NoLink, AtStep, OfSource, Present
<1>4. Permits
  <2>1. IsFiniteSet({}) /\ Cardinality({}) = 0
    BY FS_EmptySet
  <2>2. slots = MaxConnections /\ shakes = Handshakes /\ (\A s \in Sources : counts[s] = 0) /\ slots \in Nat /\ shakes \in Nat
    BY <1>1 DEF ForwarderInit
  <2>3. IsFiniteSet(AtStep({"serve"})) /\ Cardinality(AtStep({"serve"})) = 0
    BY <1>3, <2>1
  <2>4. IsFiniteSet(AtStep({"handshake"})) /\ Cardinality(AtStep({"handshake"})) = 0
    BY <1>3, <2>1
  <2>5. \A s \in Sources : IsFiniteSet(OfSource(s)) /\ Cardinality(OfSource(s)) = 0
    BY <1>3, <2>1
  <2> QED BY <2>2, <2>3, <2>4, <2>5 DEF Permits
<1>5. Earned /\ Silence
  BY <1>1 DEF ForwarderInit, NoLink, NoStream, Earned, Silence
<1> QED BY <1>2, <1>4, <1>5 DEF ForwarderInv

\* Every step of the forwarder keeps its invariant.
LEMMA ForwarderStep == ForwarderInv /\ [ForwarderNext]_lVars => ForwarderInv'
<1> SUFFICES ASSUME ForwarderInv, [ForwarderNext]_lVars
             PROVE  ForwarderInv'
  OBVIOUS
<1>1. CASE ForwarderNext
  BY <1>1, ForwarderTypesStep, PermitsStep, EarnedStep, SilenceStep DEF ForwarderInv
<1>2. CASE UNCHANGED lVars
  BY <1>2 DEF lVars, ForwarderInv, ForwarderTypes, Permits, Earned, Silence, AtStep, OfSource
<1> QED BY <1>1, <1>2

LEMMA ForwarderImplies == ForwarderInv => ForwarderSafety
<1> SUFFICES ASSUME ForwarderInv
             PROVE  ForwarderSafety
  OBVIOUS
<1>1. \A s \in Sources : OfSource(s) = {k \in AtStep({"handshake", "shaken", "serve"}) : link[k].source = s}
  BY DEF OfSource, Present
<1>2. PermitsHeld
  BY <1>1 DEF ForwarderInv, Permits, PermitsHeld
<1>3. StreamsBounded
  <2> SUFFICES ASSUME NEW k \in AtStep({"serve"})
               PROVE  opened[k] <= Burst + (now - link[k].since)
    BY DEF StreamsBounded
  <2>1. link[k].at = "serve" /\ k \in Links
    BY DEF AtStep
  <2>2. opened[k] \in Nat /\ bucket[k] \in Nat /\ now \in Nat /\ link[k].since \in Nat /\ Burst \in Nat
    BY <2>1, ForwarderAssumption DEF ForwarderInv, ForwarderTypes, LinkRecord
  <2>3. opened[k] + bucket[k] <= Burst + (now - link[k].since)
    BY <2>1 DEF ForwarderInv, Earned
  <2> QED BY <2>2, <2>3
<1>4. IdleIsQuiet
  BY DEF ForwarderInv, Silence, IdleIsQuiet, AtStep
<1> QED BY <1>2, <1>3, <1>4 DEF ForwarderSafety

\* The forwarder of the iroh sidecar stays within its limits and gives back what
\* it took, whatever way a connection ends; no connection opens more streams than
\* it earned, and only silent ones are ended as idle.
THEOREM ForwarderSafe == ForwarderSpec => []ForwarderSafety
<1>1. ForwarderInit => ForwarderInv
  BY ForwarderStarts
<1>2. ForwarderInv /\ [ForwarderNext]_lVars => ForwarderInv'
  BY ForwarderStep
<1>3. ForwarderInv => ForwarderSafety
  BY ForwarderImplies
<1> QED BY <1>1, <1>2, <1>3, PTL DEF ForwarderSpec
-----------------------------------------------------------------------------
(* PeerConnections: the inductive invariant *)

ConnRecord == [at : {"none", "preface", "track", "open"}, id : BOOLEAN, closing : {"no", "marked", "done"},
               paired : Nat, counted : Nat]
AskRecord == [at : {"idle", "prove", "count", "check", "write"}, cookie : Nat, path : {"none", "page", "events"}, proved : Nat]
RevokeRecord == [at : {"idle", "collect", "close"}, gone : Nat, live : SUBSET Conns]

PeerTypes ==
  /\ phoneRow \in Nat /\ phoneRow \in {0, Len(logins)} /\ logins \in Seq(BOOLEAN) /\ sent \in 0 .. MaxRequests
  /\ conn \in [Conns -> ConnRecord] /\ asking \in [Conns -> AskRecord] /\ revoker \in RevokeRecord
  /\ tracked \subseteq Conns
  /\ unproved \in [Conns -> Nat] /\ lateWrites \in [Conns -> Nat]

\* Rows are those there were.
RowsKnown ==
  /\ revoker.gone <= Len(logins)
  /\ \A c \in Conns : conn[c].paired <= Len(logins) /\ asking[c].proved <= Len(logins)

\* What is tracked is what was opened by an endpoint and is not closing.
Tracking ==
  /\ \A c \in tracked : conn[c].at = "open" /\ conn[c].id /\ conn[c].closing # "done"
  /\ \A c \in Conns :
       /\ conn[c].at = "track" => conn[c].id
       /\ conn[c].at = "open" /\ conn[c].id /\ conn[c].closing = "no" => c \in tracked
       /\ asking[c].at # "idle" => conn[c].at = "open"

\* The rows a connection goes by: what it is paired by and what its request proved.
GoesBy(c) == {conn[c].paired, asking[c].proved} \ {0}

\* A row that names an endpoint was proved over a connection of that endpoint.
ByEndpoint == \A c \in Conns : \A k \in GoesBy(c) : conn[c].at = "open" /\ (logins[k] => conn[c].id)

\* An open connection goes by the row that is there, or by the one being revoked.
ByRow == \A c \in Conns : \A k \in GoesBy(c) : logins[k] /\ conn[c].closing = "no" => k = phoneRow \/ revoker.gone = k

\* connectRevoke: the row is gone; what it closes is all that still goes by it.
Revoking ==
  /\ revoker.at = "idle" => revoker.gone = 0
  /\ revoker.at # "idle" => phoneRow = 0 /\ revoker.gone # 0
  /\ revoker.at = "close" =>
       \A c \in Conns : revoker.gone \in GoesBy(c) /\ logins[revoker.gone] /\ conn[c].closing = "no" => c \in revoker.live

\* Answers that proved nothing are counted.
Counting == \A c \in Conns : unproved[c] <= conn[c].counted /\ unproved[c] <= PeerRequests

\* A stream that wrote late finds its row gone at its next check.
Lateness ==
  \A c \in Conns :
    /\ asking[c].at \in {"check", "write"} => asking[c].proved # 0
    /\ lateWrites[c] <= 1
    /\ asking[c].at = "write" => lateWrites[c] = 0
    /\ asking[c].at = "check" /\ lateWrites[c] > 0 => phoneRow # asking[c].proved

PeerInv == PeerTypes /\ RowsKnown /\ Tracking /\ ByEndpoint /\ ByRow /\ Revoking /\ Counting /\ Lateness
-----------------------------------------------------------------------------
(* PeerConnections: what the steps do *)

\* Only connection c changes, or only its request.
ConnOnly(c) == conn' \in [Conns -> ConnRecord] /\ \A d \in Conns \ {c} : conn'[d] = conn[d]
AskOnly(c) == asking' \in [Conns -> AskRecord] /\ \A d \in Conns \ {c} : asking'[d] = asking[d]

KeepsPairing(c) == conn'[c].paired = conn[c].paired /\ conn'[c].counted = conn[c].counted

LEMMA ConnFields ==
  ASSUME PeerTypes, NEW c \in Conns
  PROVE  conn[c] \in ConnRecord /\ asking[c] \in AskRecord
  BY DEF PeerTypes

LEMMA AtEffect ==
  ASSUME PeerTypes, NEW c \in Conns, NEW a \in {"none", "preface", "track", "open"}, At(c, a)
  PROVE  ConnOnly(c) /\ KeepsPairing(c) /\ conn'[c].at = a /\ conn'[c].id = conn[c].id /\ conn'[c].closing = conn[c].closing
<1> DEFINE e == [conn[c] EXCEPT !.at = a]
<1>1. /\ e \in ConnRecord /\ e.at = a /\ e.id = conn[c].id /\ e.closing = conn[c].closing
      /\ e.paired = conn[c].paired /\ e.counted = conn[c].counted
  BY ConnFields DEF ConnRecord
<1>2. conn' = [conn EXCEPT ![c] = e]
  BY DEF At, PeerTypes
<1> HIDE DEF e
<1> QED BY <1>1, <1>2 DEF ConnOnly, KeepsPairing, PeerTypes

LEMMA ClosingEffect ==
  ASSUME PeerTypes, NEW c \in Conns, NEW a \in {"marked", "done"}, conn' = [conn EXCEPT ![c].closing = a]
  PROVE  ConnOnly(c) /\ KeepsPairing(c) /\ conn'[c].at = conn[c].at /\ conn'[c].id = conn[c].id /\ conn'[c].closing = a
<1> DEFINE e == [conn[c] EXCEPT !.closing = a]
<1>1. /\ e \in ConnRecord /\ e.at = conn[c].at /\ e.id = conn[c].id /\ e.closing = a
      /\ e.paired = conn[c].paired /\ e.counted = conn[c].counted
  BY ConnFields DEF ConnRecord
<1>2. conn' = [conn EXCEPT ![c] = e]
  BY DEF PeerTypes
<1> HIDE DEF e
<1> QED BY <1>1, <1>2 DEF ConnOnly, KeepsPairing, PeerTypes

LEMMA PrefaceEffect ==
  ASSUME PeerTypes, NEW c \in Conns, ReadPreface(c)
  PROVE  /\ ConnOnly(c) /\ KeepsPairing(c) /\ conn'[c].at \in {"track", "open"}
         /\ conn'[c].id <=> conn'[c].at = "track"
         /\ conn'[c].closing = conn[c].closing
<1>1. PICK id \in BOOLEAN : conn' = [conn EXCEPT ![c].at = IF id THEN "track" ELSE "open", ![c].id = id]
  BY DEF ReadPreface
<1> DEFINE e == [conn[c] EXCEPT !.at = IF id THEN "track" ELSE "open", !.id = id]
<1>2. /\ e \in ConnRecord /\ e.at \in {"track", "open"} /\ (e.id <=> e.at = "track") /\ e.closing = conn[c].closing
      /\ e.paired = conn[c].paired /\ e.counted = conn[c].counted
  BY ConnFields DEF ConnRecord
<1>3. conn' = [conn EXCEPT ![c] = e]
  BY <1>1 DEF PeerTypes
<1> HIDE DEF e
<1> QED BY <1>2, <1>3 DEF ConnOnly, KeepsPairing, PeerTypes

LEMMA GoesEffect ==
  ASSUME PeerTypes, NEW c \in Conns, NEW a \in {"idle", "prove", "count", "check", "write"}, Goes(c, a)
  PROVE  AskOnly(c) /\ asking'[c].at = a /\ asking'[c].proved = asking[c].proved
<1> DEFINE e == [asking[c] EXCEPT !.at = a]
<1>1. e \in AskRecord /\ e.at = a /\ e.proved = asking[c].proved
  BY ConnFields DEF AskRecord
<1>2. asking' = [asking EXCEPT ![c] = e]
  BY DEF Goes, PeerTypes
<1> HIDE DEF e
<1> QED BY <1>1, <1>2 DEF AskOnly, PeerTypes

LEMMA EndsEffect ==
  ASSUME PeerTypes, NEW c \in Conns, Ends(c)
  PROVE  AskOnly(c) /\ asking'[c].at = "idle" /\ asking'[c].proved = 0
<1>1. NoRequest \in AskRecord /\ NoRequest.at = "idle" /\ NoRequest.proved = 0
  BY DEF NoRequest, AskRecord
<1> QED BY <1>1 DEF Ends, AskOnly, PeerTypes

LEMMA RequestEffect ==
  ASSUME PeerTypes, NEW c \in Conns, Request(c)
  PROVE  /\ AskOnly(c) /\ asking'[c].at = "prove" /\ asking'[c].proved = 0 /\ sent' \in 0 .. MaxRequests
         /\ conn[c].at = "open"
<1>1. PICK cookie \in {0, Len(logins)}, path \in {"page", "events"} :
        asking' = [asking EXCEPT ![c] = [NoRequest EXCEPT !.at = "prove", !.cookie = cookie, !.path = path]]
  BY DEF Request
<1> DEFINE e == [NoRequest EXCEPT !.at = "prove", !.cookie = cookie, !.path = path]
<1>2. cookie \in Nat
  BY DEF PeerTypes
<1>3. e \in AskRecord /\ e.at = "prove" /\ e.proved = 0
  BY <1>2 DEF NoRequest, AskRecord
<1>4. asking' = [asking EXCEPT ![c] = e]
  BY <1>1
<1>5. conn[c].at = "open" /\ sent' = sent + 1 /\ sent < MaxRequests /\ MaxRequests \in Nat
  BY PeerAssumption DEF Request
<1> HIDE DEF e
<1> QED BY <1>3, <1>4, <1>5 DEF AskOnly, PeerTypes

LEMMA ProveEffect ==
  ASSUME PeerTypes, NEW c \in Conns, Prove(c)
  PROVE  /\ AskOnly(c) /\ asking'[c].at = "count" /\ asking[c].at = "prove"
         /\ asking'[c].proved = 0 \/ (asking'[c].proved = phoneRow /\ (logins[phoneRow] => conn[c].id))
<1> DEFINE p == IF asking[c].cookie # 0 /\ asking[c].cookie = phoneRow /\ (logins[phoneRow] => conn[c].id) THEN phoneRow ELSE 0
           e == [asking[c] EXCEPT !.at = "count", !.proved = p]
<1>1. p \in Nat /\ (p = 0 \/ (p = phoneRow /\ (logins[phoneRow] => conn[c].id)))
  BY DEF PeerTypes
<1>2. asking' = [asking EXCEPT ![c].at = "count", ![c].proved = p] /\ asking[c].at = "prove"
  BY DEF Prove
<1> HIDE DEF p
<1>3. e \in AskRecord /\ e.at = "count" /\ e.proved = p
  BY <1>1, ConnFields DEF AskRecord
<1>4. asking' = [asking EXCEPT ![c] = e]
  BY <1>2 DEF PeerTypes
<1> HIDE DEF e
<1> QED BY <1>1, <1>2, <1>3, <1>4 DEF AskOnly, PeerTypes

\* The answer counts the request unless the connection is paired, and may end it.
LEMMA AnswerEffect ==
  ASSUME PeerTypes, Counting, NEW c \in Conns, Answer(c)
  PROVE  /\ ConnOnly(c) /\ conn'[c].at = conn[c].at /\ conn'[c].id = conn[c].id
         /\ conn'[c].closing = conn[c].closing \/ (conn[c].closing = "no" /\ conn'[c].closing = "marked")
         /\ conn'[c].paired \in {0, conn[c].paired, asking[c].proved}
         /\ AskOnly(c) /\ asking[c].at = "count"
         /\ \/ asking'[c].at = "idle" /\ asking'[c].proved = 0 /\ UNCHANGED lateWrites
            \/ /\ asking'[c].at = "check" /\ asking'[c].proved = asking[c].proved /\ asking[c].proved # 0
               /\ lateWrites' = [lateWrites EXCEPT ![c] = 0]
         /\ unproved' \in [Conns -> Nat] /\ \A d \in Conns \ {c} : unproved'[d] = unproved[d]
         /\ unproved'[c] <= conn'[c].counted /\ unproved'[c] <= PeerRequests
<1> DEFINE n == IF Paired(c) = 0 THEN conn[c].counted + 1 ELSE conn[c].counted
           over == Paired(c) = 0 /\ n > PeerRequests
           cl == IF over /\ conn[c].closing = "no" THEN "marked" ELSE conn[c].closing
           e == [conn[c] EXCEPT !.paired = Paired(c), !.counted = n, !.closing = cl]
<1>1. conn[c] \in ConnRecord /\ asking[c] \in AskRecord /\ PeerRequests \in Nat
  BY ConnFields, PeerAssumption
<1>2. /\ Paired(c) \in {0, conn[c].paired, asking[c].proved} /\ Paired(c) \in Nat
      /\ asking[c].cookie # 0 /\ asking[c].proved = 0 => Paired(c) = 0
  BY <1>1 DEF Paired, ConnRecord, AskRecord
<1>3. n \in Nat /\ (Paired(c) = 0 => n = conn[c].counted + 1) /\ n >= conn[c].counted
  BY <1>1 DEF ConnRecord
<1>4. cl \in {"no", "marked", "done"} /\ (cl = conn[c].closing \/ (conn[c].closing = "no" /\ cl = "marked"))
  BY <1>1 DEF ConnRecord
<1>5. e \in ConnRecord /\ e.at = conn[c].at /\ e.id = conn[c].id /\ e.closing = cl /\ e.paired = Paired(c) /\ e.counted = n
  BY <1>1, <1>2, <1>3, <1>4 DEF ConnRecord
<1>6. conn' = [conn EXCEPT ![c] = e]
  BY DEF Answer, PeerTypes
<1>7. ConnOnly(c) /\ conn'[c] = e
  BY <1>5, <1>6 DEF ConnOnly, PeerTypes
<1>8. /\ asking[c].at = "count"
      /\ \/ Ends(c) /\ UNCHANGED lateWrites
         \/ Goes(c, "check") /\ asking[c].proved # 0 /\ lateWrites' = [lateWrites EXCEPT ![c] = 0]
  BY DEF Answer
<1>9. /\ AskOnly(c)
      /\ \/ asking'[c].at = "idle" /\ asking'[c].proved = 0 /\ UNCHANGED lateWrites
         \/ /\ asking'[c].at = "check" /\ asking'[c].proved = asking[c].proved /\ asking[c].proved # 0
            /\ lateWrites' = [lateWrites EXCEPT ![c] = 0]
  BY <1>8, EndsEffect, GoesEffect
<1>10. /\ unproved' \in [Conns -> Nat] /\ \A d \in Conns \ {c} : unproved'[d] = unproved[d]
       /\ unproved'[c] <= n /\ unproved'[c] <= PeerRequests
  <2>1. unproved[c] \in Nat /\ unproved \in [Conns -> Nat] /\ conn[c].counted \in Nat
    BY <1>1 DEF PeerTypes, ConnRecord
  <2>2. unproved[c] <= conn[c].counted /\ unproved[c] <= PeerRequests
    BY DEF Counting
  <2>3. unproved' = IF asking[c].cookie # 0 /\ asking[c].proved = 0 /\ ~over THEN [unproved EXCEPT ![c] = @ + 1] ELSE unproved
    BY DEF Answer
  <2>4. asking[c].cookie # 0 /\ asking[c].proved = 0 /\ ~over => n <= PeerRequests /\ n = conn[c].counted + 1
    BY <1>1, <1>2, <1>3
  <2> HIDE DEF n, over
  <2> QED BY <1>1, <1>3, <2>1, <2>2, <2>3, <2>4
<1> HIDE DEF e, cl, n, over
<1> QED BY <1>2, <1>4, <1>5, <1>7, <1>8, <1>9, <1>10

\* revoker goes on.
LEMMA RevokeEffect ==
  ASSUME PeerTypes
  PROVE  /\ RevokeDevice => /\ revoker' \in RevokeRecord /\ revoker'.at = "collect" /\ revoker'.gone = phoneRow
                            /\ phoneRow # 0 /\ phoneRow' = 0 /\ revoker.at = "idle"
         /\ Collect => /\ revoker' \in RevokeRecord /\ revoker'.at = "close" /\ revoker'.gone = revoker.gone
                       /\ revoker'.live = IF logins[revoker.gone] THEN {c \in tracked : conn[c].id} ELSE {}
                       /\ revoker.at = "collect"
         /\ \A c \in Conns : CloseEndpoint(c) => /\ revoker' \in RevokeRecord /\ revoker'.at = "close" /\ revoker.at = "close"
                                                 /\ revoker'.gone = revoker.gone /\ revoker'.live = revoker.live \ {c}
         /\ EndpointClosed => /\ revoker' \in RevokeRecord /\ revoker'.at = "idle" /\ revoker'.gone = 0
                              /\ revoker.at = "close" /\ revoker.live = {}
<1>1. revoker \in RevokeRecord /\ phoneRow \in Nat /\ tracked \subseteq Conns
  BY DEF PeerTypes
<1>2. ASSUME RevokeDevice
      PROVE  /\ revoker' \in RevokeRecord /\ revoker'.at = "collect" /\ revoker'.gone = phoneRow
             /\ phoneRow # 0 /\ phoneRow' = 0 /\ revoker.at = "idle"
  BY <1>1, <1>2 DEF RevokeDevice, AtRest, RevokeRecord
<1>3. ASSUME Collect
      PROVE  /\ revoker' \in RevokeRecord /\ revoker'.at = "close" /\ revoker'.gone = revoker.gone
             /\ revoker'.live = IF logins[revoker.gone] THEN {c \in tracked : conn[c].id} ELSE {}
             /\ revoker.at = "collect"
  <2> DEFINE l == IF logins[revoker.gone] THEN {c \in tracked : conn[c].id} ELSE {}
  <2>1. l \in SUBSET Conns
    BY <1>1
  <2>2. revoker' = [revoker EXCEPT !.at = "close", !.live = l] /\ revoker.at = "collect"
    BY <1>3 DEF Collect
  <2> HIDE DEF l
  <2>3. /\ revoker' \in RevokeRecord /\ revoker'.at = "close" /\ revoker'.gone = revoker.gone /\ revoker'.live = l
        /\ revoker.at = "collect"
    BY <1>1, <2>1, <2>2 DEF RevokeRecord
  <2> QED BY <2>3 DEF l
<1>4. ASSUME NEW c \in Conns, CloseEndpoint(c)
      PROVE  /\ revoker' \in RevokeRecord /\ revoker'.at = "close" /\ revoker.at = "close"
             /\ revoker'.gone = revoker.gone /\ revoker'.live = revoker.live \ {c}
  BY <1>1, <1>4 DEF CloseEndpoint, RevokeRecord
<1>5. ASSUME EndpointClosed
      PROVE  /\ revoker' \in RevokeRecord /\ revoker'.at = "idle" /\ revoker'.gone = 0
             /\ revoker.at = "close" /\ revoker.live = {}
  BY <1>1, <1>5 DEF EndpointClosed, AtRest, RevokeRecord
<1> QED BY <1>2, <1>3, <1>4, <1>5

LEMMA PairEffect ==
  ASSUME PeerTypes, Pair
  PROVE  /\ phoneRow = 0 /\ revoker.at = "idle" /\ logins' \in Seq(BOOLEAN) /\ Len(logins') = Len(logins) + 1
         /\ phoneRow' = Len(logins') /\ phoneRow' \in Nat
         /\ \A k \in 1 .. Len(logins) : logins'[k] = logins[k]
<1>1. PICK b \in BOOLEAN : logins' = Append(logins, b)
  BY DEF Pair
<1>2. logins \in Seq(BOOLEAN) /\ Len(logins) \in Nat
  BY DEF PeerTypes
<1> QED BY <1>1, <1>2 DEF Pair
-----------------------------------------------------------------------------
(* PeerConnections: every step keeps every part of the invariant *)

LEMMA PeerTypesStep ==
  ASSUME PeerInv, [PeerNext]_cVars
  PROVE  PeerTypes'
<1>0. PeerTypes /\ RowsKnown /\ Tracking /\ ByEndpoint /\ ByRow /\ Revoking /\ Counting /\ Lateness
  BY DEF PeerInv
<1>1. ASSUME NEW c \in Conns, Accept(c)
      PROVE  PeerTypes'
  BY <1>0, <1>1, AtEffect DEF Accept, ConnOnly, AskOnly, KeepsPairing, PeerTypes
<1>2. ASSUME NEW c \in Conns, ReadPreface(c)
      PROVE  PeerTypes'
  BY <1>0, <1>2, PrefaceEffect DEF ReadPreface, ConnOnly, AskOnly, KeepsPairing, PeerTypes
<1>3. ASSUME NEW c \in Conns, Track(c)
      PROVE  PeerTypes'
  BY <1>0, <1>3, AtEffect DEF Track, ConnOnly, AskOnly, KeepsPairing, PeerTypes
<1>4. ASSUME NEW c \in Conns, MarkClosed(c)
      PROVE  PeerTypes'
  BY <1>0, <1>4, ClosingEffect DEF MarkClosed, ConnOnly, AskOnly, KeepsPairing, PeerTypes
<1>5. ASSUME NEW c \in Conns, Untrack(c)
      PROVE  PeerTypes'
  BY <1>0, <1>5, ClosingEffect DEF Untrack, ConnOnly, AskOnly, KeepsPairing, PeerTypes
<1>6. ASSUME NEW c \in Conns, Request(c)
      PROVE  PeerTypes'
  BY <1>0, <1>6, RequestEffect DEF Request, ConnOnly, AskOnly, KeepsPairing, PeerTypes
<1>7. ASSUME NEW c \in Conns, Prove(c)
      PROVE  PeerTypes'
  BY <1>0, <1>7, ProveEffect DEF Prove, ConnOnly, AskOnly, KeepsPairing, PeerTypes
<1>8. ASSUME NEW c \in Conns, Answer(c)
      PROVE  PeerTypes'
  <2>1. UNCHANGED <<phoneRow, logins, tracked, sent, revoker>>
    BY <1>8 DEF Answer
  <2>2. ConnOnly(c) /\ AskOnly(c) /\ unproved' \in [Conns -> Nat] /\ (UNCHANGED lateWrites \/ lateWrites' = [lateWrites EXCEPT ![c] = 0])
    BY <1>0, <1>8, AnswerEffect
  <2> QED BY SMTT(40), <1>0, <2>1, <2>2 DEF ConnOnly, AskOnly, PeerTypes
<1>9. ASSUME NEW c \in Conns, StillSignedIn(c)
      PROVE  PeerTypes'
  BY <1>0, <1>9, GoesEffect, EndsEffect DEF StillSignedIn, ConnOnly, AskOnly, KeepsPairing,
     PeerTypes
<1>10. ASSUME NEW c \in Conns, WriteEvents(c)
      PROVE  PeerTypes'
  BY <1>0, <1>10, GoesEffect DEF WriteEvents, ConnOnly, AskOnly, KeepsPairing, PeerTypes
<1>11. ASSUME NEW c \in Conns, Abandon(c)
      PROVE  PeerTypes'
  BY <1>0, <1>11, EndsEffect DEF Abandon, ConnOnly, AskOnly, KeepsPairing, PeerTypes
<1>12. ASSUME NEW c \in Conns, CloseEndpoint(c)
      PROVE  PeerTypes'
  BY <1>0, <1>12, ClosingEffect, RevokeEffect DEF CloseEndpoint, ConnOnly, AskOnly, KeepsPairing,
     PeerTypes
<1>13. ASSUME Pair
      PROVE  PeerTypes'
  BY <1>0, <1>13, PairEffect DEF Pair, ConnOnly, AskOnly, KeepsPairing, PeerTypes
<1>14. ASSUME RevokeDevice
      PROVE  PeerTypes'
  BY <1>0, <1>14, RevokeEffect DEF RevokeDevice, ConnOnly, AskOnly, KeepsPairing, PeerTypes
<1>15. ASSUME Collect
      PROVE  PeerTypes'
  BY <1>0, <1>15, RevokeEffect DEF Collect, ConnOnly, AskOnly, KeepsPairing, PeerTypes
<1>16. ASSUME EndpointClosed
      PROVE  PeerTypes'
  BY <1>0, <1>16, RevokeEffect DEF EndpointClosed, ConnOnly, AskOnly, KeepsPairing, PeerTypes
<1>17. CASE UNCHANGED cVars
  BY <1>0, <1>17 DEF cVars, PeerTypes
<1> QED BY <1>1, <1>2, <1>3, <1>4, <1>5, <1>6, <1>7, <1>8, <1>9, <1>10, <1>11, <1>12, <1>13, <1>14,
   <1>15, <1>16, <1>17 DEF PeerNext

LEMMA RowsKnownStep ==
  ASSUME PeerInv, [PeerNext]_cVars
  PROVE  RowsKnown'
<1>0. PeerTypes /\ RowsKnown /\ Tracking /\ ByEndpoint /\ ByRow /\ Revoking /\ Counting /\ Lateness
  BY DEF PeerInv
<1>00. /\ phoneRow \in Nat /\ phoneRow <= Len(logins) /\ Len(logins) \in Nat /\ revoker.gone \in Nat
      /\ \A c \in Conns : conn[c].paired \in Nat /\ asking[c].proved \in Nat
  BY <1>0 DEF PeerTypes, ConnRecord, AskRecord, RevokeRecord
<1>01. ASSUME UNCHANGED <<logins, revoker>>, NEW c \in Conns, UNCHANGED conn, AskOnly(c),
              asking'[c].proved \in {0, phoneRow, asking[c].proved}
       PROVE  RowsKnown'
  BY <1>0, <1>00, <1>01 DEF AskOnly, RowsKnown
<1>1. ASSUME NEW c \in Conns, Accept(c)
      PROVE  RowsKnown'
  BY <1>0, <1>1, AtEffect DEF Accept, ConnOnly, AskOnly, KeepsPairing, RowsKnown
<1>2. ASSUME NEW c \in Conns, ReadPreface(c)
      PROVE  RowsKnown'
  BY <1>0, <1>2, PrefaceEffect DEF ReadPreface, ConnOnly, AskOnly, KeepsPairing, RowsKnown
<1>3. ASSUME NEW c \in Conns, Track(c)
      PROVE  RowsKnown'
  BY <1>0, <1>3, AtEffect DEF Track, ConnOnly, AskOnly, KeepsPairing, RowsKnown
<1>4. ASSUME NEW c \in Conns, MarkClosed(c)
      PROVE  RowsKnown'
  BY <1>0, <1>4, ClosingEffect DEF MarkClosed, ConnOnly, AskOnly, KeepsPairing, RowsKnown
<1>5. ASSUME NEW c \in Conns, Untrack(c)
      PROVE  RowsKnown'
  BY <1>0, <1>5, ClosingEffect DEF Untrack, ConnOnly, AskOnly, KeepsPairing, RowsKnown
<1>6. ASSUME NEW c \in Conns, Request(c)
      PROVE  RowsKnown'
  BY <1>0, <1>01, <1>6, RequestEffect DEF Request
<1>7. ASSUME NEW c \in Conns, Prove(c)
      PROVE  RowsKnown'
  BY <1>0, <1>01, <1>7, ProveEffect DEF Prove
<1>8. ASSUME NEW c \in Conns, Answer(c)
      PROVE  RowsKnown'
  <2>1. UNCHANGED <<logins, revoker>>
    BY <1>8 DEF Answer
  <2>2. /\ ConnOnly(c) /\ AskOnly(c) /\ conn'[c].paired \in {0, conn[c].paired, asking[c].proved}
        /\ asking'[c].proved \in {0, asking[c].proved}
    BY <1>0, <1>8, AnswerEffect
  <2> QED BY <1>0, <1>00, <2>1, <2>2 DEF ConnOnly, AskOnly, RowsKnown
<1>9. ASSUME NEW c \in Conns, StillSignedIn(c)
      PROVE  RowsKnown'
  BY <1>0, <1>9, GoesEffect, EndsEffect DEF StillSignedIn, ConnOnly, AskOnly, KeepsPairing,
     RowsKnown
<1>10. ASSUME NEW c \in Conns, WriteEvents(c)
      PROVE  RowsKnown'
  BY <1>0, <1>10, GoesEffect DEF WriteEvents, ConnOnly, AskOnly, KeepsPairing, RowsKnown
<1>11. ASSUME NEW c \in Conns, Abandon(c)
      PROVE  RowsKnown'
  BY <1>0, <1>11, EndsEffect DEF Abandon, ConnOnly, AskOnly, KeepsPairing, RowsKnown
<1>12. ASSUME NEW c \in Conns, CloseEndpoint(c)
      PROVE  RowsKnown'
  BY <1>0, <1>12, ClosingEffect, RevokeEffect DEF CloseEndpoint, ConnOnly, AskOnly, KeepsPairing,
     RowsKnown
<1>13. ASSUME Pair
      PROVE  RowsKnown'
  <2>1. UNCHANGED <<conn, asking, revoker>> /\ Len(logins') = Len(logins) + 1
    BY <1>0, <1>13, PairEffect DEF Pair
  <2> QED BY <1>0, <1>00, <2>1 DEF RowsKnown
<1>14. ASSUME RevokeDevice
      PROVE  RowsKnown'
  <2>1. UNCHANGED <<conn, asking, logins>> /\ revoker'.gone = phoneRow
    BY <1>0, <1>14, RevokeEffect DEF RevokeDevice
  <2> QED BY <1>0, <1>00, <2>1 DEF RowsKnown
<1>15. ASSUME Collect
      PROVE  RowsKnown'
  BY <1>0, <1>15, RevokeEffect DEF Collect, ConnOnly, AskOnly, KeepsPairing, RowsKnown
<1>16. ASSUME EndpointClosed
      PROVE  RowsKnown'
  BY <1>0, <1>16, RevokeEffect DEF EndpointClosed, ConnOnly, AskOnly, KeepsPairing, RowsKnown
<1>17. CASE UNCHANGED cVars
  BY <1>0, <1>17 DEF cVars, RowsKnown
<1> QED BY <1>1, <1>2, <1>3, <1>4, <1>5, <1>6, <1>7, <1>8, <1>9, <1>10, <1>11, <1>12, <1>13, <1>14,
   <1>15, <1>16, <1>17 DEF PeerNext

LEMMA TrackingStep ==
  ASSUME PeerInv, [PeerNext]_cVars
  PROVE  Tracking'
<1>0. PeerTypes /\ RowsKnown /\ Tracking /\ ByEndpoint /\ ByRow /\ Revoking /\ Counting /\ Lateness
  BY DEF PeerInv
<1>00. /\ tracked \subseteq Conns
       /\ \A c \in tracked : conn[c].at = "open" /\ conn[c].id /\ conn[c].closing # "done"
       /\ \A c \in Conns :
            /\ conn[c].at = "track" => conn[c].id
            /\ conn[c].at = "open" /\ conn[c].id /\ conn[c].closing = "no" => c \in tracked
            /\ asking[c].at # "idle" => conn[c].at = "open"
  BY <1>0 DEF PeerTypes, Tracking
<1>1. ASSUME NEW c \in Conns, Accept(c)
      PROVE  Tracking'
  <2>1. ConnOnly(c) /\ conn'[c].at = "preface" /\ conn[c].at = "none" /\ UNCHANGED <<tracked, asking>>
    BY <1>0, <1>1, AtEffect DEF Accept
  <2> QED BY <1>00, <2>1 DEF ConnOnly, Tracking
<1>2. ASSUME NEW c \in Conns, ReadPreface(c)
      PROVE  Tracking'
  <2>1. /\ ConnOnly(c) /\ conn'[c].at \in {"track", "open"} /\ (conn'[c].id <=> conn'[c].at = "track")
        /\ conn[c].at = "preface" /\ UNCHANGED <<tracked, asking>>
    BY <1>0, <1>2, PrefaceEffect DEF ReadPreface
  <2>2. c \notin tracked /\ asking[c].at = "idle"
    BY <1>00, <2>1
  <2> QED BY <1>00, <2>1, <2>2 DEF ConnOnly, Tracking
<1>3. ASSUME NEW c \in Conns, Track(c)
      PROVE  Tracking'
  <2>1. /\ ConnOnly(c) /\ conn'[c].at = "open" /\ conn'[c].id = conn[c].id /\ conn'[c].closing = conn[c].closing
        /\ conn[c].at = "track" /\ UNCHANGED asking
        /\ tracked' = IF conn[c].closing = "no" THEN tracked \cup {c} ELSE tracked
    BY <1>0, <1>3, AtEffect DEF Track
  <2>2. conn[c].id /\ c \notin tracked
    BY <1>00, <2>1
  <2>3. \A d \in Conns : d # c => conn'[d] = conn[d]
    BY <2>1 DEF ConnOnly
  <2>4. \A d \in tracked' : conn'[d].at = "open" /\ conn'[d].id /\ conn'[d].closing # "done"
    <3> SUFFICES ASSUME NEW d \in tracked' PROVE conn'[d].at = "open" /\ conn'[d].id /\ conn'[d].closing # "done"
      OBVIOUS
    <3>1. CASE d = c
      <4>1. conn[c].closing = "no"
        BY <2>1, <2>2, <3>1
      <4> QED BY <2>1, <2>2, <3>1, <4>1
    <3>2. CASE d # c
      <4>1. d \in tracked /\ d \in Conns
        BY <1>00, <2>1, <3>2
      <4> QED BY <1>00, <2>3, <3>2, <4>1
    <3> QED BY <3>1, <3>2
  <2>5. ASSUME NEW d \in Conns
        PROVE  /\ conn'[d].at = "track" => conn'[d].id
               /\ conn'[d].at = "open" /\ conn'[d].id /\ conn'[d].closing = "no" => d \in tracked'
               /\ asking'[d].at # "idle" => conn'[d].at = "open"
    <3>1. CASE d = c
      BY <2>1, <3>1
    <3>2. CASE d # c
      <4>1. conn'[d] = conn[d] /\ asking' = asking /\ (d \in tracked => d \in tracked')
        BY <2>1, <2>3, <3>2
      <4> QED BY <1>00, <4>1
    <3> QED BY <3>1, <3>2
  <2> QED BY <2>4, <2>5 DEF Tracking
<1>4. ASSUME NEW c \in Conns, MarkClosed(c)
      PROVE  Tracking'
  BY <1>0, <1>4, ClosingEffect DEF MarkClosed, ConnOnly, AskOnly, KeepsPairing, Tracking
<1>5. ASSUME NEW c \in Conns, Untrack(c)
      PROVE  Tracking'
  BY <1>0, <1>5, ClosingEffect DEF Untrack, ConnOnly, AskOnly, KeepsPairing, Tracking
<1>6. ASSUME NEW c \in Conns, Request(c)
      PROVE  Tracking'
  BY <1>0, <1>6, RequestEffect DEF Request, ConnOnly, AskOnly, KeepsPairing, Tracking
<1>7. ASSUME NEW c \in Conns, Prove(c)
      PROVE  Tracking'
  BY <1>0, <1>7, ProveEffect DEF Prove, ConnOnly, AskOnly, KeepsPairing, Tracking
<1>8. ASSUME NEW c \in Conns, Answer(c)
      PROVE  Tracking'
  <2>1. /\ ConnOnly(c) /\ conn'[c].at = conn[c].at /\ conn'[c].id = conn[c].id
        /\ conn'[c].closing = conn[c].closing \/ (conn[c].closing = "no" /\ conn'[c].closing = "marked")
        /\ AskOnly(c) /\ asking[c].at = "count"
    BY <1>0, <1>8, AnswerEffect
  <2>2. UNCHANGED tracked
    BY <1>8 DEF Answer
  <2> QED BY <1>00, <2>1, <2>2 DEF ConnOnly, AskOnly, Tracking
<1>9. ASSUME NEW c \in Conns, StillSignedIn(c)
      PROVE  Tracking'
  BY <1>0, <1>9, GoesEffect, EndsEffect DEF StillSignedIn, ConnOnly, AskOnly, KeepsPairing, Tracking
<1>10. ASSUME NEW c \in Conns, WriteEvents(c)
      PROVE  Tracking'
  BY <1>0, <1>10, GoesEffect DEF WriteEvents, ConnOnly, AskOnly, KeepsPairing, Tracking
<1>11. ASSUME NEW c \in Conns, Abandon(c)
      PROVE  Tracking'
  BY <1>0, <1>11, EndsEffect DEF Abandon, ConnOnly, AskOnly, KeepsPairing, Tracking
<1>12. ASSUME NEW c \in Conns, CloseEndpoint(c)
      PROVE  Tracking'
  <2>1. /\ ConnOnly(c) /\ conn'[c].at = conn[c].at /\ conn'[c].id = conn[c].id /\ conn'[c].closing = "done"
        /\ UNCHANGED asking /\ tracked' = tracked \ {c}
    BY <1>0, <1>12, ClosingEffect DEF CloseEndpoint
  <2> QED BY <1>00, <2>1 DEF ConnOnly, Tracking
<1>13. ASSUME Pair
      PROVE  Tracking'
  BY <1>0, <1>13, PairEffect DEF Pair, ConnOnly, AskOnly, KeepsPairing, Tracking
<1>14. ASSUME RevokeDevice
      PROVE  Tracking'
  BY <1>0, <1>14, RevokeEffect DEF RevokeDevice, ConnOnly, AskOnly, KeepsPairing, Tracking
<1>15. ASSUME Collect
      PROVE  Tracking'
  BY <1>0, <1>15, RevokeEffect DEF Collect, ConnOnly, AskOnly, KeepsPairing, Tracking
<1>16. ASSUME EndpointClosed
      PROVE  Tracking'
  BY <1>0, <1>16, RevokeEffect DEF EndpointClosed, ConnOnly, AskOnly, KeepsPairing, Tracking
<1>17. CASE UNCHANGED cVars
  BY <1>0, <1>17 DEF cVars, Tracking
<1> QED BY <1>1, <1>2, <1>3, <1>4, <1>5, <1>6, <1>7, <1>8, <1>9, <1>10, <1>11, <1>12, <1>13, <1>14,
   <1>15, <1>16, <1>17 DEF PeerNext

\* What any step does to a connection: an open one stays open, with its endpoint, and
\* one that closes stays so; the rows there were stay what they were.
LEMMA ConnMoves ==
  ASSUME PeerInv, [PeerNext]_cVars, NEW c \in Conns
  PROVE  /\ conn[c].at = "open" => conn'[c].at = "open" /\ conn'[c].id = conn[c].id
         /\ conn'[c].closing = "no" => conn[c].closing = "no"
         /\ \A k \in 1 .. Len(logins) : logins'[k] = logins[k]
<1>0. PeerTypes /\ Counting
  BY DEF PeerInv
<1>1. CASE UNCHANGED conn
  BY <1>0, <1>1, PairEffect DEF PeerNext, Accept, ReadPreface, Track, MarkClosed, Untrack, Request,
     Prove, Answer, StillSignedIn,
     WriteEvents, Abandon, CloseEndpoint, RevokeDevice, Collect, EndpointClosed, cVars
<1>2. ASSUME NEW d \in Conns, Accept(d) \/ Track(d)
      PROVE  (conn[c].at = "open" => conn'[c] = conn[c]) /\ (conn'[c].closing = conn[c].closing) /\ UNCHANGED logins
  BY <1>0, <1>2, AtEffect DEF Accept, Track, ConnOnly
<1>3. ASSUME NEW d \in Conns, ReadPreface(d)
      PROVE  (conn[c].at = "open" => conn'[c] = conn[c]) /\ (conn'[c].closing = conn[c].closing) /\ UNCHANGED logins
  BY <1>0, <1>3, PrefaceEffect DEF ReadPreface, ConnOnly
<1>4. ASSUME NEW d \in Conns, MarkClosed(d) \/ Untrack(d) \/ CloseEndpoint(d)
      PROVE  /\ conn'[c].at = conn[c].at /\ conn'[c].id = conn[c].id /\ (conn'[c].closing = "no" => conn[c].closing = "no")
             /\ UNCHANGED logins
  <2>1. UNCHANGED logins
    BY <1>4 DEF MarkClosed, Untrack, CloseEndpoint
  <2>2. \E a \in {"marked", "done"} : conn' = [conn EXCEPT ![d].closing = a]
    BY <1>4 DEF MarkClosed, Untrack, CloseEndpoint
  <2> QED BY <1>0, <2>1, <2>2, ClosingEffect DEF ConnOnly
<1>5. ASSUME NEW d \in Conns, Answer(d)
      PROVE  /\ conn'[c].at = conn[c].at /\ conn'[c].id = conn[c].id /\ (conn'[c].closing = "no" => conn[c].closing = "no")
             /\ UNCHANGED logins
  <2>1. UNCHANGED logins
    BY <1>5 DEF Answer
  <2> QED BY <1>0, <1>5, <2>1, AnswerEffect DEF ConnOnly
<1>6. \/ UNCHANGED conn
      \/ \E d \in Conns : \/ Accept(d) \/ Track(d) \/ ReadPreface(d) \/ MarkClosed(d) \/ Untrack(d) \/ CloseEndpoint(d) \/ Answer(d)
  BY DEF PeerNext, Request, Prove, StillSignedIn, WriteEvents, Abandon, Pair, RevokeDevice,
     Collect, EndpointClosed, cVars
<1> QED BY <1>1, <1>2, <1>3, <1>4, <1>5, <1>6

\* A connection comes to go by another row only when its cookie proves the row that is there.
LEMMA RowMoves ==
  ASSUME PeerInv, [PeerNext]_cVars, NEW c \in Conns, NEW k \in GoesBy(c)'
  PROVE  /\ k \in 1 .. Len(logins) /\ logins'[k] = logins[k]
         /\ \/ k \in GoesBy(c)
            \/ /\ Prove(c) /\ k = phoneRow /\ (logins[k] => conn[c].id) /\ conn[c].at = "open"
<1>0. PeerTypes /\ RowsKnown /\ Tracking /\ Counting
  BY DEF PeerInv
<1>1. GoesBy(c) \subseteq 1 .. Len(logins) /\ (phoneRow # 0 => phoneRow \in 1 .. Len(logins))
  BY <1>0 DEF PeerTypes, RowsKnown, GoesBy, ConnRecord, AskRecord
<1>2. CASE Prove(c)
  <2>1. /\ conn'[c] = conn[c] /\ asking[c].at = "prove"
        /\ asking'[c].proved = 0 \/ (asking'[c].proved = phoneRow /\ (logins[phoneRow] => conn[c].id))
    BY <1>0, <1>2, ProveEffect DEF Prove
  <2>2. conn[c].at = "open"
    BY <1>0, <2>1 DEF Tracking
  <2>3. k \in GoesBy(c) \/ (k = phoneRow /\ (logins[k] => conn[c].id))
    BY <2>1 DEF GoesBy
  <2> QED BY <1>1, <1>2, <2>2, <2>3, ConnMoves DEF GoesBy
<1>3. CASE Answer(c)
  <2>1. conn'[c].paired \in {0, conn[c].paired, asking[c].proved} /\ asking'[c].proved \in {0, asking[c].proved}
    BY <1>0, <1>3, AnswerEffect
  <2>2. k \in GoesBy(c)
    BY <2>1 DEF GoesBy
  <2> QED BY <1>1, <2>2, ConnMoves
<1>4. CASE Request(c)
  <2>1. UNCHANGED conn /\ asking'[c].proved = 0
    BY <1>0, <1>4, RequestEffect DEF Request
  <2> QED BY <1>1, <2>1, ConnMoves DEF GoesBy
<1>5. CASE StillSignedIn(c) \/ WriteEvents(c) \/ Abandon(c)
  <2>1. UNCHANGED conn /\ asking'[c].proved \in {0, asking[c].proved}
    BY <1>0, <1>5, GoesEffect, EndsEffect DEF StillSignedIn, WriteEvents, Abandon
  <2> QED BY <1>1, <2>1, ConnMoves DEF GoesBy
<1>6. ASSUME NEW d \in Conns, d = c, Accept(d) \/ Track(d) \/ ReadPreface(d) \/ MarkClosed(d) \/ Untrack(d) \/ CloseEndpoint(d)
      PROVE  k \in GoesBy(c)
  <2>1. UNCHANGED asking
    BY <1>6 DEF Accept, Track, ReadPreface, MarkClosed, Untrack, CloseEndpoint
  <2>2. KeepsPairing(c)
    <3>1. CASE Accept(c) \/ Track(c)
      BY <1>0, <3>1, AtEffect DEF Accept, Track
    <3>2. CASE ReadPreface(c)
      BY <1>0, <3>2, PrefaceEffect
    <3>3. CASE MarkClosed(c) \/ Untrack(c) \/ CloseEndpoint(c)
      BY <1>0, <3>3, ClosingEffect DEF MarkClosed, Untrack, CloseEndpoint
    <3> QED BY <1>6, <3>1, <3>2, <3>3
  <2> QED BY <2>1, <2>2 DEF KeepsPairing, GoesBy
<1>7. ASSUME NEW d \in Conns, d # c, \/ Accept(d) \/ Track(d) \/ ReadPreface(d) \/ MarkClosed(d) \/ Untrack(d) \/ CloseEndpoint(d)
                                      \/ Request(d) \/ Prove(d) \/ Answer(d) \/ StillSignedIn(d) \/ WriteEvents(d) \/ Abandon(d)
      PROVE  k \in GoesBy(c)
  <2>1. conn'[c] = conn[c]
    <3>1. CASE Accept(d) \/ Track(d)
      BY <1>0, <1>7, <3>1, AtEffect DEF Accept, Track, ConnOnly
    <3>2. CASE ReadPreface(d)
      BY <1>0, <1>7, <3>2, PrefaceEffect DEF ConnOnly
    <3>3. CASE MarkClosed(d) \/ Untrack(d) \/ CloseEndpoint(d)
      BY <1>0, <1>7, <3>3, ClosingEffect DEF MarkClosed, Untrack, CloseEndpoint, ConnOnly
    <3>4. CASE Answer(d)
      BY <1>0, <1>7, <3>4, AnswerEffect DEF ConnOnly
    <3>5. CASE Request(d) \/ Prove(d) \/ StillSignedIn(d) \/ WriteEvents(d) \/ Abandon(d)
      BY <3>5 DEF Request, Prove, StillSignedIn, WriteEvents, Abandon
    <3> QED BY <1>7, <3>1, <3>2, <3>3, <3>4, <3>5
  <2>2. asking'[c] = asking[c]
    <3>1. CASE Accept(d) \/ Track(d) \/ ReadPreface(d) \/ MarkClosed(d) \/ Untrack(d) \/ CloseEndpoint(d)
      BY <3>1 DEF Accept, Track, ReadPreface, MarkClosed, Untrack, CloseEndpoint
    <3>2. CASE Request(d)
      BY <1>0, <1>7, <3>2, RequestEffect DEF AskOnly
    <3>3. CASE Prove(d)
      BY <1>0, <1>7, <3>3, ProveEffect DEF AskOnly
    <3>4. CASE Answer(d)
      BY <1>0, <1>7, <3>4, AnswerEffect DEF AskOnly
    <3>5. CASE StillSignedIn(d) \/ WriteEvents(d) \/ Abandon(d)
      BY <1>0, <1>7, <3>5, GoesEffect, EndsEffect DEF StillSignedIn, WriteEvents, Abandon, AskOnly
    <3> QED BY <1>7, <3>1, <3>2, <3>3, <3>4, <3>5
  <2> QED BY <2>1, <2>2 DEF GoesBy
<1>8. CASE UNCHANGED <<conn, asking>>
  BY <1>1, <1>8, ConnMoves DEF GoesBy
<1>9. \/ UNCHANGED <<conn, asking>>
      \/ \E d \in Conns : \/ Accept(d) \/ Track(d) \/ ReadPreface(d) \/ MarkClosed(d) \/ Untrack(d) \/ CloseEndpoint(d)
                          \/ Request(d) \/ Prove(d) \/ Answer(d) \/ StillSignedIn(d) \/ WriteEvents(d) \/ Abandon(d)
  BY DEF PeerNext, Pair, RevokeDevice, Collect, EndpointClosed, cVars
<1>10. CASE k \in GoesBy(c)
  BY <1>1, <1>10, ConnMoves
<1> QED BY <1>2, <1>3, <1>4, <1>5, <1>6, <1>7, <1>8, <1>9, <1>10

LEMMA ByEndpointStep ==
  ASSUME PeerInv, [PeerNext]_cVars
  PROVE  ByEndpoint'
<1> SUFFICES ASSUME NEW c \in Conns, NEW k \in GoesBy(c)'
             PROVE  conn'[c].at = "open" /\ (logins'[k] => conn'[c].id)
  BY DEF ByEndpoint
<1>1. conn[c].at = "open" /\ (logins[k] => conn[c].id)
  BY RowMoves DEF PeerInv, ByEndpoint
<1> QED BY <1>1, RowMoves, ConnMoves

\* What connectRevoke does to the row that is there and to the row it revokes.
LEMMA RevokerMoves ==
  ASSUME PeerInv, [PeerNext]_cVars
  PROVE  \/ UNCHANGED <<phoneRow, revoker>>
         \/ Pair \/ RevokeDevice \/ Collect \/ EndpointClosed
         \/ \E c \in Conns : CloseEndpoint(c)
  BY DEF PeerNext, Accept, ReadPreface, Track, MarkClosed, Untrack, Request, Prove, Answer,
     StillSignedIn, WriteEvents, Abandon, cVars

LEMMA ByRowStep ==
  ASSUME PeerInv, [PeerNext]_cVars
  PROVE  ByRow'
<1> SUFFICES ASSUME NEW c \in Conns, NEW k \in GoesBy(c)', logins'[k], conn'[c].closing = "no"
             PROVE  k = phoneRow' \/ revoker'.gone = k
  BY DEF ByRow
<1>0. PeerTypes /\ ByRow /\ Revoking /\ k # 0
  BY DEF PeerInv, GoesBy
<1>1. logins[k] /\ conn[c].closing = "no"
  BY RowMoves, ConnMoves
<1>2. CASE k \notin GoesBy(c)
  BY <1>2, RowMoves DEF Prove
<1>3. CASE k \in GoesBy(c)
  <2>1. k = phoneRow \/ revoker.gone = k
    BY <1>0, <1>1, <1>3 DEF ByRow
  <2>2. CASE UNCHANGED <<phoneRow, revoker>>
    BY <2>1, <2>2
  <2>3. CASE Pair
    BY <1>0, <2>1, <2>3, PairEffect DEF Revoking
  <2>4. CASE RevokeDevice
    BY <1>0, <2>1, <2>4, RevokeEffect DEF Revoking
  <2>5. CASE Collect
    BY <1>0, <2>1, <2>5, RevokeEffect DEF Collect
  <2>6. CASE EndpointClosed
    BY <1>0, <1>1, <1>3, <2>1, <2>6, RevokeEffect DEF Revoking
  <2>7. ASSUME NEW d \in Conns, CloseEndpoint(d) PROVE k = phoneRow' \/ revoker'.gone = k
    BY <1>0, <2>1, <2>7, RevokeEffect DEF CloseEndpoint
  <2> QED BY <2>2, <2>3, <2>4, <2>5, <2>6, <2>7, RevokerMoves
<1> QED BY <1>2, <1>3

LEMMA RevokingStep ==
  ASSUME PeerInv, [PeerNext]_cVars
  PROVE  Revoking'
<1>0. PeerTypes /\ RowsKnown /\ Tracking /\ ByEndpoint /\ Revoking
  BY DEF PeerInv
<1>1. ASSUME UNCHANGED <<phoneRow, revoker>>
      PROVE  Revoking'
  <2> SUFFICES ASSUME revoker.at = "close", NEW c \in Conns, revoker.gone \in GoesBy(c)', logins'[revoker.gone], conn'[c].closing = "no"
               PROVE  c \in revoker.live
    BY <1>0, <1>1 DEF Revoking
  <2>1. phoneRow = 0 /\ revoker.gone # 0
    BY <1>0 DEF Revoking
  <2>2. revoker.gone \in GoesBy(c) /\ logins[revoker.gone] /\ conn[c].closing = "no"
    BY <2>1, RowMoves, ConnMoves
  <2> QED BY <1>0, <2>2 DEF Revoking
<1>2. CASE Pair
  BY <1>0, <1>2, PairEffect DEF Revoking, Pair
<1>3. CASE RevokeDevice
  BY <1>0, <1>3, RevokeEffect DEF Revoking
<1>4. CASE Collect
  <2>1. /\ revoker'.at = "close" /\ revoker'.gone = revoker.gone /\ revoker.at = "collect"
        /\ logins[revoker.gone] => revoker'.live = {c \in tracked : conn[c].id}
        /\ UNCHANGED <<phoneRow, logins, conn, asking>>
    BY <1>0, <1>4, RevokeEffect DEF Collect
  <2>2. ASSUME NEW c \in Conns, revoker.gone \in GoesBy(c)', logins[revoker.gone], conn[c].closing = "no"
        PROVE  c \in revoker'.live
    <3>1. revoker.gone \in GoesBy(c)
      BY <2>1, <2>2 DEF GoesBy
    <3>2. conn[c].at = "open" /\ conn[c].id
      BY <1>0, <2>2, <3>1 DEF ByEndpoint
    <3> QED BY <1>0, <2>1, <2>2, <3>2 DEF Tracking
  <2> QED BY <1>0, <2>1, <2>2 DEF Revoking
<1>5. CASE EndpointClosed
  BY <1>0, <1>5, RevokeEffect DEF Revoking
<1>6. ASSUME NEW d \in Conns, CloseEndpoint(d)
      PROVE  Revoking'
  <2>1. /\ revoker'.at = "close" /\ revoker.at = "close" /\ revoker'.gone = revoker.gone /\ revoker'.live = revoker.live \ {d}
        /\ UNCHANGED phoneRow /\ conn'[d].closing = "done"
    BY <1>0, <1>6, RevokeEffect, ClosingEffect DEF CloseEndpoint
  <2>2. phoneRow = 0 /\ revoker.gone # 0
    BY <1>0, <2>1 DEF Revoking
  <2>3. ASSUME NEW c \in Conns, revoker.gone \in GoesBy(c)', logins'[revoker.gone], conn'[c].closing = "no"
        PROVE  c \in revoker'.live
    <3>1. revoker.gone \in GoesBy(c) /\ logins[revoker.gone] /\ conn[c].closing = "no"
      BY <2>2, <2>3, RowMoves, ConnMoves
    <3> QED BY <1>0, <2>1, <2>3, <3>1 DEF Revoking
  <2> QED BY <1>0, <2>1, <2>2, <2>3 DEF Revoking
<1> QED BY <1>1, <1>2, <1>3, <1>4, <1>5, <1>6, RevokerMoves

LEMMA CountingStep ==
  ASSUME PeerInv, [PeerNext]_cVars
  PROVE  Counting'
<1>0. PeerTypes /\ RowsKnown /\ Tracking /\ ByEndpoint /\ ByRow /\ Revoking /\ Counting /\ Lateness
  BY DEF PeerInv
<1>1. ASSUME NEW c \in Conns, Accept(c)
      PROVE  Counting'
  BY <1>0, <1>1, AtEffect DEF Accept, ConnOnly, AskOnly, KeepsPairing, Counting
<1>2. ASSUME NEW c \in Conns, ReadPreface(c)
      PROVE  Counting'
  BY <1>0, <1>2, PrefaceEffect DEF ReadPreface, ConnOnly, AskOnly, KeepsPairing, Counting
<1>3. ASSUME NEW c \in Conns, Track(c)
      PROVE  Counting'
  BY <1>0, <1>3, AtEffect DEF Track, ConnOnly, AskOnly, KeepsPairing, Counting
<1>4. ASSUME NEW c \in Conns, MarkClosed(c)
      PROVE  Counting'
  BY <1>0, <1>4, ClosingEffect DEF MarkClosed, ConnOnly, AskOnly, KeepsPairing, Counting
<1>5. ASSUME NEW c \in Conns, Untrack(c)
      PROVE  Counting'
  BY <1>0, <1>5, ClosingEffect DEF Untrack, ConnOnly, AskOnly, KeepsPairing, Counting
<1>6. ASSUME NEW c \in Conns, Request(c)
      PROVE  Counting'
  BY <1>0, <1>6, RequestEffect DEF Request, ConnOnly, AskOnly, KeepsPairing, Counting
<1>7. ASSUME NEW c \in Conns, Prove(c)
      PROVE  Counting'
  BY <1>0, <1>7, ProveEffect DEF Prove, ConnOnly, AskOnly, KeepsPairing, Counting
<1>8. ASSUME NEW c \in Conns, Answer(c)
      PROVE  Counting'
  BY <1>0, <1>8, AnswerEffect DEF Answer, ConnOnly, AskOnly, KeepsPairing, Counting
<1>9. ASSUME NEW c \in Conns, StillSignedIn(c)
      PROVE  Counting'
  BY <1>0, <1>9, GoesEffect, EndsEffect DEF StillSignedIn, ConnOnly, AskOnly, KeepsPairing, Counting
<1>10. ASSUME NEW c \in Conns, WriteEvents(c)
      PROVE  Counting'
  BY <1>0, <1>10, GoesEffect DEF WriteEvents, ConnOnly, AskOnly, KeepsPairing, Counting
<1>11. ASSUME NEW c \in Conns, Abandon(c)
      PROVE  Counting'
  BY <1>0, <1>11, EndsEffect DEF Abandon, ConnOnly, AskOnly, KeepsPairing, Counting
<1>12. ASSUME NEW c \in Conns, CloseEndpoint(c)
      PROVE  Counting'
  BY <1>0, <1>12, ClosingEffect, RevokeEffect DEF CloseEndpoint, ConnOnly, AskOnly, KeepsPairing,
     Counting
<1>13. ASSUME Pair
      PROVE  Counting'
  BY <1>0, <1>13, PairEffect DEF Pair, ConnOnly, AskOnly, KeepsPairing, Counting
<1>14. ASSUME RevokeDevice
      PROVE  Counting'
  BY <1>0, <1>14, RevokeEffect DEF RevokeDevice, ConnOnly, AskOnly, KeepsPairing, Counting
<1>15. ASSUME Collect
      PROVE  Counting'
  BY <1>0, <1>15, RevokeEffect DEF Collect, ConnOnly, AskOnly, KeepsPairing, Counting
<1>16. ASSUME EndpointClosed
      PROVE  Counting'
  BY <1>0, <1>16, RevokeEffect DEF EndpointClosed, ConnOnly, AskOnly, KeepsPairing, Counting
<1>17. CASE UNCHANGED cVars
  BY <1>0, <1>17 DEF cVars, Counting
<1> QED BY <1>1, <1>2, <1>3, <1>4, <1>5, <1>6, <1>7, <1>8, <1>9, <1>10, <1>11, <1>12, <1>13, <1>14,
   <1>15, <1>16, <1>17 DEF PeerNext

LEMMA LatenessStep ==
  ASSUME PeerInv, [PeerNext]_cVars
  PROVE  Lateness'
<1>0. PeerTypes /\ RowsKnown /\ Tracking /\ ByEndpoint /\ ByRow /\ Revoking /\ Counting /\ Lateness
  BY DEF PeerInv
<1>1. ASSUME NEW c \in Conns, Accept(c)
      PROVE  Lateness'
  BY <1>0, <1>1, AtEffect DEF Accept, ConnOnly, AskOnly, KeepsPairing, Lateness
<1>2. ASSUME NEW c \in Conns, ReadPreface(c)
      PROVE  Lateness'
  BY <1>0, <1>2, PrefaceEffect DEF ReadPreface, ConnOnly, AskOnly, KeepsPairing, Lateness
<1>3. ASSUME NEW c \in Conns, Track(c)
      PROVE  Lateness'
  BY <1>0, <1>3, AtEffect DEF Track, ConnOnly, AskOnly, KeepsPairing, Lateness
<1>4. ASSUME NEW c \in Conns, MarkClosed(c)
      PROVE  Lateness'
  BY <1>0, <1>4, ClosingEffect DEF MarkClosed, ConnOnly, AskOnly, KeepsPairing, Lateness
<1>5. ASSUME NEW c \in Conns, Untrack(c)
      PROVE  Lateness'
  BY <1>0, <1>5, ClosingEffect DEF Untrack, ConnOnly, AskOnly, KeepsPairing, Lateness
<1>6. ASSUME NEW c \in Conns, Request(c)
      PROVE  Lateness'
  BY <1>0, <1>6, RequestEffect DEF Request, ConnOnly, AskOnly, KeepsPairing, Lateness
<1>7. ASSUME NEW c \in Conns, Prove(c)
      PROVE  Lateness'
  BY <1>0, <1>7, ProveEffect DEF Prove, ConnOnly, AskOnly, KeepsPairing, Lateness
<1>8. ASSUME NEW c \in Conns, Answer(c)
      PROVE  Lateness'
  <2>1. /\ AskOnly(c)
        /\ \/ asking'[c].at = "idle" /\ asking'[c].proved = 0 /\ UNCHANGED lateWrites
           \/ /\ asking'[c].at = "check" /\ asking'[c].proved = asking[c].proved /\ asking[c].proved # 0
              /\ lateWrites' = [lateWrites EXCEPT ![c] = 0]
    BY <1>0, <1>8, AnswerEffect
  <2>2. UNCHANGED phoneRow /\ lateWrites \in [Conns -> Nat]
    BY <1>0, <1>8 DEF Answer, PeerTypes
  <2> QED BY <1>0, <2>1, <2>2 DEF AskOnly, Lateness
<1>9. ASSUME NEW c \in Conns, StillSignedIn(c)
      PROVE  Lateness'
  <2>1. UNCHANGED <<phoneRow, lateWrites>> /\ asking[c].at = "check" /\ lateWrites[c] \in Nat
    BY <1>0, <1>9 DEF StillSignedIn, PeerTypes
  <2>2. AskOnly(c) /\ (asking'[c].at = "idle" \/ (phoneRow = asking[c].proved /\ asking'[c].at = "write" /\ asking'[c].proved = asking[c].proved))
    BY <1>0, <1>9, GoesEffect, EndsEffect DEF StillSignedIn
  <2>3. phoneRow = asking[c].proved => lateWrites[c] = 0
    BY <1>0, <2>1 DEF Lateness
  <2> QED BY <1>0, <2>1, <2>2, <2>3 DEF AskOnly, Lateness
<1>10. ASSUME NEW c \in Conns, WriteEvents(c)
      PROVE  Lateness'
  BY <1>0, <1>10, GoesEffect DEF WriteEvents, ConnOnly, AskOnly, KeepsPairing, Lateness
<1>11. ASSUME NEW c \in Conns, Abandon(c)
      PROVE  Lateness'
  BY <1>0, <1>11, EndsEffect DEF Abandon, ConnOnly, AskOnly, KeepsPairing, Lateness
<1>12. ASSUME NEW c \in Conns, CloseEndpoint(c)
      PROVE  Lateness'
  BY <1>0, <1>12, ClosingEffect, RevokeEffect DEF CloseEndpoint, ConnOnly, AskOnly, KeepsPairing,
     Lateness
<1>13. ASSUME Pair
      PROVE  Lateness'
  <2>1. UNCHANGED <<asking, lateWrites>> /\ phoneRow' = Len(logins) + 1 /\ Len(logins) \in Nat
    BY <1>0, <1>13, PairEffect DEF Pair, PeerTypes
  <2>2. \A c \in Conns : asking[c].proved \in Nat /\ asking[c].proved <= Len(logins)
    BY <1>0 DEF RowsKnown, PeerTypes, AskRecord
  <2>3. \A c \in Conns : phoneRow' # asking[c].proved
    BY <2>1, <2>2
  <2> QED BY <1>0, <2>1, <2>3 DEF Lateness
<1>14. ASSUME RevokeDevice
      PROVE  Lateness'
  BY <1>0, <1>14, RevokeEffect DEF RevokeDevice, ConnOnly, AskOnly, KeepsPairing, Lateness
<1>15. ASSUME Collect
      PROVE  Lateness'
  BY <1>0, <1>15, RevokeEffect DEF Collect, ConnOnly, AskOnly, KeepsPairing, Lateness
<1>16. ASSUME EndpointClosed
      PROVE  Lateness'
  BY <1>0, <1>16, RevokeEffect DEF EndpointClosed, ConnOnly, AskOnly, KeepsPairing, Lateness
<1>17. CASE UNCHANGED cVars
  BY <1>0, <1>17 DEF cVars, Lateness
<1> QED BY <1>1, <1>2, <1>3, <1>4, <1>5, <1>6, <1>7, <1>8, <1>9, <1>10, <1>11, <1>12, <1>13, <1>14,
   <1>15, <1>16, <1>17 DEF PeerNext

\* Nothing is open, and the phone is not paired.
LEMMA PeerStarts == PeerInit => PeerInv
<1> SUFFICES ASSUME PeerInit
             PROVE  PeerInv
  OBVIOUS
<1>1. NoConn \in ConnRecord /\ NoConn.at = "none" /\ NoConn.paired = 0 /\ NoConn.counted = 0
  BY DEF NoConn, ConnRecord
<1>2. NoRequest \in AskRecord /\ NoRequest.at = "idle" /\ NoRequest.proved = 0
  BY DEF NoRequest, AskRecord
<1>3. AtRest \in RevokeRecord /\ AtRest.at = "idle" /\ AtRest.gone = 0
  BY DEF AtRest, RevokeRecord
<1>4. MaxRequests \in Nat /\ PeerRequests \in Nat
  BY PeerAssumption
<1>5. logins = <<>> /\ Len(logins) = 0 /\ logins \in Seq(BOOLEAN)
  BY DEF PeerInit
<1>6. PeerTypes
  BY <1>1, <1>2, <1>3, <1>4, <1>5 DEF PeerInit, PeerTypes
<1>7. \A c \in Conns : GoesBy(c) = {}
  BY <1>1, <1>2 DEF PeerInit, GoesBy
<1>8. RowsKnown /\ Tracking /\ Counting /\ Lateness
  BY <1>1, <1>2, <1>3, <1>4, <1>5 DEF PeerInit, RowsKnown, Tracking, Counting, Lateness
<1>9. ByEndpoint /\ ByRow /\ Revoking
  BY <1>3, <1>7 DEF PeerInit, ByEndpoint, ByRow, Revoking
<1> QED BY <1>6, <1>8, <1>9 DEF PeerInv

LEMMA PeerStep == PeerInv /\ [PeerNext]_cVars => PeerInv'
  BY PeerTypesStep, RowsKnownStep, TrackingStep, ByEndpointStep, ByRowStep, RevokingStep,
     CountingStep, LatenessStep DEF PeerInv

LEMMA PeerImplies == PeerInv => PeerSafety
<1> SUFFICES ASSUME PeerInv
             PROVE  PeerSafety
  OBVIOUS
<1>1. PeerTypeOK
  BY DEF PeerInv, PeerTypes, Tracking, PeerTypeOK
<1>2. PairedByRow
  BY DEF PeerInv, ByRow, GoesBy, PairedByRow
<1>3. Allowance /\ StreamEnds
  BY DEF PeerInv, Counting, Lateness, Allowance, StreamEnds
<1> QED BY <1>1, <1>2, <1>3 DEF PeerSafety

\* What a phone may do over its connections ends with its row, however the
\* connections open, prove themselves and stream while the row is revoked
\* (board/peer.go and board/phone.go, connectRevoke); and a cookie that proves
\* nothing is never answered more often than PeerRequests.
THEOREM PeerSafe == PeerSpec => []PeerSafety
<1>1. PeerInit => PeerInv
  BY PeerStarts
<1>2. PeerInv /\ [PeerNext]_cVars => PeerInv'
  BY PeerStep
<1>3. PeerInv => PeerSafety
  BY PeerImplies
<1> QED BY <1>1, <1>2, <1>3, PTL DEF PeerSpec
-----------------------------------------------------------------------------
(* PhonePairing: the inductive invariant *)

CodeRecord == [id : Codes, used : BOOLEAN, age : {"fresh", "late", "old"}, fleets : SUBSET Fleets]
TryRecord == [n : 0 .. AddrFails, late : BOOLEAN]
BoardRecord == [codes : SUBSET CodeRecord, fails : 0 .. PairFails - 1, tries : [Phones -> TryRecord]]
RowRecord == [fleet : Fleets, label : Nat, row : Nat, code : Nat, hash : Nat]
PostRecord == [at : {"idle", "redeem", "grant"}, id : Nat, typed : Nat, key : Nat, was : [Fleets -> Nat],
               todo : SUBSET Fleets, got : SUBSET RowRecord]
CookieRecord == [row : Nat, was : Nat]
AskedRevoke == [at : {"idle", "revoke"}, label : Nat, todo : SUBSET Fleets, failed : BOOLEAN, done : SUBSET Fleets, racing : BOOLEAN]

Versions == 1 .. MaxTokens

PairingTypes ==
  /\ key \in [Fleets -> Versions] /\ board \in [Versions -> BoardRecord] /\ shown \in 0 .. MaxCodes
  /\ post \in [Phones -> PostRecord] /\ posts \in Nat /\ events \in Nat
  /\ made \subseteq RowRecord /\ rows \subseteq made /\ jar \in [Phones -> [Fleets -> CookieRecord]]
  /\ told \in [Codes -> Nat] /\ revoke \in AskedRevoke

\* A code is on the board it was minted on, once, and one at most can be used there.
CodesKnown ==
  /\ \A v \in Versions : \A c \in board[v].codes : c.id <= shown
  /\ \A v, w \in Versions : \A c \in board[v].codes, d \in board[w].codes : c.id = d.id => v = w /\ c = d
  /\ \A v \in Versions : \A c, d \in board[v].codes : Usable(c) /\ Usable(d) => c = d

\* A board has counted every wrong try since its code was shown.
Tallied ==
  /\ \A v \in Versions : \A c \in board[v].codes : Usable(c) => told[c.id] <= board[v].fails
  /\ \A k \in Codes : k > shown => told[k] = 0

\* Codes that paired a phone, or are about to.
Granting == {p \in Phones : post[p].at = "grant"}
Taken == {r.code : r \in made} \cup {post[p].typed : p \in Granting}

\* What was taken cannot be used again.
TakenOnce ==
  /\ \A k \in Taken : k \in 1 .. shown
  /\ \A v \in Versions : \A c \in board[v].codes : Usable(c) => c.id \notin Taken

\* A code is granted to one request, and its rows are that request's.
Grants ==
  /\ \A p, q \in Granting : post[p].typed = post[q].typed => p = q
  /\ \A p \in Granting : \A r \in made : r.code = post[p].typed => r.label = post[p].id /\ r.fleet \notin post[p].todo

\* Rows are numbered, and labelled by the requests there were.
RowsNumbered ==
  /\ IsFiniteSet(made)
  /\ \A r \in made : r.row \in 1 .. Cardinality(made) /\ r.label \in 1 .. posts
  /\ \A r, s \in made : r.row = s.row => r = s

\* A request goes on with the tokens there were when it came.
Posting ==
  \A p \in Phones :
    /\ post[p].at = "idle" => post[p].id = 0
    /\ post[p].at # "idle" => /\ post[p].id \in 1 .. posts /\ post[p].typed <= shown
                              /\ post[p].key \in Versions /\ post[p].key = post[p].was[Own]
                              /\ \A f \in Fleets : post[p].was[f] <= key[f]
    /\ post[p].at # "grant" => post[p].got = {}

\* Between two versions of a token: the one a request saw and the one there is.
HashedBetween(r, was) == was <= r.hash /\ r.hash <= key[r.fleet]
Got == \A p \in Phones : \A r \in post[p].got : r \in made /\ r.code = post[p].typed /\ HashedBetween(r, post[p].was[r.fleet])
Jarred ==
  \A p \in Phones, f \in Fleets :
    jar[p][f].row # 0 => \E r \in made : r.row = jar[p][f].row /\ r.fleet = f /\ HashedBetween(r, jar[p][f].was)

\* A phone that is revoked and was not being paired gets no row meanwhile.
RevokedSoFar ==
  revoke.at = "revoke" =>
    /\ revoke.label \in 1 .. posts
    /\ ~revoke.racing => \A p \in Phones : post[p].id # revoke.label
    /\ ~revoke.racing /\ ~revoke.failed => \A r \in rows : r.label = revoke.label => r.fleet \notin revoke.done

PairingInv ==
  /\ PairingTypes /\ CodesKnown /\ Tallied /\ TakenOnce /\ Grants /\ CodeOnce /\ RowsNumbered
  /\ Posting /\ Got /\ Jarred /\ RevokedSoFar
-----------------------------------------------------------------------------
(* PhonePairing: what the steps do *)

BoardOnly(v) == board' \in [Versions -> BoardRecord] /\ \A w \in Versions \ {v} : board'[w] = board[w]
PostOnly(p) == post' \in [Phones -> PostRecord] /\ \A q \in Phones \ {p} : post'[q] = post[q]

\* A board whose code c became d, which cannot be used.
Renews(v, c, d) == /\ c \in board[v].codes /\ d.id = c.id /\ ~Usable(d)
                   /\ board'[v].codes \subseteq (board[v].codes \ {c}) \cup {d}

LEMMA PairingNumbers ==
  /\ PairFails \in Nat /\ AddrFails \in Nat /\ MaxCodes \in Nat /\ MaxTokens \in Nat
  /\ PairFails > 0 /\ AddrFails > 0 /\ MaxTokens > 0 /\ Own \in Fleets /\ Others \subseteq Fleets
  BY PairingAssumption DEF Fleets

LEMMA NoTryType == NoTry \in TryRecord
  BY PairingNumbers DEF NoTry, TryRecord

LEMMA PrunedEffect ==
  ASSUME NEW b \in BoardRecord
  PROVE  /\ Pruned(b) \in BoardRecord /\ Pruned(b).codes \subseteq b.codes /\ Pruned(b).fails = b.fails
         /\ Pruned(b).codes = {c \in b.codes : c.age # "old"}
<1> DEFINE cs == {c \in b.codes : c.age # "old"}
           ts == [p \in Phones |-> IF b.tries[p].late THEN NoTry ELSE b.tries[p]]
<1>1. cs \in SUBSET CodeRecord /\ cs \subseteq b.codes
  BY DEF BoardRecord
<1>2. ts \in [Phones -> TryRecord]
  BY NoTryType DEF BoardRecord
<1>3. Pruned(b) = [b EXCEPT !.codes = cs, !.tries = ts]
  BY DEF Pruned, BoardRecord
<1> HIDE DEF cs, ts
<1>4. Pruned(b) \in BoardRecord /\ Pruned(b).codes = cs /\ Pruned(b).fails = b.fails
  BY <1>1, <1>2, <1>3 DEF BoardRecord
<1> QED BY <1>1, <1>4 DEF cs

LEMMA MintedEffect ==
  ASSUME NEW b \in BoardRecord, NEW c \in CodeRecord
  PROVE  /\ Minted(b, c) \in BoardRecord /\ Minted(b, c).fails = b.fails
         /\ Minted(b, c).codes \subseteq {d \in b.codes : ~Usable(d)} \cup {c}
<1> DEFINE cs == {d \in Pruned(b).codes : ~Usable(d)} \cup {c}
<1>1. Pruned(b) \in BoardRecord /\ Pruned(b).codes \subseteq b.codes /\ Pruned(b).fails = b.fails
  BY PrunedEffect
<1>2. cs \in SUBSET CodeRecord /\ cs \subseteq {d \in b.codes : ~Usable(d)} \cup {c}
  BY <1>1 DEF BoardRecord
<1>3. Minted(b, c) = [Pruned(b) EXCEPT !.codes = cs]
  BY <1>1 DEF Minted, BoardRecord
<1> HIDE DEF cs
<1> QED BY <1>1, <1>2, <1>3 DEF BoardRecord

LEMMA SpentEffect ==
  ASSUME NEW b \in BoardRecord, NEW p \in Phones, NEW c \in b.codes
  PROVE  /\ Spent(b, p, c) \in BoardRecord /\ Spent(b, p, c).fails = 0
         /\ Spent(b, p, c).codes = (b.codes \ {c}) \cup {[c EXCEPT !.used = TRUE]}
<1> DEFINE cs == (b.codes \ {c}) \cup {[c EXCEPT !.used = TRUE]}
           ts == [b.tries EXCEPT ![p] = NoTry]
<1>1. [c EXCEPT !.used = TRUE] \in CodeRecord
  BY DEF BoardRecord, CodeRecord
<1>2. cs \in SUBSET CodeRecord /\ ts \in [Phones -> TryRecord]
  BY <1>1, NoTryType DEF BoardRecord
<1>3. Spent(b, p, c) = [b EXCEPT !.codes = cs, !.fails = 0, !.tries = ts]
  BY DEF Spent, BoardRecord
<1> HIDE DEF cs, ts
<1>4. Spent(b, p, c) \in BoardRecord /\ Spent(b, p, c).fails = 0 /\ Spent(b, p, c).codes = cs
  <2>1. 0 \in 0 .. PairFails - 1
    BY PairingNumbers
  <2> QED BY <1>2, <1>3, <2>1 DEF BoardRecord
<1> QED BY <1>4 DEF cs

\* A wrong try is counted, or cancels every code.
LEMMA CountedEffect ==
  ASSUME NEW b \in BoardRecord, NEW p \in Phones, b.tries[p].n < AddrFails
  PROVE  /\ Counted(b, p) \in BoardRecord /\ Counted(b, p).codes \subseteq b.codes
         /\ Counted(b, p).codes = {} \/ Counted(b, p).fails = b.fails + 1
<1>0. b.fails \in 0 .. PairFails - 1 /\ b.tries[p] \in TryRecord /\ b.codes \in SUBSET CodeRecord
  BY DEF BoardRecord
<1>1. CASE b.fails + 1 >= PairFails
  <2> DEFINE ts == [q \in Phones |-> NoTry]
  <2>1. ts \in [Phones -> TryRecord]
    BY NoTryType
  <2>2. Counted(b, p) = [b EXCEPT !.codes = {}, !.fails = 0, !.tries = ts]
    BY <1>1 DEF Counted, Burned
  <2> HIDE DEF ts
  <2>3. 0 \in 0 .. PairFails - 1
    BY PairingNumbers
  <2> QED BY <2>1, <2>2, <2>3 DEF BoardRecord
<1>2. CASE ~(b.fails + 1 >= PairFails)
  <2> DEFINE ts == [b.tries EXCEPT ![p].n = @ + 1]
             n == b.fails + 1
  <2>1. n \in 0 .. PairFails - 1
    BY <1>0, <1>2, PairingNumbers
  <2>2. ts \in [Phones -> TryRecord]
    <3> DEFINE e == [b.tries[p] EXCEPT !.n = @ + 1]
    <3>1. e \in TryRecord
      BY <1>0, PairingNumbers DEF TryRecord
    <3>2. ts = [b.tries EXCEPT ![p] = e]
      BY DEF BoardRecord
    <3> HIDE DEF e, ts
    <3> QED BY <3>1, <3>2 DEF BoardRecord
  <2>3. Counted(b, p) = [b EXCEPT !.fails = n, !.tries = ts]
    BY <1>2 DEF Counted, BoardRecord
  <2> HIDE DEF ts, n
  <2>4. Counted(b, p) \in BoardRecord /\ Counted(b, p).codes = b.codes /\ Counted(b, p).fails = n
    BY <2>1, <2>2, <2>3 DEF BoardRecord
  <2> QED BY <2>4 DEF n
<1> QED BY <1>1, <1>2

LEMMA AgedEffect ==
  ASSUME NEW b \in BoardRecord, NEW c \in b.codes, c.age # "old"
  PROVE  /\ Aged(b, c) \in BoardRecord /\ Aged(b, c).fails = b.fails
         /\ \E d \in CodeRecord : d.id = c.id /\ ~Usable(d) /\ Aged(b, c).codes = (b.codes \ {c}) \cup {d}
<1> DEFINE a == IF c.age = "fresh" THEN "late" ELSE "old"
           d == [c EXCEPT !.age = a]
           cs == (b.codes \ {c}) \cup {d}
           ts == [p \in Phones |-> [b.tries[p] EXCEPT !.late = @ \/ (b.tries[p].n > 0 /\ c.age = "late")]]
<1>1. c \in CodeRecord
  BY DEF BoardRecord
<1>2. d \in CodeRecord /\ d.id = c.id /\ ~Usable(d)
  BY <1>1 DEF CodeRecord, Usable
<1>3. Aged(b, c) = [b EXCEPT !.codes = cs, !.tries = ts]
  BY DEF Aged, BoardRecord
<1>4. ts \in [Phones -> TryRecord]
  <2> SUFFICES ASSUME NEW p \in Phones
               PROVE  [b.tries[p] EXCEPT !.late = @ \/ (b.tries[p].n > 0 /\ c.age = "late")] \in TryRecord
    OBVIOUS
  <2>1. b.tries[p] \in TryRecord
    BY DEF BoardRecord
  <2> QED BY <2>1 DEF TryRecord
<1> HIDE DEF a, d, ts
<1>5. cs \in SUBSET CodeRecord
  BY <1>2 DEF BoardRecord
<1> HIDE DEF cs
<1>6. Aged(b, c) \in BoardRecord /\ Aged(b, c).fails = b.fails /\ Aged(b, c).codes = cs
  BY <1>3, <1>4, <1>5 DEF BoardRecord
<1> QED BY <1>2, <1>6 DEF cs

\* A code is shown on the board of the token there is.
LEMMA ShowEffect ==
  ASSUME PairingTypes, NEW chosen \in SUBSET Others, ShowCode(chosen)
  PROVE  /\ shown' = shown + 1 /\ shown' \in 0 .. MaxCodes
         /\ \E c \in CodeRecord : /\ c.id = shown' /\ BoardOnly(key[Own])
                                  /\ board'[key[Own]].fails = board[key[Own]].fails
                                  /\ board'[key[Own]].codes \subseteq {d \in board[key[Own]].codes : ~Usable(d)} \cup {c}
<1> DEFINE v == key[Own]
           c == [id |-> shown + 1, used |-> FALSE, age |-> "fresh", fleets |-> {Own} \cup chosen]
<1>1. shown \in 0 .. MaxCodes /\ shown < MaxCodes /\ shown' = shown + 1
  BY DEF PairingTypes, ShowCode
<1>2. shown' \in 0 .. MaxCodes /\ shown + 1 \in Codes
  BY <1>1, PairingNumbers DEF Codes
<1>3. v \in Versions /\ board[v] \in BoardRecord /\ board \in [Versions -> BoardRecord]
  BY PairingNumbers DEF PairingTypes
<1>4. c \in CodeRecord /\ c.id = shown'
  BY <1>1, <1>2 DEF CodeRecord, Fleets
<1>5. board' = [board EXCEPT ![v] = Minted(board[v], c)]
  BY <1>3 DEF ShowCode
<1> HIDE DEF c
<1>6. /\ Minted(board[v], c) \in BoardRecord /\ Minted(board[v], c).fails = board[v].fails
      /\ Minted(board[v], c).codes \subseteq {d \in board[v].codes : ~Usable(d)} \cup {c}
  BY <1>3, <1>4, MintedEffect
<1> QED BY <1>1, <1>2, <1>3, <1>4, <1>5, <1>6 DEF BoardOnly

\* A request that is over.
LEMMA PostFields ==
  ASSUME PairingTypes, NEW p \in Phones
  PROVE  /\ post[p] \in PostRecord /\ (post[p].at = "grant" => p \in Granting)
         /\ NoPost \in PostRecord /\ NoPost.at = "idle" /\ NoPost.id = 0 /\ NoPost.got = {} /\ NoPost.todo = {}
  BY DEF PairingTypes, NoPost, Wrong, PostRecord, Granting

LEMMA OverEffect ==
  ASSUME PairingTypes, NEW p \in Phones, post' = [post EXCEPT ![p] = NoPost]
  PROVE  PostOnly(p) /\ post'[p].at = "idle" /\ post'[p].id = 0 /\ post'[p].got = {}
  BY PostFields DEF PairingTypes, PostOnly

\* What a redeem does to its board and its request.
RedeemMissed(p) == LET v == post[p].key IN
  /\ post' = [post EXCEPT ![p] = NoPost] /\ UNCHANGED told
  /\ board'[v].codes \subseteq board[v].codes /\ board'[v].fails = board[v].fails
RedeemWrong(p) == LET v == post[p].key IN
  /\ post' = [post EXCEPT ![p] = NoPost]
  /\ board'[v].codes \subseteq board[v].codes /\ (board'[v].codes = {} \/ board'[v].fails = board[v].fails + 1)
  /\ told' \in [Codes -> Nat]
  /\ \A k \in Codes : \/ told'[k] = told[k]
                      \/ told'[k] = told[k] + 1 /\ \E d \in board[v].codes : d.id = k /\ Usable(d)
RedeemRight(p) == LET v == post[p].key IN
  /\ UNCHANGED told
  /\ PostOnly(p) /\ post'[p].at = "grant" /\ post'[p].id = post[p].id /\ post'[p].typed = post[p].typed
  /\ post'[p].key = post[p].key /\ post'[p].was = post[p].was /\ post'[p].got = post[p].got
  /\ board'[v].fails = 0
  /\ \E c, d \in CodeRecord : c.id = post[p].typed /\ Usable(c) /\ Renews(v, c, d)

LEMMA RedeemEffect ==
  ASSUME PairingTypes, Posting, NEW p \in Phones, Redeem(p)
  PROVE  /\ post[p].at = "redeem" /\ BoardOnly(post[p].key)
         /\ RedeemMissed(p) \/ RedeemWrong(p) \/ RedeemRight(p)
         /\ UNCHANGED <<key, laptop, shown, posts, events, rows, made, jar, revoke>>
<1> DEFINE v == post[p].key
           b == Pruned(board[v])
           hit == {c \in b.codes : c.id = post[p].typed /\ Usable(c)}
<1>1. post[p].at = "redeem" /\ UNCHANGED <<key, laptop, shown, posts, events, rows, made, jar, revoke>>
  BY DEF Redeem
<1>2. v \in Versions /\ board \in [Versions -> BoardRecord] /\ board[v] \in BoardRecord
  BY <1>1 DEF Posting, PairingTypes
<1>3. b \in BoardRecord /\ b.codes \subseteq board[v].codes /\ b.fails = board[v].fails /\ b.codes \subseteq CodeRecord
  BY <1>2, PrunedEffect DEF BoardRecord
<1>4. \/ board' = [board EXCEPT ![v] = b] /\ post' = [post EXCEPT ![p] = NoPost] /\ UNCHANGED told
      \/ /\ b.tries[p].n < AddrFails /\ board' = [board EXCEPT ![v] = Counted(b, p)] /\ post' = [post EXCEPT ![p] = NoPost]
         /\ told' = [c \in Codes |-> IF \E d \in b.codes : d.id = c /\ Usable(d) THEN told[c] + 1 ELSE told[c]]
      \/ \E c \in hit : /\ board' = [board EXCEPT ![v] = Spent(b, p, c)]
                        /\ post' = [post EXCEPT ![p].at = "grant", ![p].todo = c.fleets]
                        /\ UNCHANGED told
  BY DEF Redeem
<1> HIDE DEF b
<1>5. CASE board' = [board EXCEPT ![v] = b] /\ post' = [post EXCEPT ![p] = NoPost] /\ UNCHANGED told
  BY <1>1, <1>2, <1>3, <1>5 DEF BoardOnly, RedeemMissed
<1>6. CASE /\ b.tries[p].n < AddrFails /\ board' = [board EXCEPT ![v] = Counted(b, p)] /\ post' = [post EXCEPT ![p] = NoPost]
           /\ told' = [c \in Codes |-> IF \E d \in b.codes : d.id = c /\ Usable(d) THEN told[c] + 1 ELSE told[c]]
  <2>1. /\ Counted(b, p) \in BoardRecord /\ Counted(b, p).codes \subseteq b.codes
        /\ Counted(b, p).codes = {} \/ Counted(b, p).fails = b.fails + 1
    BY <1>3, <1>6, CountedEffect
  <2>2. BoardOnly(v) /\ board'[v] = Counted(b, p)
    BY <1>2, <1>6, <2>1 DEF BoardOnly
  <2>3. told \in [Codes -> Nat]
    BY DEF PairingTypes
  <2>4. told' \in [Codes -> Nat] /\ \A k \in Codes : \/ told'[k] = told[k]
                                                     \/ told'[k] = told[k] + 1 /\ \E d \in board[v].codes : d.id = k /\ Usable(d)
    BY <1>3, <1>6, <2>3
  <2> QED BY <1>1, <1>3, <1>6, <2>1, <2>2, <2>4 DEF RedeemWrong
<1>7. ASSUME NEW c \in hit, board' = [board EXCEPT ![v] = Spent(b, p, c)], UNCHANGED told,
             post' = [post EXCEPT ![p].at = "grant", ![p].todo = c.fleets]
      PROVE  BoardOnly(v) /\ RedeemRight(p)
  <2> DEFINE d == [c EXCEPT !.used = TRUE]
             e == [post[p] EXCEPT !.at = "grant", !.todo = c.fleets]
  <2>1. c \in b.codes /\ c \in CodeRecord /\ c.id = post[p].typed /\ Usable(c) /\ c \in board[v].codes
    BY <1>3
  <2>2. d \in CodeRecord /\ d.id = c.id /\ ~Usable(d)
    BY <2>1 DEF CodeRecord, Usable
  <2>3. Spent(b, p, c) \in BoardRecord /\ Spent(b, p, c).fails = 0 /\ Spent(b, p, c).codes = (b.codes \ {c}) \cup {d}
    BY <1>3, <2>1, SpentEffect
  <2>4. BoardOnly(v) /\ board'[v] = Spent(b, p, c)
    BY <1>2, <1>7, <2>3 DEF BoardOnly
  <2>5. /\ e \in PostRecord /\ e.at = "grant" /\ e.id = post[p].id /\ e.typed = post[p].typed /\ e.key = post[p].key
        /\ e.was = post[p].was /\ e.got = post[p].got
    BY <2>1, PostFields DEF PostRecord, CodeRecord
  <2>6. post' = [post EXCEPT ![p] = e] /\ post \in [Phones -> PostRecord]
    BY <1>7 DEF PairingTypes
  <2> HIDE DEF d, e
  <2>7. PostOnly(p) /\ post'[p] = e
    BY <2>5, <2>6 DEF PostOnly
  <2>8. Renews(v, c, d)
    BY <1>3, <2>1, <2>2, <2>3, <2>4 DEF Renews
  <2> QED BY <1>7, <2>1, <2>2, <2>3, <2>4, <2>5, <2>7, <2>8 DEF RedeemRight
<1> QED BY <1>1, <1>4, <1>5, <1>6, <1>7

\* A code gets older.
LEMMA AgesEffect ==
  ASSUME PairingTypes, CodeAges
  PROVE  /\ events' = events + 1 /\ UNCHANGED <<key, laptop, shown, post, posts, rows, made, jar, told, revoke>>
         /\ \E v \in Versions : BoardOnly(v) /\ board'[v].fails = board[v].fails /\ \E c, d \in CodeRecord : Renews(v, c, d)
<1>0. PICK v \in Versions : \E c \in board[v].codes : c.age # "old" /\ board' = [board EXCEPT ![v] = Aged(@, c)]
  BY DEF CodeAges, Versions
<1>1. PICK c \in board[v].codes : c.age # "old" /\ board' = [board EXCEPT ![v] = Aged(@, c)]
  BY <1>0
<1>2. board \in [Versions -> BoardRecord] /\ board[v] \in BoardRecord /\ c \in CodeRecord
  BY DEF PairingTypes, BoardRecord
<1>3. PICK d \in CodeRecord : d.id = c.id /\ ~Usable(d) /\ Aged(board[v], c).codes = (board[v].codes \ {c}) \cup {d}
  BY <1>1, <1>2, AgedEffect
<1>4. Aged(board[v], c) \in BoardRecord /\ Aged(board[v], c).fails = board[v].fails
  BY <1>1, <1>2, AgedEffect
<1>5. BoardOnly(v) /\ board'[v] = Aged(board[v], c)
  BY <1>1, <1>2, <1>4 DEF BoardOnly
<1> QED BY <1>2, <1>3, <1>4, <1>5 DEF CodeAges, Renews

\* The first wrong try of a phone gets older than a minute.
LEMMA WindowEffect ==
  ASSUME PairingTypes, NEW p \in Phones, WindowEnds(p)
  PROVE  /\ events' = events + 1 /\ UNCHANGED <<key, laptop, shown, post, posts, rows, made, jar, told, revoke>>
         /\ \E v \in Versions : BoardOnly(v) /\ board'[v].fails = board[v].fails /\ board'[v].codes \subseteq board[v].codes
<1>1. PICK v \in Versions : board' = [board EXCEPT ![v].tries[p].late = TRUE]
  BY DEF WindowEnds, Versions
<1>2. board \in [Versions -> BoardRecord] /\ board[v] \in BoardRecord
  BY DEF PairingTypes
<1> DEFINE t == [board[v].tries[p] EXCEPT !.late = TRUE]
           ts == [board[v].tries EXCEPT ![p] = t]
           e == [board[v] EXCEPT !.tries = ts]
<1>3. t \in TryRecord
  BY ZenonT(40), <1>2 DEF BoardRecord, TryRecord
<1> HIDE DEF t
<1>4. ts \in [Phones -> TryRecord]
  BY <1>2, <1>3 DEF BoardRecord
<1> HIDE DEF ts
<1>5. e \in BoardRecord /\ e.codes = board[v].codes /\ e.fails = board[v].fails
  BY <1>2, <1>4 DEF BoardRecord
<1>6. board' = [board EXCEPT ![v] = e]
  BY <1>1, <1>2 DEF t, ts, BoardRecord
<1> HIDE DEF e
<1>7. BoardOnly(v) /\ board'[v] = e
  BY <1>2, <1>5, <1>6 DEF BoardOnly
<1> QED BY <1>5, <1>7 DEF WindowEnds

LEMMA RestartEffect ==
  ASSUME PairingTypes, RestartBoard
  PROVE  /\ events' = events + 1 /\ UNCHANGED <<key, laptop, shown, posts, rows, made, jar, told>>
         /\ board' \in [Versions -> BoardRecord] /\ \A v \in Versions : board'[v].codes = {}
         /\ post' = [p \in Phones |-> NoPost] /\ post' \in [Phones -> PostRecord] /\ revoke' = NoRevoke
<1>1. NewBoard \in BoardRecord /\ NewBoard.codes = {}
  <2>1. 0 \in 0 .. PairFails - 1
    BY PairingNumbers
  <2> QED BY <2>1, NoTryType DEF NewBoard, BoardRecord
<1>2. NoPost \in PostRecord
  BY DEF NoPost, Wrong, PostRecord
<1> QED BY <1>1, <1>2 DEF RestartBoard, Versions

\* A request comes in.
LEMMA PostEffect ==
  ASSUME PairingTypes, NEW p \in Phones, PostCode(p)
  PROVE  /\ posts' = posts + 1 /\ UNCHANGED <<key, laptop, board, shown, events, rows, made, jar, told, revoke>>
         /\ post[p].at = "idle" /\ PostOnly(p) /\ post'[p].at = "redeem" /\ post'[p].id = posts + 1
         /\ post'[p].typed \in 0 .. shown /\ post'[p].key = key[Own] /\ post'[p].was = key /\ post'[p].got = {}
<1>1. PICK typed \in {Wrong} \cup 1 .. shown :
        post' = [post EXCEPT ![p] = [NoPost EXCEPT !.at = "redeem", !.id = posts + 1, !.typed = typed, !.key = key[Own], !.was = key]]
  BY DEF PostCode
<1> DEFINE e == [NoPost EXCEPT !.at = "redeem", !.id = posts + 1, !.typed = typed, !.key = key[Own], !.was = key]
<1>2. shown \in 0 .. MaxCodes /\ MaxCodes \in Nat /\ posts \in Nat /\ key \in [Fleets -> Nat] /\ key[Own] \in Nat
  BY PairingNumbers DEF PairingTypes, Versions
<1>3. typed \in 0 .. shown /\ typed \in Nat
  BY <1>2 DEF Wrong
<1>4. /\ e \in PostRecord /\ e.at = "redeem" /\ e.id = posts + 1 /\ e.typed = typed /\ e.key = key[Own] /\ e.was = key
      /\ e.got = {}
  <2>1. NoPost \in PostRecord /\ NoPost.got = {}
    BY PostFields
  <2> DEFINE n == posts + 1
             k == key[Own]
  <2>2. n \in Nat /\ k \in Nat
    BY <1>2
  <2>3. e = [NoPost EXCEPT !.at = "redeem", !.id = n, !.typed = typed, !.key = k, !.was = key]
    OBVIOUS
  <2> HIDE DEF n, k, e
  <2>4. e.at = "redeem" /\ e.id = n /\ e.typed = typed /\ e.key = k /\ e.was = key /\ e.got = {}
    BY <2>1, <2>3 DEF PostRecord
  <2>5. e \in PostRecord
    BY <1>2, <1>3, <2>1, <2>2, <2>3 DEF PostRecord
  <2> QED BY <2>4, <2>5 DEF n, k
<1>5. post' = [post EXCEPT ![p] = e] /\ post \in [Phones -> PostRecord]
  BY <1>1 DEF PairingTypes
<1> HIDE DEF e
<1>6. PostOnly(p) /\ post'[p] = e
  BY <1>4, <1>5 DEF PostOnly
<1> QED BY <1>3, <1>4, <1>6 DEF PostCode

\* The fields of a request that a fleet of its code leaves.
FleetLeaves(p, f) == /\ PostOnly(p) /\ post[p].at = "grant" /\ f \in post[p].todo
                     /\ post'[p].at = "grant" /\ post'[p].id = post[p].id /\ post'[p].typed = post[p].typed
                     /\ post'[p].key = post[p].key /\ post'[p].was = post[p].was /\ post'[p].todo = post[p].todo \ {f}

LEMMA FirstOf == ASSUME NEW S, NEW f \in First(S) PROVE f \in S
  BY DEF First

LEMMA PairFleetEffect ==
  ASSUME PairingTypes, Posting, RowsNumbered, NEW p \in Phones, PairFleet(p)
  PROVE  /\ UNCHANGED <<key, laptop, board, shown, posts, events, jar, told, revoke>>
         /\ \E r \in RowRecord :
              /\ FleetLeaves(p, r.fleet) /\ r.label = post[p].id /\ r.row = Cardinality(made) + 1
              /\ r.code = post[p].typed /\ HashedBetween(r, post[p].was[r.fleet])
              /\ rows' = rows \cup {r} /\ made' = made \cup {r} /\ post'[p].got = post[p].got \cup {r}
<1>1. PICK f \in First(post[p].todo) :
        /\ rows' = rows \cup {AddDevice(p, f)} /\ made' = made \cup {AddDevice(p, f)}
        /\ post' = [post EXCEPT ![p].todo = @ \ {f}, ![p].got = @ \cup {AddDevice(p, f)}]
  BY DEF PairFleet
<1> DEFINE r == AddDevice(p, f)
           t == post[p].todo \ {f}
           g == post[p].got \cup {r}
           e == [post[p] EXCEPT !.todo = t, !.got = g]
<1>2. f \in post[p].todo /\ post[p] \in PostRecord /\ f \in Fleets /\ post[p].at = "grant"
  BY FirstOf, PostFields DEF PostRecord, PairFleet
<1>3. /\ post[p].key \in Versions /\ post[p].key = post[p].was[Own] /\ \A h \in Fleets : post[p].was[h] <= key[h]
      /\ key \in [Fleets -> Nat] /\ post[p].was \in [Fleets -> Nat] /\ post[p].id \in Nat /\ post[p].typed \in Nat
  <2>1. /\ post[p].key \in Versions /\ post[p].key = post[p].was[Own] /\ \A h \in Fleets : post[p].was[h] <= key[h]
    BY <1>2 DEF Posting
  <2>2. key \in [Fleets -> Nat]
    BY DEF PairingTypes, Versions
  <2> QED BY <1>2, <2>1, <2>2 DEF PostRecord
<1>4. /\ SecretHash(p, f) \in Nat /\ post[p].was[f] <= SecretHash(p, f) /\ SecretHash(p, f) <= key[f]
  BY <1>2, <1>3 DEF SecretHash, Versions
<1>5. Cardinality(made) \in Nat
  BY FS_CardinalityType DEF RowsNumbered
<1>6. /\ r \in RowRecord /\ r.fleet = f /\ r.label = post[p].id /\ r.row = Cardinality(made) + 1 /\ r.code = post[p].typed
      /\ r.hash = SecretHash(p, f)
  BY <1>2, <1>3, <1>4, <1>5 DEF AddDevice, RowRecord
<1>7. post' = [post EXCEPT ![p] = e] /\ post \in [Phones -> PostRecord]
  BY <1>1 DEF PairingTypes
<1> HIDE DEF r
<1>8. t \in SUBSET Fleets /\ g \in SUBSET RowRecord
  BY <1>2, <1>6 DEF PostRecord
<1> HIDE DEF t, g
<1>9. /\ e \in PostRecord /\ e.at = post[p].at /\ e.id = post[p].id /\ e.typed = post[p].typed /\ e.key = post[p].key
      /\ e.was = post[p].was /\ e.todo = t /\ e.got = g
  BY <1>2, <1>8 DEF PostRecord
<1> HIDE DEF e
<1>10. PostOnly(p) /\ post'[p] = e
  BY <1>7, <1>9 DEF PostOnly
<1>11. FleetLeaves(p, r.fleet) /\ post'[p].got = g
  BY <1>2, <1>6, <1>9, <1>10 DEF FleetLeaves, t
<1>12. HashedBetween(r, post[p].was[r.fleet])
  BY <1>4, <1>6 DEF HashedBetween
<1> QED BY <1>1, <1>6, <1>11, <1>12 DEF PairFleet, r, g

LEMMA MissEffect ==
  ASSUME PairingTypes, NEW p \in Phones, MissFleet(p)
  PROVE  /\ UNCHANGED <<key, laptop, board, shown, posts, rows, made, jar, told, revoke>> /\ events' = events + 1
         /\ \E f \in Fleets : FleetLeaves(p, f) /\ post'[p].got = post[p].got
<1>1. PICK f \in First(post[p].todo) : post' = [post EXCEPT ![p].todo = @ \ {f}]
  BY DEF MissFleet
<1> DEFINE t == post[p].todo \ {f}
           e == [post[p] EXCEPT !.todo = t]
<1>2. f \in post[p].todo /\ post[p] \in PostRecord /\ f \in Fleets
  BY FirstOf, PostFields DEF PostRecord
<1>3. t \in SUBSET Fleets
  BY <1>2 DEF PostRecord
<1>4. post' = [post EXCEPT ![p] = e] /\ post \in [Phones -> PostRecord]
  BY <1>1 DEF PairingTypes
<1> HIDE DEF t
<1>5. /\ e \in PostRecord /\ e.at = post[p].at /\ e.id = post[p].id /\ e.typed = post[p].typed /\ e.key = post[p].key
      /\ e.was = post[p].was /\ e.todo = t /\ e.got = post[p].got
  BY <1>2, <1>3 DEF PostRecord
<1> HIDE DEF e
<1>6. PostOnly(p) /\ post'[p] = e
  BY <1>4, <1>5 DEF PostOnly
<1> QED BY <1>2, <1>5, <1>6 DEF MissFleet, FleetLeaves, t

\* The answer comes: a cookie for every fleet that was paired.
LEMMA AnswerEffect2 ==
  ASSUME PairingTypes, NEW p \in Phones, AnswerPair(p)
  PROVE  /\ UNCHANGED <<key, laptop, board, shown, posts, events, rows, made, told, revoke>>
         /\ post[p].at = "grant" /\ post' = [post EXCEPT ![p] = NoPost]
         /\ jar' \in [Phones -> [Fleets -> CookieRecord]] /\ \A q \in Phones \ {p} : jar'[q] = jar[q]
         /\ \A f \in Fleets : \/ jar'[p][f] = jar[p][f] /\ \A r \in post[p].got : r.fleet # f
                              \/ \E r \in post[p].got : /\ r.fleet = f /\ jar'[p][f].row = r.row
                                                        /\ jar'[p][f].was = post[p].was[f]
<1> DEFINE of(f) == CHOOSE r \in post[p].got : r.fleet = f
           c(f) == IF \E r \in post[p].got : r.fleet = f THEN [row |-> of(f).row, was |-> post[p].was[f]] ELSE jar[p][f]
           j == [f \in Fleets |-> c(f)]
<1>1. post[p].got \subseteq RowRecord /\ post[p].was \in [Fleets -> Nat] /\ jar \in [Phones -> [Fleets -> CookieRecord]]
  BY PostFields DEF PairingTypes, PostRecord
<1>2. ASSUME NEW f \in Fleets, NEW r \in post[p].got, r.fleet = f
      PROVE  of(f) \in post[p].got /\ of(f).fleet = f
  BY <1>2
<1> HIDE DEF of
<1>3. ASSUME NEW f \in Fleets
      PROVE  /\ c(f) \in CookieRecord
             /\ \/ c(f) = jar[p][f] /\ \A r \in post[p].got : r.fleet # f
                \/ \E r \in post[p].got : r.fleet = f /\ c(f).row = r.row /\ c(f).was = post[p].was[f]
  <2>1. CASE \E r \in post[p].got : r.fleet = f
    <3>1. of(f) \in post[p].got /\ of(f).fleet = f
      BY <1>2, <2>1
    <3>2. of(f).row \in Nat /\ post[p].was[f] \in Nat
      BY <1>1, <3>1 DEF RowRecord
    <3>3. c(f) = [row |-> of(f).row, was |-> post[p].was[f]]
      BY <2>1
    <3> HIDE DEF c
    <3>4. c(f) \in CookieRecord /\ c(f).row = of(f).row /\ c(f).was = post[p].was[f]
      BY <3>2, <3>3 DEF CookieRecord
    <3> QED BY <3>1, <3>4
  <2>2. CASE \A r \in post[p].got : r.fleet # f
    BY <1>1, <2>2
  <2> QED BY <2>1, <2>2
<1>4. jar' = [jar EXCEPT ![p] = j]
  BY DEF AnswerPair, Cookies, of
<1> HIDE DEF c
<1>5. j \in [Fleets -> CookieRecord] /\ \A f \in Fleets : j[f] = c(f)
  BY <1>3
<1> HIDE DEF j
<1>6. jar' \in [Phones -> [Fleets -> CookieRecord]] /\ jar'[p] = j /\ \A q \in Phones \ {p} : jar'[q] = jar[q]
  BY <1>1, <1>4, <1>5
<1>7. /\ UNCHANGED <<key, laptop, board, shown, posts, events, rows, made, told, revoke>>
      /\ post[p].at = "grant" /\ post' = [post EXCEPT ![p] = NoPost]
  BY DEF AnswerPair
<1>8. \A f \in Fleets : jar'[p][f] = c(f)
  BY <1>5, <1>6
<1>9. \A f \in Fleets : \/ jar'[p][f] = jar[p][f] /\ \A r \in post[p].got : r.fleet # f
                        \/ \E r \in post[p].got : r.fleet = f /\ jar'[p][f].row = r.row /\ jar'[p][f].was = post[p].was[f]
  <2> SUFFICES ASSUME NEW f \in Fleets
               PROVE  \/ jar'[p][f] = jar[p][f] /\ \A r \in post[p].got : r.fleet # f
                      \/ \E r \in post[p].got : r.fleet = f /\ jar'[p][f].row = r.row /\ jar'[p][f].was = post[p].was[f]
    OBVIOUS
  <2>1. jar'[p][f] = c(f)
    BY <1>8
  <2>2. \/ c(f) = jar[p][f] /\ \A r \in post[p].got : r.fleet # f
        \/ \E r \in post[p].got : r.fleet = f /\ c(f).row = r.row /\ c(f).was = post[p].was[f]
    BY <1>3
  <2> QED BY <2>1, <2>2
<1> QED BY <1>6, <1>7, <1>9

LEMMA StartEffect ==
  ASSUME PairingTypes, StartRevoke
  PROVE  /\ UNCHANGED <<key, laptop, board, shown, post, posts, rows, made, jar, told>>
         /\ revoke' \in AskedRevoke /\ revoke'.done = {}
         /\ \E r \in rows : revoke'.label = r.label
         /\ ~revoke'.racing => \A p \in Phones : post[p].id # revoke'.label
<1> DEFINE signedIn == {f \in Fleets : SignedIn(f)}
<1>1. PICK r \in rows : revoke' = [NoRevoke EXCEPT !.at = "revoke", !.label = r.label, !.todo = signedIn,
                                                   !.racing = \E p \in Phones : post[p].id = r.label]
  <2>1. PICK label \in {r.label : r \in {r \in rows : r.fleet \in signedIn}} :
          revoke' = [NoRevoke EXCEPT !.at = "revoke", !.label = label, !.todo = signedIn,
                                     !.racing = \E p \in Phones : post[p].id = label]
    BY DEF StartRevoke
  <2>2. PICK r \in rows : label = r.label
    OBVIOUS
  <2> QED BY <2>1, <2>2
<1>2. signedIn \in SUBSET Fleets /\ r.label \in Nat
  BY DEF PairingTypes, RowRecord
<1> HIDE DEF signedIn
<1> DEFINE n == r.label
           b == \E p \in Phones : post[p].id = n
<1>3. b \in BOOLEAN /\ (~b => \A p \in Phones : post[p].id # n)
  OBVIOUS
<1> HIDE DEF b
<1>4. revoke' = [NoRevoke EXCEPT !.at = "revoke", !.label = n, !.todo = signedIn, !.racing = b]
  BY <1>1 DEF b
<1> HIDE DEF n
<1>5. revoke' \in AskedRevoke /\ revoke'.done = {} /\ revoke'.label = n /\ revoke'.racing = b
  BY <1>2, <1>3, <1>4 DEF NoRevoke, AskedRevoke, n
<1> QED BY <1>3, <1>5 DEF StartRevoke, n

LEMMA RevokeFleetEffect ==
  ASSUME PairingTypes, RevokeFleet
  PROVE  /\ UNCHANGED <<key, laptop, board, shown, post, posts, made, jar, told>>
         /\ revoke' \in AskedRevoke /\ revoke'.at = "revoke" /\ revoke.at = "revoke" /\ revoke'.label = revoke.label
         /\ revoke'.racing = revoke.racing
         /\ \/ revoke'.failed /\ UNCHANGED rows
            \/ \E f \in Fleets : /\ revoke'.done = revoke.done \cup {f} /\ revoke'.failed = revoke.failed
                                 /\ rows' = {r \in rows : r.fleet # f \/ r.label # revoke.label}
<1>1. PICK f \in First(revoke.todo) : \/ rows' = RevokePhone(f) /\ revoke' = Revoked(f)
                                      \/ revoke' = RevokeMissed(f) /\ UNCHANGED rows
  BY DEF RevokeFleet
<1>2. revoke \in AskedRevoke /\ f \in Fleets
  BY FirstOf DEF PairingTypes, AskedRevoke
<1> DEFINE t == revoke.todo \ {f}
           d == revoke.done \cup {f}
<1>3. t \in SUBSET Fleets /\ d \in SUBSET Fleets
  BY <1>2 DEF AskedRevoke
<1>4. Revoked(f) = [revoke EXCEPT !.todo = t, !.done = d]
  BY DEF Revoked
<1> HIDE DEF t, d
<1>5. /\ Revoked(f) \in AskedRevoke /\ Revoked(f).at = revoke.at /\ Revoked(f).label = revoke.label
      /\ Revoked(f).racing = revoke.racing /\ Revoked(f).failed = revoke.failed /\ Revoked(f).done = d
  BY <1>2, <1>3, <1>4 DEF AskedRevoke
<1>6. /\ RevokeMissed(f) \in AskedRevoke /\ RevokeMissed(f).at = revoke.at /\ RevokeMissed(f).label = revoke.label
      /\ RevokeMissed(f).racing = revoke.racing /\ RevokeMissed(f).failed
  BY <1>5 DEF RevokeMissed, AskedRevoke
<1>7. /\ UNCHANGED <<key, laptop, board, shown, post, posts, made, jar, told>> /\ revoke.at = "revoke"
  BY DEF RevokeFleet
<1> QED BY <1>1, <1>2, <1>5, <1>6, <1>7 DEF RevokePhone, d

LEMMA KeyEffect ==
  ASSUME PairingTypes, NEW f \in Fleets, ChangeKey(f)
  PROVE  /\ UNCHANGED <<laptop, board, shown, post, posts, rows, made, jar, told, revoke>> /\ events' = events + 1
         /\ key' \in [Fleets -> Versions] /\ \A g \in Fleets : key[g] <= key'[g] /\ key[g] \in Nat
  BY PairingNumbers DEF ChangeKey, PairingTypes, Versions
-----------------------------------------------------------------------------
(* PhonePairing: every step keeps every part of the invariant *)

LEMMA PairingTypesStep ==
  ASSUME PairingInv, [PairingNext]_pVars
  PROVE  PairingTypes'
<1>0. /\ PairingTypes /\ CodesKnown /\ Tallied /\ TakenOnce /\ Grants /\ CodeOnce /\ RowsNumbered
      /\ Posting /\ Got /\ Jarred /\ RevokedSoFar
  BY DEF PairingInv
<1>u. ASSUME UNCHANGED <<key, board, shown, post, posts, events, rows, made, jar, told, revoke>>
      PROVE  PairingTypes'
  BY <1>0, <1>u DEF PairingTypes
<1>1. ASSUME NEW chosen \in SUBSET Others, ShowCode(chosen)
      PROVE  PairingTypes'
  BY <1>0, <1>1, ShowEffect DEF ShowCode, BoardOnly, PostOnly, PairingTypes
<1>2. ASSUME NEW p \in Phones, PostCode(p)
      PROVE  PairingTypes'
  BY <1>0, <1>2, PostEffect DEF BoardOnly, PostOnly, PairingTypes
<1>3. ASSUME NEW p \in Phones, Redeem(p)
      PROVE  PairingTypes'
  <2>1. /\ board' \in [Versions -> BoardRecord]
        /\ UNCHANGED <<key, laptop, shown, posts, events, rows, made, jar, revoke>>
    BY <1>0, <1>3, RedeemEffect DEF BoardOnly
  <2>2. post' \in [Phones -> PostRecord] /\ told' \in [Codes -> Nat]
    BY <1>0, <1>3, RedeemEffect, OverEffect DEF RedeemMissed, RedeemWrong, RedeemRight, PostOnly,
       PairingTypes
  <2> QED BY <1>0, <2>1, <2>2 DEF PairingTypes
<1>4. ASSUME NEW p \in Phones, PairFleet(p)
      PROVE  PairingTypes'
  BY <1>0, <1>4, PairFleetEffect DEF FleetLeaves, BoardOnly, PostOnly, PairingTypes
<1>5. ASSUME NEW p \in Phones, MissFleet(p)
      PROVE  PairingTypes'
  BY <1>0, <1>5, MissEffect DEF FleetLeaves, BoardOnly, PostOnly, PairingTypes
<1>6. ASSUME NEW p \in Phones, AnswerPair(p)
      PROVE  PairingTypes'
  BY <1>0, <1>6, AnswerEffect2, OverEffect DEF BoardOnly, PostOnly, PairingTypes
<1>7. ASSUME NEW p \in Phones, LoseAnswer(p)
      PROVE  PairingTypes'
  <2>1. UNCHANGED <<key, laptop, board, shown, posts, rows, made, jar, told, revoke>> /\ events' = events + 1
    BY <1>7 DEF LoseAnswer
  <2>2. PostOnly(p)
    BY <1>0, <1>7, OverEffect DEF LoseAnswer
  <2> QED BY <1>0, <2>1, <2>2 DEF PostOnly, PairingTypes
<1>8. ASSUME NEW p \in Phones, WindowEnds(p)
      PROVE  PairingTypes'
  BY <1>0, <1>8, WindowEffect DEF BoardOnly, PostOnly, PairingTypes
<1>9. ASSUME StartRevoke
      PROVE  PairingTypes'
  <2>1. UNCHANGED <<key, laptop, board, shown, post, posts, rows, made, jar, told>> /\ revoke' \in AskedRevoke /\ events' = events + 1
    BY <1>0, <1>9, StartEffect DEF StartRevoke
  <2> QED BY <1>0, <2>1 DEF PairingTypes
<1>10. ASSUME RevokeFleet
      PROVE  PairingTypes'
  <2>1. /\ UNCHANGED <<key, laptop, board, shown, post, posts, made, jar, told>> /\ revoke' \in AskedRevoke
        /\ events' = events \/ events' = events + 1
    BY <1>0, <1>10, RevokeFleetEffect DEF RevokeFleet
  <2>2. rows' \subseteq rows
    BY <1>0, <1>10, RevokeFleetEffect
  <2> QED BY <1>0, <2>1, <2>2 DEF PairingTypes
<1>11. ASSUME AnswerRevoke
      PROVE  PairingTypes'
  <2>1. NoRevoke \in AskedRevoke
    BY DEF NoRevoke, AskedRevoke
  <2> QED BY <1>0, <1>11, <2>1 DEF AnswerRevoke, PairingTypes
<1>12. ASSUME CodeAges
      PROVE  PairingTypes'
  BY <1>0, <1>12, AgesEffect DEF BoardOnly, PostOnly, PairingTypes
<1>13. ASSUME NEW f \in Fleets, ChangeKey(f)
      PROVE  PairingTypes'
  BY <1>0, <1>13, KeyEffect DEF BoardOnly, PostOnly, PairingTypes
<1>14. ASSUME RestartBoard
      PROVE  PairingTypes'
  <2>1. NoRevoke \in AskedRevoke
    BY DEF NoRevoke, AskedRevoke
  <2> QED BY <1>0, <1>14, <2>1, RestartEffect DEF PairingTypes
<1>15. CASE UNCHANGED pVars
  BY <1>u, <1>15 DEF pVars
<1> QED BY <1>1, <1>2, <1>3, <1>4, <1>5, <1>6, <1>7, <1>8, <1>9, <1>10, <1>11, <1>12, <1>13, <1>14,
   <1>15 DEF PairingNext

\* A board that only loses codes, or has one that can no longer be used.
LEMMA CodesKept ==
  ASSUME CodesKnown, UNCHANGED shown, NEW v \in Versions, BoardOnly(v),
         board'[v].codes \subseteq board[v].codes \/ \E c, d \in CodeRecord : Renews(v, c, d)
  PROVE  CodesKnown'
<1>1. CASE board'[v].codes \subseteq board[v].codes
  <2>1. \A w \in Versions : board'[w].codes \subseteq board[w].codes
    BY <1>1 DEF BoardOnly
  <2> QED BY <2>1 DEF CodesKnown
<1>2. ASSUME NEW c \in CodeRecord, NEW d \in CodeRecord, Renews(v, c, d)
      PROVE  CodesKnown'
  <2>1. \A w \in Versions : w # v => board'[w].codes = board[w].codes
    BY DEF BoardOnly
  <2>2. c \in board[v].codes /\ d.id = c.id /\ ~Usable(d) /\ \A x \in board'[v].codes : x = d \/ (x \in board[v].codes /\ x # c)
    BY <1>2 DEF Renews
  <2>3. ASSUME NEW w \in Versions, NEW x \in board'[w].codes
        PROVE  \E y \in board[w].codes : x.id = y.id /\ (Usable(x) => x = y) /\ (w # v \/ x # d => x = y /\ ~(w = v /\ y = c)) /\ (w = v /\ x = d => y = c)
    <3>1. CASE w # v
      BY <2>1, <2>3, <3>1
    <3>2. CASE w = v /\ x = d
      BY <2>2, <3>2
    <3>3. CASE w = v /\ x # d
      BY <2>2, <2>3, <3>3
    <3> QED BY <3>1, <3>2, <3>3
  <2>4. \A w \in Versions : \A x \in board'[w].codes : x.id <= shown
    BY <2>3 DEF CodesKnown
  <2>5. ASSUME NEW w \in Versions, NEW u \in Versions, NEW x \in board'[w].codes, NEW y \in board'[u].codes, x.id = y.id
        PROVE  w = u /\ x = y
    <3>1. PICK a \in board[w].codes : x.id = a.id /\ (w # v \/ x # d => x = a /\ ~(w = v /\ a = c)) /\ (w = v /\ x = d => a = c)
      BY <2>3
    <3>2. PICK b \in board[u].codes : y.id = b.id /\ (u # v \/ y # d => y = b /\ ~(u = v /\ b = c)) /\ (u = v /\ y = d => b = c)
      BY <2>3
    <3>3. w = u /\ a = b
      BY <2>5, <3>1, <3>2 DEF CodesKnown
    <3> QED BY <3>1, <3>2, <3>3
  <2>6. \A w \in Versions : \A x, y \in board'[w].codes : Usable(x) /\ Usable(y) => x = y
    BY <2>3 DEF CodesKnown
  <2> QED BY <2>4, <2>5, <2>6 DEF CodesKnown
<1> QED BY <1>1, <1>2

LEMMA CodesKnownStep ==
  ASSUME PairingInv, [PairingNext]_pVars
  PROVE  CodesKnown'
<1>0. /\ PairingTypes /\ CodesKnown /\ Tallied /\ TakenOnce /\ Grants /\ CodeOnce /\ RowsNumbered
      /\ Posting /\ Got /\ Jarred /\ RevokedSoFar
  BY DEF PairingInv
<1>u. ASSUME UNCHANGED <<board, shown>>
      PROVE  CodesKnown'
  BY <1>0, <1>u DEF CodesKnown
<1>1. ASSUME NEW chosen \in SUBSET Others, ShowCode(chosen)
      PROVE  CodesKnown'
  <2> DEFINE v == key[Own]
  <2>1. PICK c \in CodeRecord : /\ c.id = shown' /\ BoardOnly(v)
                                /\ board'[v].codes \subseteq {d \in board[v].codes : ~Usable(d)} \cup {c}
    BY <1>0, <1>1, ShowEffect
  <2>2. shown' = shown + 1 /\ shown \in Nat /\ v \in Versions
    BY <1>0, <1>1, ShowEffect, PairingNumbers DEF PairingTypes
  <2> HIDE DEF v
  <2>3. \A w \in Versions : \A x \in board'[w].codes : (x \in board[w].codes /\ (w = v => ~Usable(x))) \/ (w = v /\ x = c)
    BY <2>1 DEF BoardOnly
  <2>4. \A w \in Versions : \A x \in board[w].codes : x.id <= shown /\ x.id \in Nat
    BY <1>0 DEF CodesKnown, PairingTypes, BoardRecord, CodeRecord, Codes
  <2>5. \A w \in Versions : \A x \in board'[w].codes : x.id <= shown' /\ (x.id = shown' => w = v /\ x = c)
    BY <2>1, <2>2, <2>3, <2>4
  <2>6. ASSUME NEW w \in Versions, NEW u \in Versions, NEW x \in board'[w].codes, NEW y \in board'[u].codes, x.id = y.id
        PROVE  w = u /\ x = y
    <3>1. CASE x.id = shown'
      BY <2>5, <2>6, <3>1
    <3>2. CASE x.id # shown'
      <4>1. x \in board[w].codes /\ y \in board[u].codes
        BY <2>1, <2>3, <2>6, <3>2
      <4> QED BY <1>0, <2>6, <4>1 DEF CodesKnown
    <3> QED BY <3>1, <3>2
  <2>7. ASSUME NEW w \in Versions, NEW x \in board'[w].codes, NEW y \in board'[w].codes, Usable(x), Usable(y)
        PROVE  x = y
    BY <1>0, <2>3, <2>7 DEF CodesKnown
  <2> QED BY <2>5, <2>6, <2>7 DEF CodesKnown
<1>2. ASSUME NEW p \in Phones, Redeem(p)
      PROVE  CodesKnown'
  <2>1. post[p].key \in Versions /\ BoardOnly(post[p].key) /\ UNCHANGED shown
    BY <1>0, <1>2, RedeemEffect DEF Posting
  <2>2. RedeemMissed(p) \/ RedeemWrong(p) \/ RedeemRight(p)
    BY <1>0, <1>2, RedeemEffect
  <2>3. board'[post[p].key].codes \subseteq board[post[p].key].codes \/ \E c, d \in CodeRecord : Renews(post[p].key, c, d)
    BY <2>2 DEF RedeemMissed, RedeemWrong, RedeemRight
  <2> QED BY <1>0, <2>1, <2>3, CodesKept
<1>3. ASSUME NEW p \in Phones, WindowEnds(p)
      PROVE  CodesKnown'
  BY <1>0, <1>3, WindowEffect, CodesKept
<1>4. ASSUME CodeAges
      PROVE  CodesKnown'
  BY <1>0, <1>4, AgesEffect, CodesKept
<1>5. ASSUME RestartBoard
      PROVE  CodesKnown'
  BY <1>0, <1>5, RestartEffect DEF CodesKnown
<1>6. CASE (\E p \in Phones : PostCode(p)) \/ (\E p \in Phones : PairFleet(p)) \/ (\E p \in Phones : MissFleet(p)) \/ (\E p \in Phones : AnswerPair(p)) \/ (\E p \in Phones : LoseAnswer(p)) \/ StartRevoke \/ RevokeFleet \/ AnswerRevoke \/ (\E f \in Fleets : ChangeKey(f)) \/ UNCHANGED pVars
  BY <1>u, <1>6 DEF PostCode, PairFleet, MissFleet, AnswerPair, LoseAnswer, StartRevoke,
     RevokeFleet, AnswerRevoke, ChangeKey, pVars
<1> QED BY <1>1, <1>2, <1>3, <1>4, <1>5, <1>6 DEF PairingNext

LEMMA TalliedStep ==
  ASSUME PairingInv, [PairingNext]_pVars
  PROVE  Tallied'
<1>0. /\ PairingTypes /\ CodesKnown /\ Tallied /\ TakenOnce /\ Grants /\ CodeOnce /\ RowsNumbered
      /\ Posting /\ Got /\ Jarred /\ RevokedSoFar
  BY DEF PairingInv
<1>u. ASSUME UNCHANGED <<board, shown, told>>
      PROVE  Tallied'
  BY <1>0, <1>u DEF Tallied
<1>s. told \in [Codes -> Nat] /\ shown \in Nat /\ \A v \in Versions : board[v].fails \in Nat /\ board[v].codes \subseteq CodeRecord
  BY <1>0, PairingNumbers DEF PairingTypes, BoardRecord
<1>k. ASSUME UNCHANGED <<shown, told>>, NEW v \in Versions, BoardOnly(v), board'[v].fails = board[v].fails,
             board'[v].codes \subseteq board[v].codes \/ \E c, d \in CodeRecord : Renews(v, c, d)
      PROVE  Tallied'
  <2>1. \A w \in Versions : \A x \in board'[w].codes : Usable(x) => x \in board[w].codes /\ board'[w].fails = board[w].fails
    BY <1>k DEF BoardOnly, Renews
  <2> QED BY <1>0, <1>k, <2>1 DEF Tallied
<1>1. ASSUME NEW chosen \in SUBSET Others, ShowCode(chosen)
      PROVE  Tallied'
  <2> DEFINE v == key[Own]
  <2>1. PICK c \in CodeRecord : /\ c.id = shown' /\ BoardOnly(v) /\ board'[v].fails = board[v].fails
                                /\ board'[v].codes \subseteq {d \in board[v].codes : ~Usable(d)} \cup {c}
    BY <1>0, <1>1, ShowEffect
  <2>2. shown' = shown + 1 /\ UNCHANGED told /\ v \in Versions /\ c.id \in Codes /\ shown' \in Codes
    BY <1>0, <1>1, <2>1, ShowEffect, PairingNumbers DEF ShowCode, PairingTypes, CodeRecord
  <2> HIDE DEF v
  <2>3. told[c.id] = 0
    BY <1>0, <1>s, <2>1, <2>2 DEF Tallied
  <2>4. ASSUME NEW w \in Versions, NEW x \in board'[w].codes, Usable(x)
        PROVE  told[x.id] <= board'[w].fails
    <3>1. CASE w # v
      BY <1>0, <2>1, <2>4, <3>1 DEF BoardOnly, Tallied
    <3>2. CASE w = v
      <4>1. x = c
        BY <2>1, <2>4, <3>2
      <4> QED BY <1>s, <2>1, <2>2, <2>3, <3>2, <4>1
    <3> QED BY <3>1, <3>2
  <2>5. \A k \in Codes : k > shown' => told[k] = 0
    BY <1>0, <1>s, <2>2 DEF Tallied, Codes
  <2> QED BY <2>2, <2>4, <2>5 DEF Tallied
<1>2. ASSUME NEW p \in Phones, Redeem(p)
      PROVE  Tallied'
  <2> DEFINE v == post[p].key
  <2>1. v \in Versions /\ BoardOnly(v) /\ UNCHANGED shown /\ (RedeemMissed(p) \/ RedeemWrong(p) \/ RedeemRight(p))
    BY <1>0, <1>2, RedeemEffect DEF Posting
  <2>2. CASE RedeemMissed(p)
    BY <1>k, <2>1, <2>2 DEF RedeemMissed
  <2>3. CASE RedeemWrong(p)
    <3>1. /\ board'[v].codes \subseteq board[v].codes /\ (board'[v].codes = {} \/ board'[v].fails = board[v].fails + 1)
          /\ \A k \in Codes : \/ told'[k] = told[k]
                              \/ told'[k] = told[k] + 1 /\ \E d \in board[v].codes : d.id = k /\ Usable(d)
      BY <2>3 DEF RedeemWrong
    <3> HIDE DEF v
    <3>2. ASSUME NEW w \in Versions, NEW x \in board'[w].codes, Usable(x)
          PROVE  told'[x.id] <= board'[w].fails
      <4>1. x \in board[w].codes /\ x.id \in Codes
        BY <1>s, <2>1, <3>1, <3>2 DEF BoardOnly, CodeRecord
      <4>2. told[x.id] <= board[w].fails /\ told[x.id] \in Nat /\ board[w].fails \in Nat
        BY <1>0, <1>s, <3>2, <4>1 DEF Tallied
      <4>3. CASE w = v
        <5>1. board'[v].fails = board[v].fails + 1 /\ (told'[x.id] = told[x.id] \/ told'[x.id] = told[x.id] + 1)
          BY <3>1, <3>2, <4>1, <4>3
        <5> QED BY <4>2, <4>3, <5>1
      <4>4. CASE w # v
        <5>1. \A d \in board[v].codes : d.id # x.id
          BY <1>0, <2>1, <4>1, <4>4 DEF CodesKnown
        <5>2. told'[x.id] = told[x.id] /\ board'[w] = board[w]
          BY <2>1, <3>1, <4>1, <4>4, <5>1 DEF BoardOnly
        <5> QED BY <4>2, <5>2
      <4> QED BY <4>3, <4>4
    <3>3. ASSUME NEW k \in Codes, k > shown
          PROVE  told'[k] = 0
      <4>1. \A d \in board[v].codes : d.id # k
        BY <1>0, <1>s, <2>1, <3>3 DEF CodesKnown, Codes, CodeRecord
      <4>2. told[k] = 0
        BY <1>0, <3>3 DEF Tallied
      <4> QED BY <3>1, <4>1, <4>2
    <3> QED BY <2>1, <3>2, <3>3 DEF Tallied
  <2>4. CASE RedeemRight(p)
    <3>1. PICK c \in CodeRecord, d \in CodeRecord : Usable(c) /\ Renews(v, c, d)
      BY <2>4 DEF RedeemRight
    <3>2. UNCHANGED told
      BY <2>4 DEF RedeemRight
    <3> HIDE DEF v
    <3>3. \A x \in board'[v].codes : ~Usable(x)
      BY <1>0, <2>1, <3>1 DEF Renews, CodesKnown
    <3>4. \A w \in Versions : \A x \in board'[w].codes : Usable(x) => x \in board[w].codes /\ board'[w] = board[w]
      BY <2>1, <3>3 DEF BoardOnly
    <3> QED BY <1>0, <2>1, <3>2, <3>4 DEF Tallied
  <2> QED BY <2>1, <2>2, <2>3, <2>4
<1>3. ASSUME NEW p \in Phones, WindowEnds(p)
      PROVE  Tallied'
  BY <1>0, <1>k, <1>3, WindowEffect
<1>4. ASSUME CodeAges
      PROVE  Tallied'
  BY <1>0, <1>k, <1>4, AgesEffect
<1>5. ASSUME RestartBoard
      PROVE  Tallied'
  BY <1>0, <1>5, RestartEffect DEF Tallied
<1>6. CASE (\E p \in Phones : PostCode(p)) \/ (\E p \in Phones : PairFleet(p)) \/ (\E p \in Phones : MissFleet(p)) \/ (\E p \in Phones : AnswerPair(p)) \/ (\E p \in Phones : LoseAnswer(p)) \/ StartRevoke \/ RevokeFleet \/ AnswerRevoke \/ (\E f \in Fleets : ChangeKey(f)) \/ UNCHANGED pVars
  BY <1>u, <1>6 DEF PostCode, PairFleet, MissFleet, AnswerPair, LoseAnswer, StartRevoke,
     RevokeFleet, AnswerRevoke, ChangeKey, pVars
<1> QED BY <1>1, <1>2, <1>3, <1>4, <1>5, <1>6 DEF PairingNext

LEMMA TakenOnceStep ==
  ASSUME PairingInv, [PairingNext]_pVars
  PROVE  TakenOnce'
<1>0. /\ PairingTypes /\ CodesKnown /\ Tallied /\ TakenOnce /\ Grants /\ CodeOnce /\ RowsNumbered
      /\ Posting /\ Got /\ Jarred /\ RevokedSoFar
  BY DEF PairingInv
<1>u. ASSUME UNCHANGED <<board, shown, made, post>>
      PROVE  TakenOnce'
  BY <1>0, <1>u DEF TakenOnce, Taken, Granting
<1>s. shown \in Nat
  BY <1>0, PairingNumbers DEF PairingTypes
<1>k. ASSUME Taken' \subseteq Taken, shown' \in {shown, shown + 1},
             \A w \in Versions : \A x \in board'[w].codes : Usable(x) => x \in board[w].codes \/ x.id = shown + 1
      PROVE  TakenOnce'
  <2>1. \A k \in Taken : k \in 1 .. shown' /\ k # shown + 1
    BY <1>0, <1>s, <1>k DEF TakenOnce
  <2> QED BY <1>0, <1>k, <2>1 DEF TakenOnce
<1>b. ASSUME NEW v \in Versions, BoardOnly(v), board'[v].codes \subseteq board[v].codes \/ \E c, d \in CodeRecord : Renews(v, c, d)
      PROVE  \A w \in Versions : \A x \in board'[w].codes : Usable(x) => x \in board[w].codes
  BY <1>b DEF BoardOnly, Renews
<1>o. ASSUME NEW p \in Phones, post' = [post EXCEPT ![p] = NoPost], UNCHANGED made
      PROVE  Taken' \subseteq Taken
  BY <1>0, <1>o, OverEffect DEF Taken, Granting, PostOnly
<1>1. ASSUME NEW chosen \in SUBSET Others, ShowCode(chosen)
      PROVE  TakenOnce'
  <2>1. PICK c \in CodeRecord : /\ c.id = shown' /\ BoardOnly(key[Own])
                                /\ board'[key[Own]].codes \subseteq {d \in board[key[Own]].codes : ~Usable(d)} \cup {c}
    BY <1>0, <1>1, ShowEffect
  <2>2. shown' = shown + 1 /\ UNCHANGED <<made, post>>
    BY <1>0, <1>1, ShowEffect DEF ShowCode
  <2>3. \A w \in Versions : \A x \in board'[w].codes : Usable(x) => x \in board[w].codes \/ x.id = shown + 1
    BY <2>1, <2>2 DEF BoardOnly
  <2>4. Taken' = Taken
    BY <2>2 DEF Taken, Granting
  <2> QED BY <1>k, <2>2, <2>3, <2>4
<1>2. ASSUME NEW p \in Phones, PostCode(p)
      PROVE  TakenOnce'
  <2>1. UNCHANGED <<board, shown, made>> /\ PostOnly(p) /\ post'[p].at = "redeem"
    BY <1>0, <1>2, PostEffect
  <2>2. Taken' \subseteq Taken
    BY <2>1 DEF Taken, Granting, PostOnly
  <2> QED BY <1>k, <2>1, <2>2
<1>3. ASSUME NEW p \in Phones, Redeem(p)
      PROVE  TakenOnce'
  <2> DEFINE v == post[p].key
  <2>1. v \in Versions /\ BoardOnly(v) /\ UNCHANGED <<shown, made>> /\ (RedeemMissed(p) \/ RedeemWrong(p) \/ RedeemRight(p))
    BY <1>0, <1>3, RedeemEffect DEF Posting
  <2>2. CASE RedeemMissed(p) \/ RedeemWrong(p)
    BY <1>b, <1>k, <1>o, <2>1, <2>2 DEF RedeemMissed, RedeemWrong
  <2>3. CASE RedeemRight(p)
    <3>1. PICK c \in CodeRecord, d \in CodeRecord : c.id = post[p].typed /\ Usable(c) /\ Renews(v, c, d)
      BY <2>3 DEF RedeemRight
    <3>2. PostOnly(p) /\ post'[p].typed = post[p].typed
      BY <2>3 DEF RedeemRight
    <3> HIDE DEF v
    <3>3. Taken' \subseteq Taken \cup {c.id}
      BY <2>1, <3>1, <3>2 DEF Taken, Granting, PostOnly
    <3>4. c \in board[v].codes /\ c.id \in 1 .. shown
      BY <1>0, <1>s, <2>1, <3>1 DEF Renews, CodesKnown, CodeRecord, Codes
    <3>5. ASSUME NEW w \in Versions, NEW x \in board'[w].codes, Usable(x)
          PROVE  x \in board[w].codes /\ x.id # c.id
      <4>1. x \in board[w].codes
        BY <1>b, <2>1, <3>1, <3>5
      <4>2. ~(w = v /\ x = c)
        BY <3>1, <3>5 DEF Renews
      <4> QED BY <1>0, <2>1, <3>4, <4>1, <4>2 DEF CodesKnown
    <3> QED BY <1>0, <2>1, <3>3, <3>4, <3>5 DEF TakenOnce
  <2> QED BY <2>1, <2>2, <2>3
<1>4. ASSUME NEW p \in Phones, PairFleet(p)
      PROVE  TakenOnce'
  <2>1. UNCHANGED <<board, shown>>
    BY <1>0, <1>4, PairFleetEffect
  <2>2. PICK r \in RowRecord : FleetLeaves(p, r.fleet) /\ r.code = post[p].typed /\ made' = made \cup {r}
    BY <1>0, <1>4, PairFleetEffect
  <2>3. Taken' \subseteq Taken
    BY <2>2 DEF FleetLeaves, PostOnly, Taken, Granting
  <2> QED BY <1>k, <2>1, <2>3
<1>5. ASSUME NEW p \in Phones, MissFleet(p)
      PROVE  TakenOnce'
  <2>1. UNCHANGED <<board, shown, made>> /\ \E f \in Fleets : FleetLeaves(p, f)
    BY <1>0, <1>5, MissEffect
  <2>2. Taken' \subseteq Taken
    BY <2>1 DEF FleetLeaves, PostOnly, Taken, Granting
  <2> QED BY <1>k, <2>1, <2>2
<1>6. ASSUME NEW p \in Phones, AnswerPair(p)
      PROVE  TakenOnce'
  BY <1>0, <1>k, <1>o, <1>6, AnswerEffect2
<1>7. ASSUME NEW p \in Phones, LoseAnswer(p)
      PROVE  TakenOnce'
  BY <1>k, <1>o, <1>7 DEF LoseAnswer
<1>8. ASSUME NEW p \in Phones, WindowEnds(p)
      PROVE  TakenOnce'
  <2>1. UNCHANGED <<shown, made, post>>
    BY <1>0, <1>8, WindowEffect
  <2>2. \A w \in Versions : \A x \in board'[w].codes : Usable(x) => x \in board[w].codes
    BY <1>0, <1>b, <1>8, WindowEffect
  <2>3. Taken' = Taken
    BY <2>1 DEF Taken, Granting
  <2> QED BY <1>k, <2>1, <2>2, <2>3
<1>9. ASSUME CodeAges
      PROVE  TakenOnce'
  <2>1. UNCHANGED <<shown, made, post>>
    BY <1>0, <1>9, AgesEffect
  <2>2. \A w \in Versions : \A x \in board'[w].codes : Usable(x) => x \in board[w].codes
    BY <1>0, <1>b, <1>9, AgesEffect
  <2>3. Taken' = Taken
    BY <2>1 DEF Taken, Granting
  <2> QED BY <1>k, <2>1, <2>2, <2>3
<1>10. ASSUME RestartBoard
      PROVE  TakenOnce'
  <2>1. UNCHANGED <<shown, made>> /\ (\A v \in Versions : board'[v].codes = {}) /\ \A p \in Phones : post'[p] = NoPost
    BY <1>0, <1>10, RestartEffect
  <2>2. Taken' \subseteq Taken
    BY <2>1 DEF Taken, Granting, NoPost
  <2> QED BY <1>k, <2>1, <2>2
<1>11. CASE StartRevoke \/ RevokeFleet \/ AnswerRevoke \/ (\E f \in Fleets : ChangeKey(f)) \/ UNCHANGED pVars
  BY <1>u, <1>11 DEF StartRevoke, RevokeFleet, AnswerRevoke, ChangeKey, pVars
<1> QED BY <1>1, <1>2, <1>3, <1>4, <1>5, <1>6, <1>7, <1>8, <1>9, <1>10, <1>11 DEF PairingNext

LEMMA GrantsStep ==
  ASSUME PairingInv, [PairingNext]_pVars
  PROVE  Grants'
<1>0. /\ PairingTypes /\ CodesKnown /\ Tallied /\ TakenOnce /\ Grants /\ CodeOnce /\ RowsNumbered
      /\ Posting /\ Got /\ Jarred /\ RevokedSoFar
  BY DEF PairingInv
<1>u. ASSUME UNCHANGED <<post, made>>
      PROVE  Grants'
  BY <1>0, <1>u DEF Grants, Granting
<1>k. ASSUME Granting' \subseteq Granting, \A p \in Granting' : post'[p] = post[p], UNCHANGED made
      PROVE  Grants'
  BY <1>0, <1>k DEF Grants
<1>o. ASSUME NEW p \in Phones, post' = [post EXCEPT ![p] = NoPost], UNCHANGED made
      PROVE  Grants'
  <2>1. Granting' \subseteq Granting /\ \A q \in Granting' : post'[q] = post[q]
    BY <1>0, <1>o, OverEffect DEF Granting, PostOnly
  <2> QED BY <1>k, <1>o, <2>1
<1>1. ASSUME NEW p \in Phones, PostCode(p)
      PROVE  Grants'
  <2>1. UNCHANGED made /\ PostOnly(p) /\ post'[p].at = "redeem"
    BY <1>0, <1>1, PostEffect
  <2>2. Granting' \subseteq Granting /\ \A q \in Granting' : post'[q] = post[q]
    BY <2>1 DEF Granting, PostOnly
  <2> QED BY <1>k, <2>1, <2>2
<1>2. ASSUME NEW p \in Phones, Redeem(p)
      PROVE  Grants'
  <2>1. UNCHANGED made /\ post[p].key \in Versions /\ (RedeemMissed(p) \/ RedeemWrong(p) \/ RedeemRight(p))
    BY <1>0, <1>2, RedeemEffect DEF Posting
  <2>2. CASE RedeemMissed(p) \/ RedeemWrong(p)
    BY <1>o, <2>1, <2>2 DEF RedeemMissed, RedeemWrong
  <2>3. CASE RedeemRight(p)
    <3>1. post[p].typed \notin Taken
      BY <1>0, <2>1, <2>3 DEF RedeemRight, Renews, TakenOnce
    <3>2. PostOnly(p) /\ post'[p].typed = post[p].typed
      BY <2>3 DEF RedeemRight
    <3>3. \A q \in Granting' : q # p => q \in Granting /\ post'[q] = post[q] /\ post[q].typed # post[p].typed
      BY <3>1, <3>2 DEF Granting, PostOnly, Taken
    <3>4. \A r \in made : r.code # post'[p].typed
      BY <3>1, <3>2 DEF Taken
    <3> QED BY <1>0, <2>1, <3>2, <3>3, <3>4 DEF Grants
  <2> QED BY <2>1, <2>2, <2>3
<1>3. ASSUME NEW p \in Phones, PairFleet(p)
      PROVE  Grants'
  <2>1. PICK r \in RowRecord : /\ FleetLeaves(p, r.fleet) /\ r.label = post[p].id /\ r.code = post[p].typed
                               /\ made' = made \cup {r}
    BY <1>0, <1>3, PairFleetEffect
  <2>2. /\ p \in Granting /\ Granting' = Granting /\ \A q \in Granting : q # p => post'[q] = post[q]
        /\ post'[p].typed = post[p].typed /\ post'[p].id = post[p].id /\ post'[p].todo = post[p].todo \ {r.fleet}
    BY <2>1 DEF FleetLeaves, PostOnly, Granting
  <2>3. \A q \in Granting : post'[q].typed = post[q].typed /\ post'[q].id = post[q].id /\ post'[q].todo \subseteq post[q].todo
    BY <2>2
  <2>4. ASSUME NEW q \in Granting, NEW s \in made', s.code = post[q].typed
        PROVE  s.label = post[q].id /\ s.fleet \notin post'[q].todo
    <3>1. CASE s \in made
      BY <1>0, <2>3, <2>4, <3>1 DEF Grants
    <3>2. CASE s = r
      <4>1. q = p
        BY <1>0, <2>1, <2>2, <2>4, <3>2 DEF Grants
      <4> QED BY <2>1, <2>2, <3>2, <4>1
    <3> QED BY <2>1, <3>1, <3>2
  <2>5. \A q, o \in Granting : post[q].typed = post[o].typed => q = o
    BY <1>0 DEF Grants
  <2> QED BY <2>2, <2>3, <2>4, <2>5 DEF Grants
<1>4. ASSUME NEW p \in Phones, MissFleet(p)
      PROVE  Grants'
  <2>1. UNCHANGED made /\ \E f \in Fleets : FleetLeaves(p, f)
    BY <1>0, <1>4, MissEffect
  <2>2. /\ Granting' = Granting
        /\ \A q \in Granting : post'[q].typed = post[q].typed /\ post'[q].id = post[q].id /\ post'[q].todo \subseteq post[q].todo
    BY <2>1 DEF FleetLeaves, PostOnly, Granting
  <2> QED BY <1>0, <2>1, <2>2 DEF Grants
<1>5. ASSUME NEW p \in Phones, AnswerPair(p)
      PROVE  Grants'
  BY <1>0, <1>o, <1>5, AnswerEffect2
<1>6. ASSUME NEW p \in Phones, LoseAnswer(p)
      PROVE  Grants'
  BY <1>o, <1>6 DEF LoseAnswer
<1>7. ASSUME RestartBoard
      PROVE  Grants'
  <2>1. \A p \in Phones : post'[p].at # "grant"
    BY <1>0, <1>7, RestartEffect DEF NoPost
  <2>2. Granting' = {}
    BY <2>1 DEF Granting
  <2> QED BY <2>2 DEF Grants
<1>8. CASE (\E chosen \in SUBSET Others : ShowCode(chosen)) \/ (\E p \in Phones : WindowEnds(p)) \/ StartRevoke \/ RevokeFleet \/ AnswerRevoke \/ CodeAges \/ (\E f \in Fleets : ChangeKey(f)) \/ UNCHANGED pVars
  BY <1>u, <1>8 DEF ShowCode, WindowEnds, StartRevoke, RevokeFleet, AnswerRevoke, CodeAges,
     ChangeKey, pVars
<1> QED BY <1>1, <1>2, <1>3, <1>4, <1>5, <1>6, <1>7, <1>8 DEF PairingNext

LEMMA CodeOnceStep ==
  ASSUME PairingInv, [PairingNext]_pVars
  PROVE  CodeOnce'
<1>0. /\ PairingTypes /\ CodesKnown /\ Tallied /\ TakenOnce /\ Grants /\ CodeOnce /\ RowsNumbered
      /\ Posting /\ Got /\ Jarred /\ RevokedSoFar
  BY DEF PairingInv
<1>u. ASSUME UNCHANGED <<made>>
      PROVE  CodeOnce'
  BY <1>0, <1>u DEF CodeOnce
<1>1. ASSUME NEW p \in Phones, PairFleet(p)
      PROVE  CodeOnce'
  <2>1. PICK r \in RowRecord : /\ FleetLeaves(p, r.fleet) /\ r.label = post[p].id /\ r.code = post[p].typed
                               /\ made' = made \cup {r}
    BY <1>0, <1>1, PairFleetEffect
  <2>2. p \in Granting /\ r.fleet \in post[p].todo
    BY <2>1 DEF FleetLeaves, Granting
  <2>3. \A s \in made : s.code = r.code => s.label = r.label /\ s.fleet # r.fleet
    BY <1>0, <2>1, <2>2 DEF Grants
  <2> QED BY <1>0, <2>1, <2>3 DEF CodeOnce
<1>2. CASE (\E chosen \in SUBSET Others : ShowCode(chosen)) \/ (\E p \in Phones : PostCode(p)) \/ (\E p \in Phones : Redeem(p)) \/ (\E p \in Phones : MissFleet(p)) \/ (\E p \in Phones : AnswerPair(p)) \/ (\E p \in Phones : LoseAnswer(p)) \/ (\E p \in Phones : WindowEnds(p)) \/ StartRevoke \/ RevokeFleet \/ AnswerRevoke \/ CodeAges \/ (\E f \in Fleets : ChangeKey(f)) \/ RestartBoard \/ UNCHANGED pVars
  BY <1>u, <1>2 DEF ShowCode, PostCode, Redeem, MissFleet, AnswerPair, LoseAnswer, WindowEnds,
     StartRevoke, RevokeFleet, AnswerRevoke, CodeAges, ChangeKey, RestartBoard, pVars
<1> QED BY <1>1, <1>2 DEF PairingNext

LEMMA RowsNumberedStep ==
  ASSUME PairingInv, [PairingNext]_pVars
  PROVE  RowsNumbered'
<1>0. /\ PairingTypes /\ CodesKnown /\ Tallied /\ TakenOnce /\ Grants /\ CodeOnce /\ RowsNumbered
      /\ Posting /\ Got /\ Jarred /\ RevokedSoFar
  BY DEF PairingInv
<1>u. ASSUME UNCHANGED <<made, posts>>
      PROVE  RowsNumbered'
  BY <1>0, <1>u DEF RowsNumbered
<1>1. ASSUME NEW p \in Phones, PostCode(p)
      PROVE  RowsNumbered'
  <2>1. UNCHANGED made /\ posts' = posts + 1 /\ posts \in Nat
    BY <1>0, <1>1, PostEffect DEF PairingTypes
  <2>2. \A r \in made : r.label \in 1 .. posts'
    BY <1>0, <2>1 DEF RowsNumbered
  <2> QED BY <1>0, <2>1, <2>2 DEF RowsNumbered
<1>2. ASSUME NEW p \in Phones, PairFleet(p)
      PROVE  RowsNumbered'
  <2>1. PICK r \in RowRecord : /\ FleetLeaves(p, r.fleet) /\ r.label = post[p].id /\ r.row = Cardinality(made) + 1
                               /\ made' = made \cup {r}
    BY <1>0, <1>2, PairFleetEffect
  <2>2. post[p].id \in 1 .. posts /\ UNCHANGED posts
    BY <1>0, <1>2, <2>1, PairFleetEffect DEF FleetLeaves, Posting
  <2> DEFINE n == Cardinality(made)
  <2>3. n \in Nat /\ IsFiniteSet(made) /\ \A s \in made : s.row \in 1 .. n /\ s.label \in 1 .. posts
    BY <1>0, FS_CardinalityType DEF RowsNumbered
  <2>4. r \notin made
    BY <2>1, <2>3
  <2>5. IsFiniteSet(made') /\ Cardinality(made') = n + 1
    BY <2>1, <2>3, <2>4, FS_AddElement
  <2> HIDE DEF n
  <2>6. \A s \in made' : s.row \in 1 .. (n + 1) /\ s.label \in 1 .. posts
    BY <2>1, <2>2, <2>3 DEF n
  <2>7. \A s, t \in made' : s.row = t.row => s = t
    <3>1. \A s \in made : s.row # n + 1
      BY <2>3
    <3> QED BY <1>0, <2>1, <3>1 DEF n, RowsNumbered
  <2> QED BY <2>2, <2>5, <2>6, <2>7 DEF RowsNumbered
<1>3. CASE (\E chosen \in SUBSET Others : ShowCode(chosen)) \/ (\E p \in Phones : Redeem(p)) \/ (\E p \in Phones : MissFleet(p)) \/ (\E p \in Phones : AnswerPair(p)) \/ (\E p \in Phones : LoseAnswer(p)) \/ (\E p \in Phones : WindowEnds(p)) \/ StartRevoke \/ RevokeFleet \/ AnswerRevoke \/ CodeAges \/ (\E f \in Fleets : ChangeKey(f)) \/ RestartBoard \/ UNCHANGED pVars
  BY <1>u, <1>3 DEF ShowCode, Redeem, MissFleet, AnswerPair, LoseAnswer, WindowEnds, StartRevoke,
     RevokeFleet, AnswerRevoke, CodeAges, ChangeKey, RestartBoard, pVars
<1> QED BY <1>1, <1>2, <1>3 DEF PairingNext

LEMMA PostingStep ==
  ASSUME PairingInv, [PairingNext]_pVars
  PROVE  Posting'
<1>0. /\ PairingTypes /\ CodesKnown /\ Tallied /\ TakenOnce /\ Grants /\ CodeOnce /\ RowsNumbered
      /\ Posting /\ Got /\ Jarred /\ RevokedSoFar
  BY DEF PairingInv
<1>u. ASSUME UNCHANGED <<post, posts, shown, key>>
      PROVE  Posting'
  BY <1>0, <1>u DEF Posting
<1>s. posts \in Nat /\ shown \in Nat /\ key \in [Fleets -> Nat]
  BY <1>0, PairingNumbers DEF PairingTypes, Versions
<1>t. \A q \in Phones : post[q].typed \in Nat /\ post[q].was \in [Fleets -> Nat]
  BY <1>0 DEF PairingTypes, PostRecord
<1>o. ASSUME NEW p \in Phones, post' = [post EXCEPT ![p] = NoPost], UNCHANGED <<posts, shown, key>>
      PROVE  Posting'
  BY <1>0, <1>o, OverEffect DEF PostOnly, Posting
<1>f. ASSUME NEW p \in Phones, NEW f \in Fleets, FleetLeaves(p, f), UNCHANGED <<posts, shown, key>>
      PROVE  Posting'
  BY <1>0, <1>f DEF FleetLeaves, PostOnly, Posting
<1>1. ASSUME NEW chosen \in SUBSET Others, ShowCode(chosen)
      PROVE  Posting'
  <2>1. shown' = shown + 1 /\ UNCHANGED <<post, posts, key>>
    BY <1>0, <1>1, ShowEffect DEF ShowCode
  <2> QED BY <1>0, <1>s, <1>t, <2>1 DEF Posting
<1>2. ASSUME NEW p \in Phones, PostCode(p)
      PROVE  Posting'
  <2>1. /\ posts' = posts + 1 /\ UNCHANGED <<shown, key>> /\ PostOnly(p) /\ post'[p].at = "redeem" /\ post'[p].id = posts + 1
        /\ post'[p].typed \in 0 .. shown /\ post'[p].key = key[Own] /\ post'[p].was = key /\ post'[p].got = {}
    BY <1>0, <1>2, PostEffect
  <2>2. key[Own] \in Versions
    BY <1>0, PairingNumbers DEF PairingTypes
  <2>3. ASSUME NEW q \in Phones \ {p}
        PROVE  /\ post[q].at = "idle" => post[q].id = 0
               /\ post[q].at # "idle" => /\ post[q].id \in 1 .. (posts + 1) /\ post[q].typed <= shown
                                         /\ post[q].key \in Versions /\ post[q].key = post[q].was[Own]
                                         /\ \A f \in Fleets : post[q].was[f] <= key[f]
               /\ post[q].at # "grant" => post[q].got = {}
    BY <1>0, <1>s DEF Posting
  <2>4. \A f \in Fleets : post'[p].was[f] <= key[f]
    BY <1>s, <2>1
  <2>5. post'[p].id \in 1 .. (posts + 1) /\ post'[p].typed <= shown
    BY <1>s, <2>1
  <2>6. \A q \in Phones \ {p} : post'[q] = post[q]
    BY <2>1 DEF PostOnly
  <2> QED BY <2>1, <2>2, <2>3, <2>4, <2>5, <2>6 DEF Posting
<1>3. ASSUME NEW p \in Phones, Redeem(p)
      PROVE  Posting'
  <2>1. UNCHANGED <<posts, shown, key>> /\ post[p].at = "redeem" /\ (RedeemMissed(p) \/ RedeemWrong(p) \/ RedeemRight(p))
    BY <1>0, <1>3, RedeemEffect
  <2>2. CASE RedeemMissed(p) \/ RedeemWrong(p)
    BY <1>o, <2>1, <2>2 DEF RedeemMissed, RedeemWrong
  <2>3. CASE RedeemRight(p)
    BY <1>0, <2>1, <2>3 DEF RedeemRight, PostOnly, Posting
  <2> QED BY <2>1, <2>2, <2>3
<1>4. ASSUME NEW p \in Phones, PairFleet(p)
      PROVE  Posting'
  <2>1. UNCHANGED <<posts, shown, key>> /\ \E r \in RowRecord : FleetLeaves(p, r.fleet)
    BY <1>0, <1>4, PairFleetEffect
  <2> QED BY <1>f, <2>1 DEF RowRecord
<1>5. ASSUME NEW p \in Phones, MissFleet(p)
      PROVE  Posting'
  BY <1>0, <1>f, <1>5, MissEffect
<1>6. ASSUME NEW p \in Phones, AnswerPair(p)
      PROVE  Posting'
  BY <1>0, <1>o, <1>6, AnswerEffect2
<1>7. ASSUME NEW p \in Phones, LoseAnswer(p)
      PROVE  Posting'
  BY <1>o, <1>7 DEF LoseAnswer
<1>8. ASSUME NEW f \in Fleets, ChangeKey(f)
      PROVE  Posting'
  <2>1. UNCHANGED <<post, posts, shown>> /\ key' \in [Fleets -> Nat] /\ \A g \in Fleets : key[g] <= key'[g] /\ key[g] \in Nat
    BY <1>0, <1>8, KeyEffect DEF Versions
  <2>2. \A q \in Phones : post[q].at # "idle" => \A g \in Fleets : post[q].was[g] <= key'[g]
    BY <1>0, <1>t, <2>1 DEF Posting
  <2> QED BY <1>0, <2>1, <2>2 DEF Posting
<1>9. ASSUME RestartBoard
      PROVE  Posting'
  <2>1. \A q \in Phones : post'[q].at = "idle" /\ post'[q].id = 0 /\ post'[q].got = {}
    BY <1>0, <1>9, RestartEffect DEF NoPost
  <2> QED BY <2>1 DEF Posting
<1>10. CASE (\E p \in Phones : WindowEnds(p)) \/ StartRevoke \/ RevokeFleet \/ AnswerRevoke \/ CodeAges \/ UNCHANGED pVars
  BY <1>u, <1>10 DEF WindowEnds, StartRevoke, RevokeFleet, AnswerRevoke, CodeAges, pVars
<1> QED BY <1>1, <1>2, <1>3, <1>4, <1>5, <1>6, <1>7, <1>8, <1>9, <1>10 DEF PairingNext

LEMMA GotStep ==
  ASSUME PairingInv, [PairingNext]_pVars
  PROVE  Got'
<1>0. /\ PairingTypes /\ CodesKnown /\ Tallied /\ TakenOnce /\ Grants /\ CodeOnce /\ RowsNumbered
      /\ Posting /\ Got /\ Jarred /\ RevokedSoFar
  BY DEF PairingInv
<1>u. ASSUME UNCHANGED <<post, made, key>>
      PROVE  Got'
  BY <1>0, <1>u DEF Got, HashedBetween
<1>k. ASSUME made \subseteq made', UNCHANGED key,
             \A q \in Phones : post'[q].got = {} \/ (post'[q].got = post[q].got /\ post'[q].typed = post[q].typed /\ post'[q].was = post[q].was)
      PROVE  Got'
  BY <1>0, <1>k DEF Got, HashedBetween
<1>o. ASSUME NEW p \in Phones, post' = [post EXCEPT ![p] = NoPost], UNCHANGED <<made, key>>
      PROVE  Got'
  BY <1>0, <1>k, <1>o, OverEffect DEF PostOnly
<1>1. ASSUME NEW p \in Phones, PostCode(p)
      PROVE  Got'
  BY <1>0, <1>k, <1>1, PostEffect DEF PostOnly
<1>2. ASSUME NEW p \in Phones, Redeem(p)
      PROVE  Got'
  <2>1. UNCHANGED <<made, key>> /\ (RedeemMissed(p) \/ RedeemWrong(p) \/ RedeemRight(p))
    BY <1>0, <1>2, RedeemEffect
  <2>2. CASE RedeemMissed(p) \/ RedeemWrong(p)
    BY <1>o, <2>1, <2>2 DEF RedeemMissed, RedeemWrong
  <2>3. CASE RedeemRight(p)
    BY <1>k, <2>1, <2>3 DEF RedeemRight, PostOnly
  <2> QED BY <2>1, <2>2, <2>3
<1>3. ASSUME NEW p \in Phones, PairFleet(p)
      PROVE  Got'
  <2>1. PICK r \in RowRecord : /\ FleetLeaves(p, r.fleet) /\ r.code = post[p].typed /\ HashedBetween(r, post[p].was[r.fleet])
                               /\ made' = made \cup {r} /\ post'[p].got = post[p].got \cup {r}
    BY <1>0, <1>3, PairFleetEffect
  <2>2. UNCHANGED key
    BY <1>0, <1>3, PairFleetEffect
  <2>3. /\ \A q \in Phones \ {p} : post'[q] = post[q]
        /\ post'[p].typed = post[p].typed /\ post'[p].was = post[p].was
    BY <2>1 DEF FleetLeaves, PostOnly
  <2>4. \A q \in Phones : \A s \in post'[q].got : s \in post[q].got \/ (q = p /\ s = r)
    BY <2>1, <2>3
  <2> QED BY <1>0, <2>1, <2>2, <2>3, <2>4 DEF Got, HashedBetween
<1>4. ASSUME NEW p \in Phones, MissFleet(p)
      PROVE  Got'
  <2>1. UNCHANGED <<made, key>> /\ \E f \in Fleets : FleetLeaves(p, f) /\ post'[p].got = post[p].got
    BY <1>0, <1>4, MissEffect
  <2> QED BY <1>k, <2>1 DEF FleetLeaves, PostOnly
<1>5. ASSUME NEW p \in Phones, AnswerPair(p)
      PROVE  Got'
  BY <1>0, <1>o, <1>5, AnswerEffect2
<1>6. ASSUME NEW p \in Phones, LoseAnswer(p)
      PROVE  Got'
  BY <1>o, <1>6 DEF LoseAnswer
<1>7. ASSUME NEW f \in Fleets, ChangeKey(f)
      PROVE  Got'
  <2>1. UNCHANGED <<post, made>> /\ key' \in [Fleets -> Nat] /\ \A g \in Fleets : key[g] <= key'[g] /\ key[g] \in Nat
    BY <1>0, <1>7, KeyEffect DEF Versions
  <2>2. \A r \in made : r.fleet \in Fleets /\ r.hash \in Nat
    BY <1>0 DEF PairingTypes, RowRecord
  <2>3. \A q \in Phones : \A r \in post[q].got : r \in made /\ r.code = post[q].typed /\ post[q].was[r.fleet] <= r.hash /\ r.hash <= key'[r.fleet]
    BY <1>0, <2>1, <2>2 DEF Got, HashedBetween
  <2> QED BY <2>1, <2>3 DEF Got, HashedBetween
<1>8. ASSUME RestartBoard
      PROVE  Got'
  <2>1. UNCHANGED <<made, key>> /\ \A q \in Phones : post'[q].got = {}
    BY <1>0, <1>8, RestartEffect DEF NoPost
  <2> QED BY <1>k, <2>1
<1>9. CASE (\E chosen \in SUBSET Others : ShowCode(chosen)) \/ (\E p \in Phones : WindowEnds(p)) \/ StartRevoke \/ RevokeFleet \/ AnswerRevoke \/ CodeAges \/ UNCHANGED pVars
  BY <1>u, <1>9 DEF ShowCode, WindowEnds, StartRevoke, RevokeFleet, AnswerRevoke, CodeAges, pVars
<1> QED BY <1>1, <1>2, <1>3, <1>4, <1>5, <1>6, <1>7, <1>8, <1>9 DEF PairingNext

LEMMA JarredStep ==
  ASSUME PairingInv, [PairingNext]_pVars
  PROVE  Jarred'
<1>0. /\ PairingTypes /\ CodesKnown /\ Tallied /\ TakenOnce /\ Grants /\ CodeOnce /\ RowsNumbered
      /\ Posting /\ Got /\ Jarred /\ RevokedSoFar
  BY DEF PairingInv
<1>u. ASSUME UNCHANGED <<jar, made, key>>
      PROVE  Jarred'
  BY <1>0, <1>u DEF Jarred, HashedBetween
<1>1. ASSUME NEW p \in Phones, PairFleet(p)
      PROVE  Jarred'
  <2>1. UNCHANGED <<jar, key>> /\ made \subseteq made'
    BY <1>0, <1>1, PairFleetEffect
  <2> QED BY <1>0, <2>1 DEF Jarred, HashedBetween
<1>2. ASSUME NEW p \in Phones, AnswerPair(p)
      PROVE  Jarred'
  <2>1. /\ UNCHANGED <<made, key>> /\ \A q \in Phones \ {p} : jar'[q] = jar[q]
        /\ \A f \in Fleets : \/ jar'[p][f] = jar[p][f]
                             \/ \E r \in post[p].got : /\ r.fleet = f /\ jar'[p][f].row = r.row
                                                       /\ jar'[p][f].was = post[p].was[f]
    BY <1>0, <1>2, AnswerEffect2
  <2> SUFFICES ASSUME NEW q \in Phones, NEW f \in Fleets, jar'[q][f].row # 0
               PROVE  \E r \in made : r.row = jar'[q][f].row /\ r.fleet = f /\ HashedBetween(r, jar'[q][f].was)
    BY <2>1 DEF Jarred, HashedBetween
  <2>2. CASE jar'[q][f] = jar[q][f]
    BY <1>0, <2>2 DEF Jarred
  <2>3. ASSUME q = p, NEW r \in post[p].got, r.fleet = f, jar'[p][f].row = r.row, jar'[p][f].was = post[p].was[f]
        PROVE  \E s \in made : s.row = jar'[q][f].row /\ s.fleet = f /\ HashedBetween(s, jar'[q][f].was)
    BY <1>0, <2>3 DEF Got
  <2> QED BY <2>1, <2>2, <2>3
<1>3. ASSUME NEW f \in Fleets, ChangeKey(f)
      PROVE  Jarred'
  <2>1. UNCHANGED <<jar, made>> /\ key' \in [Fleets -> Nat] /\ \A g \in Fleets : key[g] <= key'[g] /\ key[g] \in Nat
    BY <1>0, <1>3, KeyEffect DEF Versions
  <2>2. \A r \in made : r.fleet \in Fleets /\ r.hash \in Nat
    BY <1>0 DEF PairingTypes, RowRecord
  <2>3. \A r \in made : r.hash <= key[r.fleet] => r.hash <= key'[r.fleet]
    BY <2>1, <2>2
  <2> QED BY <1>0, <2>1, <2>3 DEF Jarred, HashedBetween
<1>4. CASE (\E chosen \in SUBSET Others : ShowCode(chosen)) \/ (\E p \in Phones : PostCode(p)) \/ (\E p \in Phones : Redeem(p)) \/ (\E p \in Phones : MissFleet(p)) \/ (\E p \in Phones : LoseAnswer(p)) \/ (\E p \in Phones : WindowEnds(p)) \/ StartRevoke \/ RevokeFleet \/ AnswerRevoke \/ CodeAges \/ RestartBoard \/ UNCHANGED pVars
  BY <1>u, <1>4 DEF ShowCode, PostCode, Redeem, MissFleet, LoseAnswer, WindowEnds, StartRevoke,
     RevokeFleet, AnswerRevoke, CodeAges, RestartBoard, pVars
<1> QED BY <1>1, <1>2, <1>3, <1>4 DEF PairingNext

LEMMA RevokedSoFarStep ==
  ASSUME PairingInv, [PairingNext]_pVars
  PROVE  RevokedSoFar'
<1>0. /\ PairingTypes /\ CodesKnown /\ Tallied /\ TakenOnce /\ Grants /\ CodeOnce /\ RowsNumbered
      /\ Posting /\ Got /\ Jarred /\ RevokedSoFar
  BY DEF PairingInv
<1>u. ASSUME UNCHANGED <<revoke, post, posts, rows>>
      PROVE  RevokedSoFar'
  BY <1>0, <1>u DEF RevokedSoFar
<1>s. posts \in Nat
  BY <1>0 DEF PairingTypes
<1>k. ASSUME UNCHANGED <<revoke, rows>>, posts' \in {posts, posts + 1}, \A q \in Phones : post'[q].id \in {0, posts + 1, post[q].id}
      PROVE  RevokedSoFar'
  <2>1. revoke.at = "revoke" => revoke.label \in 1 .. posts' /\ revoke.label # posts + 1 /\ revoke.label # 0
    BY <1>0, <1>s, <1>k DEF RevokedSoFar
  <2> QED BY <1>0, <1>k, <2>1 DEF RevokedSoFar
<1>o. ASSUME NEW p \in Phones, post' = [post EXCEPT ![p] = NoPost], UNCHANGED <<revoke, rows, posts>>
      PROVE  RevokedSoFar'
  BY <1>0, <1>k, <1>o, OverEffect DEF PostOnly
<1>1. ASSUME NEW p \in Phones, PostCode(p)
      PROVE  RevokedSoFar'
  <2>1. UNCHANGED <<revoke, rows>> /\ posts' = posts + 1 /\ PostOnly(p) /\ post'[p].id = posts + 1
    BY <1>0, <1>1, PostEffect
  <2> QED BY <1>k, <2>1 DEF PostOnly
<1>2. ASSUME NEW p \in Phones, Redeem(p)
      PROVE  RevokedSoFar'
  <2>1. UNCHANGED <<revoke, rows, posts>> /\ (RedeemMissed(p) \/ RedeemWrong(p) \/ RedeemRight(p))
    BY <1>0, <1>2, RedeemEffect
  <2>2. CASE RedeemMissed(p) \/ RedeemWrong(p)
    BY <1>o, <2>1, <2>2 DEF RedeemMissed, RedeemWrong
  <2>3. CASE RedeemRight(p)
    BY <1>k, <2>1, <2>3 DEF RedeemRight, PostOnly
  <2> QED BY <2>1, <2>2, <2>3
<1>3. ASSUME NEW p \in Phones, PairFleet(p)
      PROVE  RevokedSoFar'
  <2>1. UNCHANGED <<revoke, posts>>
    BY <1>0, <1>3, PairFleetEffect
  <2>2. PICK r \in RowRecord : FleetLeaves(p, r.fleet) /\ r.label = post[p].id /\ rows' = rows \cup {r}
    BY <1>0, <1>3, PairFleetEffect
  <2>3. \A q \in Phones : post'[q].id = post[q].id
    BY <2>2 DEF FleetLeaves, PostOnly
  <2> QED BY <1>0, <2>1, <2>2, <2>3 DEF RevokedSoFar
<1>4. ASSUME NEW p \in Phones, MissFleet(p)
      PROVE  RevokedSoFar'
  <2>1. UNCHANGED <<revoke, posts, rows>> /\ \E f \in Fleets : FleetLeaves(p, f)
    BY <1>0, <1>4, MissEffect
  <2> QED BY <1>k, <2>1 DEF FleetLeaves, PostOnly
<1>5. ASSUME NEW p \in Phones, AnswerPair(p)
      PROVE  RevokedSoFar'
  BY <1>0, <1>o, <1>5, AnswerEffect2
<1>6. ASSUME NEW p \in Phones, LoseAnswer(p)
      PROVE  RevokedSoFar'
  BY <1>o, <1>6 DEF LoseAnswer
<1>7. ASSUME StartRevoke
      PROVE  RevokedSoFar'
  <2>1. /\ UNCHANGED <<post, posts, rows, made>> /\ revoke'.done = {}
        /\ ~revoke'.racing => \A p \in Phones : post[p].id # revoke'.label
    BY <1>0, <1>7, StartEffect
  <2>2. PICK r \in rows : revoke'.label = r.label
    BY <1>0, <1>7, StartEffect
  <2>3. r.label \in 1 .. posts
    BY <1>0 DEF RowsNumbered, PairingTypes
  <2> QED BY <2>1, <2>2, <2>3 DEF RevokedSoFar
<1>8. ASSUME RevokeFleet
      PROVE  RevokedSoFar'
  <2>1. /\ UNCHANGED <<post, posts>> /\ revoke.at = "revoke" /\ revoke'.label = revoke.label /\ revoke'.racing = revoke.racing
        /\ \/ revoke'.failed /\ UNCHANGED rows
           \/ \E f \in Fleets : /\ revoke'.done = revoke.done \cup {f} /\ revoke'.failed = revoke.failed
                                /\ rows' = {r \in rows : r.fleet # f \/ r.label # revoke.label}
    BY <1>0, <1>8, RevokeFleetEffect
  <2> QED BY <1>0, <2>1 DEF RevokedSoFar
<1>9. ASSUME AnswerRevoke
      PROVE  RevokedSoFar'
  BY <1>9 DEF AnswerRevoke, NoRevoke, RevokedSoFar
<1>10. ASSUME RestartBoard
      PROVE  RevokedSoFar'
  BY <1>0, <1>10, RestartEffect DEF NoRevoke, RevokedSoFar
<1>11. CASE (\E chosen \in SUBSET Others : ShowCode(chosen)) \/ (\E p \in Phones : WindowEnds(p)) \/ CodeAges \/ (\E f \in Fleets : ChangeKey(f)) \/ UNCHANGED pVars
  BY <1>u, <1>11 DEF ShowCode, WindowEnds, CodeAges, ChangeKey, pVars
<1> QED BY <1>1, <1>2, <1>3, <1>4, <1>5, <1>6, <1>7, <1>8, <1>9, <1>10, <1>11 DEF PairingNext

\* Nobody was paired and no code was shown.
LEMMA PairingStarts == PairingInit => PairingInv
<1> SUFFICES ASSUME PairingInit
             PROVE  PairingInv
  OBVIOUS
<1>1. NewBoard \in BoardRecord /\ NewBoard.codes = {}
  <2>1. 0 \in 0 .. PairFails - 1
    BY PairingNumbers
  <2> QED BY <2>1, NoTryType DEF NewBoard, BoardRecord
<1>2. NoPost \in PostRecord /\ NoPost.at = "idle" /\ NoPost.id = 0 /\ NoPost.got = {}
  BY DEF NoPost, Wrong, PostRecord
<1>3. NoRevoke \in AskedRevoke /\ NoRevoke.at = "idle"
  BY DEF NoRevoke, AskedRevoke
<1>4. NoCookie \in CookieRecord /\ NoCookie.row = 0
  BY DEF NoCookie, CookieRecord
<1>5. 1 \in Versions /\ 0 \in 0 .. MaxCodes
  BY PairingNumbers DEF Versions
<1>6. PairingTypes
  <2>1. key \in [Fleets -> Versions] /\ shown \in 0 .. MaxCodes /\ posts \in Nat /\ events \in Nat
    BY <1>5 DEF PairingInit
  <2>2. board \in [Versions -> BoardRecord] /\ post \in [Phones -> PostRecord] /\ revoke \in AskedRevoke
    BY <1>1, <1>2, <1>3 DEF PairingInit, Versions
  <2>3. jar \in [Phones -> [Fleets -> CookieRecord]] /\ told \in [Codes -> Nat] /\ made = {} /\ rows = {}
    BY <1>4 DEF PairingInit
  <2> QED BY <2>1, <2>2, <2>3 DEF PairingTypes
<1>7. /\ \A v \in Versions : board[v].codes = {}
      /\ \A p \in Phones : post[p] = NoPost
      /\ made = {} /\ rows = {} /\ revoke.at = "idle" /\ \A k \in Codes : told[k] = 0
  BY <1>1, <1>3 DEF PairingInit, Versions
<1>8. Granting = {} /\ Taken = {}
  BY <1>2, <1>7 DEF Granting, Taken
<1>9. CodesKnown /\ Tallied /\ TakenOnce /\ Grants /\ CodeOnce
  BY <1>7, <1>8 DEF CodesKnown, Tallied, TakenOnce, Grants, CodeOnce
<1>10. RowsNumbered
  BY <1>7, FS_EmptySet DEF RowsNumbered
<1>11. Posting /\ Got /\ RevokedSoFar
  BY <1>2, <1>7 DEF Posting, Got, RevokedSoFar
<1>12. Jarred
  BY <1>4 DEF PairingInit, Jarred
<1> QED BY <1>6, <1>9, <1>10, <1>11, <1>12 DEF PairingInv

LEMMA PairingStep == PairingInv /\ [PairingNext]_pVars => PairingInv'
  BY PairingTypesStep, CodesKnownStep, TalliedStep, TakenOnceStep, GrantsStep, CodeOnceStep,
     RowsNumberedStep, PostingStep,
     GotStep, JarredStep, RevokedSoFarStep DEF PairingInv

\* A set in which all are one has one element at most.
LEMMA AtMostOne ==
  ASSUME NEW S, \A x, y \in S : x = y
  PROVE  Cardinality(S) <= 1
<1>1. CASE S = {}
  BY <1>1, FS_EmptySet
<1>2. CASE S # {}
  <2>1. PICK x \in S : TRUE
    BY <1>2
  <2>2. S = {x}
    BY <2>1
  <2>3. Cardinality(S) = 1
    BY <2>2, FS_Singleton
  <2> QED BY <2>3
<1> QED BY <1>1, <1>2

LEMMA PairingImplies == PairingInv => PairingSafety
<1> SUFFICES ASSUME PairingInv
             PROVE  PairingSafety
  OBVIOUS
<1>0. PairingTypes /\ CodesKnown /\ Tallied /\ CodeOnce /\ RowsNumbered /\ Jarred
  BY DEF PairingInv
<1>1. PairingTypeOK
  <2>1. key \in [Fleets -> 1 .. MaxTokens] /\ rows \subseteq made
    BY <1>0 DEF PairingTypes, Versions
  <2>2. ASSUME NEW v \in 1 .. MaxTokens
        PROVE  /\ board[v].fails \in 0 .. PairFails - 1 /\ \A p \in Phones : board[v].tries[p].n \in 0 .. AddrFails
               /\ Cardinality({c \in board[v].codes : Usable(c)}) <= 1
    <3>1. board[v] \in BoardRecord
      BY <1>0 DEF PairingTypes, Versions
    <3>2. board[v].fails \in 0 .. PairFails - 1 /\ \A p \in Phones : board[v].tries[p].n \in 0 .. AddrFails
      BY <3>1 DEF BoardRecord, TryRecord
    <3>3. \A c, d \in {c \in board[v].codes : Usable(c)} : c = d
      BY <1>0 DEF CodesKnown, Versions
    <3> QED BY <3>2, <3>3, AtMostOne
  <2> QED BY <2>1, <2>2 DEF PairingTypeOK
<1>2. GuessesBounded
  <2> SUFFICES ASSUME NEW v \in 1 .. MaxTokens, NEW c \in board[v].codes, Usable(c)
               PROVE  told[c.id] < PairFails
    BY DEF GuessesBounded
  <2>1. board[v] \in BoardRecord /\ told \in [Codes -> Nat]
    BY <1>0 DEF PairingTypes, Versions
  <2>2. told[c.id] \in Nat /\ board[v].fails \in 0 .. PairFails - 1
    BY <2>1 DEF BoardRecord, CodeRecord
  <2>3. told[c.id] <= board[v].fails
    BY <1>0 DEF Tallied, Versions
  <2> QED BY <2>2, <2>3, PairingNumbers
<1>3. PairedWorks
  <2> SUFFICES ASSUME NEW p \in Phones, NEW f \in Fleets, jar[p][f].row # 0, jar[p][f].was = key[f],
                      NEW s \in rows, s.row = jar[p][f].row
               PROVE  \E r \in rows : r.fleet = f /\ r.row = jar[p][f].row /\ r.hash = key[f]
    BY DEF PairedWorks, Identified
  <2>1. PICK r \in made : r.row = jar[p][f].row /\ r.fleet = f /\ HashedBetween(r, jar[p][f].was)
    BY <1>0 DEF Jarred
  <2>2. r = s
    BY <1>0, <2>1 DEF RowsNumbered, PairingTypes
  <2>3. key[f] \in Nat /\ r.hash \in Nat
    BY <1>0 DEF PairingTypes, Versions, RowRecord
  <2>4. r.hash = key[f]
    BY <2>1, <2>3 DEF HashedBetween
  <2> QED BY <2>1, <2>2, <2>4
<1> QED BY <1>0, <1>1, <1>2, <1>3 DEF PairingSafety

\* What a step must do for RowsHeld and RevokedEverywhere.
RowHeld == \A p \in Phones : post[p].at = "grant" /\ post'[p].at = "idle" /\ events' = events =>
             \A r \in post[p].got : jar'[p][r.fleet].row = r.row
PhoneRevoked == revoke.at = "revoke" /\ revoke'.at = "idle" /\ events' = events /\ ~revoke.failed /\ ~revoke.racing =>
                  \A r \in rows : r.label = revoke.label => r.fleet \notin revoke.done

\* Only an answer that comes ends a request without an event.
LEMMA RowHeldStep ==
  ASSUME PairingInv, [PairingNext]_pVars
  PROVE  RowHeld
<1> SUFFICES ASSUME NEW p \in Phones, post[p].at = "grant", post'[p].at = "idle", events' = events, NEW r \in post[p].got
             PROVE  jar'[p][r.fleet].row = r.row
  BY DEF RowHeld
<1>0. PairingTypes /\ CodeOnce /\ Posting /\ Got /\ RowsNumbered /\ events \in Nat
  BY DEF PairingInv, PairingTypes
<1>1. CASE AnswerPair(p)
  <2>1. r \in made /\ r.code = post[p].typed /\ r.fleet \in Fleets
    BY <1>0 DEF Got, PairingTypes, RowRecord
  <2>2. PICK s \in post[p].got : s.fleet = r.fleet /\ jar'[p][r.fleet].row = s.row
    BY <1>0, <1>1, <2>1, AnswerEffect2
  <2>3. s = r
    BY <1>0, <2>1, <2>2 DEF Got, CodeOnce
  <2> QED BY <2>2, <2>3
<1>2. ASSUME NEW q \in Phones, q # p, post' = [post EXCEPT ![q] = NoPost] \/ PostOnly(q)
      PROVE  post'[p] = post[p]
  BY <1>0, <1>2, OverEffect DEF PostOnly
<1>3. ASSUME NEW q \in Phones, PostCode(q) \/ Redeem(q) \/ PairFleet(q) \/ AnswerPair(q)
      PROVE  AnswerPair(p)
  <2>1. post' = [post EXCEPT ![q] = NoPost] \/ PostOnly(q)
    BY <1>0, <1>3, PostEffect, RedeemEffect, PairFleetEffect, AnswerEffect2 DEF RedeemMissed,
       RedeemWrong, RedeemRight, FleetLeaves
  <2>2. q = p
    BY <1>2, <2>1
  <2>3. ~PostCode(p) /\ ~Redeem(p)
    BY DEF PostCode, Redeem
  <2>4. ~PairFleet(p)
    BY <1>0, PairFleetEffect DEF FleetLeaves
  <2> QED BY <1>3, <2>2, <2>3, <2>4
<1>4. CASE UNCHANGED post
  BY <1>4
<1>5. CASE \E q \in Phones : MissFleet(q) \/ LoseAnswer(q) \/ WindowEnds(q)
  BY <1>0, <1>5 DEF MissFleet, LoseAnswer, WindowEnds
<1>6. CASE CodeAges \/ RestartBoard \/ StartRevoke
  <2>1. events' = events + 1
    BY <1>6 DEF CodeAges, RestartBoard, StartRevoke
  <2> QED BY <1>0, <2>1
<1>7. CASE (\E chosen \in SUBSET Others : ShowCode(chosen)) \/ RevokeFleet \/ AnswerRevoke \/ (\E f \in Fleets : ChangeKey(f)) \/ UNCHANGED pVars
  BY <1>4, <1>7 DEF ShowCode, RevokeFleet, AnswerRevoke, ChangeKey, pVars
<1> QED BY <1>1, <1>3, <1>5, <1>6, <1>7 DEF PairingNext

LEMMA PhoneRevokedNow == PairingInv => PhoneRevoked
  BY DEF PairingInv, RevokedSoFar, PhoneRevoked

\* A code pairs one phone, works for PairFails wrong tries at most, and what a
\* phone was told it is paired with lets it in, whatever number of requests, tokens
\* and restarts cross (board/phone.go, redeem and pairFleet).
THEOREM PairingSafe == PairingSpec => []PairingSafety
<1>1. PairingInit => PairingInv
  BY PairingStarts
<1>2. PairingInv /\ [PairingNext]_pVars => PairingInv'
  BY PairingStep
<1>3. PairingInv => PairingSafety
  BY PairingImplies
<1> QED BY <1>1, <1>2, <1>3, PTL DEF PairingSpec

-----------------------------------------------------------------------------
(* BoardServices: the inductive invariant *)

Someone == CHOOSE b \in Boards : TRUE
BoardAts == Away \cup {"listening", "addressed", "recorded", "serving", "draining", "removing", "unrecorded"}
BoardRecord2 == [at : BoardAts, port : Ports, iroh : BOOLEAN, asked : BOOLEAN]
SideAts == {"off", "resolve", "once", "ready", "pause", "done"}
SideStates == {"none", "starting", "ready", "failed", "stopped"}
SideRecord == [at : SideAts, status : SideStates, quick : 0 .. Attempts + MaxExits, halted : BOOLEAN, lost : BOOLEAN]
OpenRecord == [at : {"idle", "waiting", "locked", "await", "done", "failed"}, board : Boards \cup {Someone}]
StopRecord == [at : {"idle", "wait", "compare", "remove"}, board : Boards \cup {Someone}]

ServiceTypes ==
  /\ boards \in [Boards -> BoardRecord2] /\ side \in [Boards -> SideRecord]
  /\ addr \in Ports \cup {None} /\ pidFile \in Boards \cup {None}
  /\ irohFile \in {None, "starting", "ready", "failed", "stopped"} /\ startLock \in Openers \cup {None}
  /\ opener \in [Openers -> OpenRecord] /\ stop \in StopRecord
  /\ crowd \in BOOLEAN /\ used \in [hand : Nat, stop : Nat, fault : Nat, exit : 0 .. MaxExits]

\* A hand-iroh runs for a board that serves or has just been asked to end.
Before == {"none", "refused", "listening", "addressed", "recorded"}
Sides ==
  \A b \in Boards :
    /\ side[b].at \notin {"off", "done"} => boards[b].at \in {"serving", "draining"}
    /\ boards[b].at \in Before => side[b].at = "off" /\ side[b].quick = 0
    /\ ~boards[b].iroh => side[b].at = "off"
    /\ side[b].at = "done" => side[b].status \in {"failed", "stopped"}
    /\ side[b].quick <= used.exit

\* Nobody gives a hand-iroh up, unless its board ends, before it ended early too often.
Tried ==
  \A b \in Boards : Running(b) /\ ~CtxDone(b) =>
    side[b].quick <= Attempts /\ (side[b].at # "done" => side[b].quick < Attempts)

\* Whoever starts a board holds the lock until the board answers.
Locking ==
  \A o \in Openers : /\ opener[o].at \in {"locked", "await"} => startLock = o
                     /\ opener[o].at = "await" => opener[o].board \in Boards

OneAlone == used.hand = 0 /\ used.stop = 0 /\ used.fault = 0
Rising == {"none", "listening", "addressed", "recorded", "serving"}
\* While nobody else starts or stops one, the one board that runs comes up under
\* the lock of who started it.
OneStarts ==
  OneAlone =>
    /\ \A o \in Openers : /\ opener[o].at # "failed"
                          /\ opener[o].at = "await" => Running(opener[o].board)
    /\ \A b \in Boards : boards[b].at \in Rising /\ ~boards[b].asked
    /\ \A b, c \in Boards : Running(b) /\ Running(c) => b = c
    /\ \A b \in Boards : boards[b].at \in {"addressed", "recorded", "serving"} => addr = boards[b].port
    /\ \A b \in Boards : Running(b) /\ boards[b].at # "serving" =>
         \E o \in Openers : startLock = o /\ opener[o].at = "await"

\* Of boards one after the other, the one that runs wrote what is on file.
OnFile ==
  Quietly =>
    /\ \A b, c \in Boards : Running(b) /\ Running(c) => b = c
    /\ \A b \in Boards : Running(b) /\ boards[b].at # "listening" => addr = boards[b].port
    /\ (\A b \in Boards : ~Running(b)) => addr = None
    /\ \A b \in Boards : boards[b].at = "serving" => irohFile = IF boards[b].iroh THEN side[b].status ELSE None

ServicesInv == ServiceTypes /\ Sides /\ Tried /\ Locking /\ OneStarts /\ OnFile

LEMMA ServicesImplies == ServicesInv => ServicesSafety
<1> SUFFICES ASSUME ServicesInv PROVE ServicesSafety
  OBVIOUS
<1>0. ServiceTypes /\ MaxExits \in Nat /\ Attempts \in Nat
  BY BoardServicesAssumption, BoardServicesBounds DEF ServicesInv
<1>1. ServicesTypeOK
  BY <1>0 DEF ServiceTypes, ServicesTypeOK, BoardRecord2, BoardAts, SideRecord, SideAts, SideStates
<1>2. OneBoardForAll
  BY DEF ServicesInv, OneStarts, OneBoardForAll, OneAlone, Rising
<1>3. RecordsTrue
  <2>1. \A b \in Boards : boards[b].at = "serving" => Running(b) /\ boards[b].at # "listening"
    BY DEF Running, Away
  <2> QED BY <2>1 DEF ServicesInv, OnFile, RecordsTrue
<1>4. GivenUpRightly
  <2> SUFFICES ASSUME NEW b \in Boards, Running(b)
               PROVE  /\ side[b].quick <= Attempts + (IF CtxDone(b) THEN MaxExits ELSE 0)
                      /\ side[b].at = "done" => side[b].status \in {"failed", "stopped"}
                      /\ side[b].at # "done" /\ side[b].quick >= Attempts => CtxDone(b)
    BY DEF GivenUpRightly
  <2>1. side[b].quick \in Nat /\ used.exit \in Nat /\ used.exit <= MaxExits
    BY <1>0 DEF ServiceTypes, SideRecord
  <2>2. side[b].quick <= used.exit /\ (side[b].at = "done" => side[b].status \in {"failed", "stopped"})
    BY DEF ServicesInv, Sides
  <2>3. ~CtxDone(b) => side[b].quick <= Attempts /\ (side[b].at # "done" => side[b].quick < Attempts)
    BY DEF ServicesInv, Tried
  <2> QED BY <1>0, <2>1, <2>2, <2>3
<1> QED BY <1>1, <1>2, <1>3, <1>4 DEF ServicesSafety

LEMMA ServicesStarts == ServicesInit => ServicesInv
<1> SUFFICES ASSUME ServicesInit PROVE ServicesInv
  OBVIOUS
<1>0. /\ MaxExits \in Nat /\ Attempts \in Nat \ {0} /\ 0 \in 0 .. Attempts + MaxExits /\ 0 \in 0 .. MaxExits
      /\ DefaultPort \in Ports
  BY BoardServicesAssumption, BoardServicesBounds
<1>1. \A b \in Boards : boards[b] = [at |-> "none", port |-> DefaultPort, iroh |-> FALSE, asked |-> FALSE]
  BY DEF ServicesInit
<1>2. \A b \in Boards : side[b] = [at |-> "off", status |-> "none", quick |-> 0, halted |-> FALSE, lost |-> FALSE]
  BY DEF ServicesInit
<1>3. \A o \in Openers : opener[o] = [at |-> "idle", board |-> Someone]
  BY DEF ServicesInit, Someone
<1>4. used = [hand |-> 0, stop |-> 0, fault |-> 0, exit |-> 0] /\ crowd = FALSE /\ stop = [at |-> "idle", board |-> Someone]
  BY DEF ServicesInit, Someone
<1>5. ServiceTypes
  <2>1. boards \in [Boards -> BoardRecord2]
    BY <1>0 DEF ServicesInit, BoardRecord2, BoardAts, Away
  <2>2. side \in [Boards -> SideRecord]
    BY <1>0 DEF ServicesInit, SideRecord, SideAts, SideStates
  <2>3. opener \in [Openers -> OpenRecord] /\ stop \in StopRecord
    BY <1>4 DEF ServicesInit, OpenRecord, StopRecord, Someone
  <2>4. used \in [hand : Nat, stop : Nat, fault : Nat, exit : 0 .. MaxExits]
    BY <1>0, <1>4
  <2>5. addr = None /\ pidFile = None /\ irohFile = None /\ startLock = None
    BY DEF ServicesInit
  <2> QED BY <1>4, <2>1, <2>2, <2>3, <2>4, <2>5 DEF ServiceTypes
<1>6. \A b \in Boards : boards[b].at = "none" /\ ~Running(b)
  <2> SUFFICES ASSUME NEW b \in Boards PROVE boards[b].at = "none" /\ ~Running(b)
    OBVIOUS
  <2>1. boards[b] = [at |-> "none", port |-> DefaultPort, iroh |-> FALSE, asked |-> FALSE]
    BY <1>1
  <2> QED BY <2>1 DEF Running, Away
<1>7. Sides /\ Tried
  BY <1>0, <1>1, <1>2, <1>4, <1>6 DEF Sides, Tried
<1>8. Locking /\ OneStarts
  BY <1>1, <1>3, <1>6 DEF Locking, OneStarts, Rising
<1>9. OnFile
  BY <1>1, <1>6 DEF OnFile, ServicesInit
<1> QED BY <1>5, <1>7, <1>8, <1>9 DEF ServicesInv

-----------------------------------------------------------------------------
(* What the steps of boards and of their hand-irohs do *)

\* A board comes to its next place; its port and what it was asked stay.
BoardGoes(b, place) ==
  /\ boards' \in [Boards -> BoardRecord2] /\ boards'[b].at = place
  /\ boards'[b].port = boards[b].port /\ boards'[b].iroh = boards[b].iroh /\ boards'[b].asked = boards[b].asked
  /\ \A c \in Boards \ {b} : boards'[c] = boards[c]

LEMMA BoardGoesEffect ==
  ASSUME ServiceTypes, NEW b \in Boards, NEW place \in BoardAts, Enters(b, place)
  PROVE  BoardGoes(b, place)
  BY DEF ServiceTypes, Enters, BoardGoes, BoardRecord2

\* A process is started.
Begun(b) ==
  /\ boards' \in [Boards -> BoardRecord2] /\ boards[b].at = "none" /\ ~boards'[b].asked
  /\ boards'[b].at \in {"refused", "listening"}
  /\ boards'[b].at = "refused" => \E c \in Boards : Running(c)
  /\ \A c \in Boards \ {b} : boards'[c] = boards[c]
  /\ crowd' \in BOOLEAN /\ (crowd' <=> crowd \/ \E c \in Boards : Running(c))

LEMMA BegunEffect ==
  ASSUME ServiceTypes, NEW b \in Boards, NEW port \in Ports, NEW iroh \in BOOLEAN, Started(b, port, iroh)
  PROVE  Begun(b)
<1> DEFINE grabs == \E c \in Boards : Listens(c) /\ boards[c].port = port
           place == IF grabs THEN "refused" ELSE "listening"
           r == [at |-> place, port |-> port, iroh |-> iroh, asked |-> FALSE]
<1>1. boards' = [boards EXCEPT ![b] = r] /\ boards[b].at = "none"
  BY DEF Started
<1>2. r \in BoardRecord2 /\ r.at = place /\ ~r.asked
  BY DEF BoardRecord2, BoardAts, Away
<1>3. grabs => \E c \in Boards : Running(c)
  BY DEF Listens, Running, Away
<1>4. crowd' \in BOOLEAN /\ (crowd' <=> crowd \/ \E c \in Boards : Running(c))
  BY DEF Started, ServiceTypes
<1>5. place \in {"refused", "listening"} /\ (place = "refused" => grabs)
  OBVIOUS
<1> HIDE DEF r, place, grabs
<1>6. /\ boards' \in [Boards -> BoardRecord2] /\ boards'[b] = r
      /\ \A c \in Boards \ {b} : boards'[c] = boards[c]
  BY <1>1, <1>2 DEF ServiceTypes
<1> QED BY <1>1, <1>2, <1>3, <1>4, <1>5, <1>6 DEF Begun

\* A process is asked to end.
Told2(b) ==
  /\ boards' \in [Boards -> BoardRecord2] /\ boards'[b].at = boards[b].at /\ boards'[b].asked
  /\ boards'[b].port = boards[b].port /\ boards'[b].iroh = boards[b].iroh
  /\ \A c \in Boards \ {b} : boards'[c] = boards[c]

LEMMA ToldEffect ==
  ASSUME ServiceTypes, NEW b \in Boards, boards' = [boards EXCEPT ![b].asked = TRUE]
  PROVE  Told2(b)
  BY DEF ServiceTypes, Told2, BoardRecord2

\* What is spent is not given back.
Costs ==
  /\ used' \in [hand : Nat, stop : Nat, fault : Nat, exit : 0 .. MaxExits]
  /\ used.exit <= used'.exit
  /\ used'.hand = 0 => used.hand = 0
  /\ used'.stop = 0 => used.stop = 0
  /\ used'.fault = 0 => used.fault = 0

LEMMA SpendEffect ==
  ASSUME ServiceTypes, NEW what \in {"hand", "stop", "fault", "exit"}, Spend(what), what = "exit" => used.exit < MaxExits
  PROVE  /\ Costs
         /\ what = "hand" => used'.hand # 0
         /\ what = "stop" => used'.stop # 0
         /\ what = "fault" => used'.fault # 0
         /\ what = "exit" => used'.exit = used.exit + 1
<1>0. MaxExits \in Nat
  BY BoardServicesBounds
<1>1. used \in [hand : Nat, stop : Nat, fault : Nat, exit : 0 .. MaxExits]
  BY DEF ServiceTypes
<1>2. CASE what = "hand"
  <2>1. used' = [used EXCEPT !.hand = @ + 1]
    BY <1>2 DEF Spend
  <2> QED BY <1>0, <1>1, <1>2, <2>1 DEF Costs
<1>3. CASE what = "stop"
  <2>1. used' = [used EXCEPT !.stop = @ + 1]
    BY <1>3 DEF Spend
  <2> QED BY <1>0, <1>1, <1>3, <2>1 DEF Costs
<1>4. CASE what = "fault"
  <2>1. used' = [used EXCEPT !.fault = @ + 1]
    BY <1>4 DEF Spend
  <2> QED BY <1>0, <1>1, <1>4, <2>1 DEF Costs
<1>5. CASE what = "exit"
  <2>1. used' = [used EXCEPT !.exit = @ + 1]
    BY <1>5 DEF Spend
  <2> QED BY <1>0, <1>1, <1>5, <2>1 DEF Costs
<1> QED BY <1>2, <1>3, <1>4, <1>5

LEMMA FreeEffect == ServiceTypes /\ UNCHANGED used => Costs
  BY BoardServicesBounds DEF ServiceTypes, Costs

\* What a hand-iroh may come to: its state is on file, or it and the file stay.
SideMoved(b) ==
  /\ side' \in [Boards -> SideRecord] /\ side[b].at \notin {"off", "done"} /\ side'[b].at # "off"
  /\ side[b].halted => side'[b].halted
  /\ irohFile' = side'[b].status \/ (irohFile' = irohFile /\ side'[b].status = side[b].status)
  /\ side'[b].quick <= used'.exit
  /\ side'[b].at = "done" => side'[b].status \in {"failed", "stopped"} /\ (CtxDone(b) => side'[b].status = "stopped")
  /\ ~CtxDone(b) => side'[b].quick <= Attempts /\ (side'[b].at # "done" => side'[b].quick < Attempts)
  /\ \A c \in Boards \ {b} : side'[c] = side[c]
  /\ Costs /\ irohFile' \in {None, "starting", "ready", "failed", "stopped"}

\* The steps of a hand-iroh, and of the peers' listener that stops it.
OfSide(b) == Resolve(b) \/ SayReady(b) \/ QuickExit(b) \/ Again(b) \/ SideEnds(b) \/ PeerStops(b)

LEMMA SetEffect ==
  ASSUME ServiceTypes, NEW b \in Boards, NEW place \in SideAts, NEW status \in SideStates, NEW quick \in 0 .. Attempts + MaxExits,
         Set(b, place, status, quick)
  PROVE  /\ side' \in [Boards -> SideRecord] /\ \A c \in Boards \ {b} : side'[c] = side[c]
         /\ side'[b].at = place /\ side'[b].status = status /\ side'[b].quick = quick
         /\ side'[b].halted = side[b].halted /\ irohFile' = status
  BY ZenonT(40) DEF ServiceTypes, SideRecord, Set

LEMMA SideEffect ==
  ASSUME ServiceTypes, Sides, Tried, NEW b \in Boards, Running(b), OfSide(b)
  PROVE  SideMoved(b) /\ UNCHANGED <<boards, addr, pidFile, startLock, opener, stop, crowd>>
<1>0. /\ side[b] \in SideRecord /\ side[b].quick \in Nat /\ used.exit \in Nat /\ used.exit <= MaxExits /\ side[b].quick <= used.exit
      /\ MaxExits \in Nat /\ Attempts \in Nat \ {0} /\ side[b].quick \in 0 .. Attempts + MaxExits
      /\ irohFile \in {None, "starting", "ready", "failed", "stopped"}
  BY BoardServicesAssumption, BoardServicesBounds DEF ServiceTypes, Sides, SideRecord
<1>1. ~CtxDone(b) => side[b].quick <= Attempts /\ (side[b].at # "done" => side[b].quick < Attempts)
  BY DEF Tried
<1>2. UNCHANGED <<boards, addr, pidFile, startLock, opener, stop, crowd>>
  BY DEF OfSide, Resolve, SayReady, QuickExit, Again, SideEnds, PeerStops, Side
<1>3. ASSUME Spend("exit"), used.exit < MaxExits PROVE Costs /\ used'.exit = used.exit + 1
  BY <1>3, SpendEffect
<1>4. CASE Resolve(b)
  <2>1. CASE side' = [side EXCEPT ![b].at = "once"] /\ UNCHANGED <<irohFile, used>>
    <3>1. /\ side' \in [Boards -> SideRecord] /\ \A c \in Boards \ {b} : side'[c] = side[c]
          /\ side'[b].at = "once" /\ side'[b].status = side[b].status /\ side'[b].quick = side[b].quick
          /\ side'[b].halted = side[b].halted
      BY <2>1 DEF ServiceTypes, SideRecord, SideAts
    <3>2. Costs
      BY <2>1, FreeEffect
    <3> QED BY <1>0, <1>1, <1>2, <1>4, <2>1, <3>1, <3>2 DEF SideMoved, Resolve
  <2>2. CASE /\ used.exit < MaxExits /\ Spend("exit")
             /\ side' = [side EXCEPT ![b].at = "done", ![b].status = IF CtxDone(b) THEN "stopped" ELSE "failed", ![b].lost = TRUE]
             /\ irohFile' = side'[b].status
    <3> DEFINE word == IF CtxDone(b) THEN "stopped" ELSE "failed"
    <3>1. word \in SideStates /\ word \in {"failed", "stopped"} /\ (CtxDone(b) => word = "stopped")
      BY DEF SideStates
    <3>2. side' = [side EXCEPT ![b].at = "done", ![b].status = word, ![b].lost = TRUE] /\ irohFile' = side'[b].status
      BY <2>2
    <3> HIDE DEF word
    <3> DEFINE r == [side[b] EXCEPT !.at = "done", !.status = word, !.lost = TRUE]
    <3>5. r \in SideRecord /\ r.at = "done" /\ r.status = word /\ r.quick = side[b].quick /\ r.halted = side[b].halted
      BY <1>0, <3>1 DEF SideRecord, SideAts
    <3>6. side' = [side EXCEPT ![b] = r]
      BY <3>2 DEF ServiceTypes, SideRecord
    <3> HIDE DEF r
    <3>3. /\ side' \in [Boards -> SideRecord] /\ \A c \in Boards \ {b} : side'[c] = side[c]
          /\ side'[b].at = "done" /\ side'[b].status = word /\ side'[b].quick = side[b].quick
          /\ side'[b].halted = side[b].halted
      BY <3>5, <3>6 DEF ServiceTypes
    <3>4. Costs /\ used'.exit = used.exit + 1
      BY <1>3, <2>2
    <3> QED BY <1>0, <1>1, <1>2, <1>4, <3>1, <3>2, <3>3, <3>4 DEF SideMoved, Resolve
  <2> QED BY <1>4, <2>1, <2>2 DEF Resolve
<1>5. CASE SayReady(b) \/ Again(b) \/ SideEnds(b)
  <2>1. \E place \in {"ready", "resolve", "done"}, status \in {"ready", "starting", "stopped"} :
          Set(b, place, status, side[b].quick) /\ (place = "done" => status = "stopped")
    BY <1>5 DEF SayReady, Again, SideEnds
  <2>2. PICK place \in {"ready", "resolve", "done"} :
          \E status \in {"ready", "starting", "stopped"} : Set(b, place, status, side[b].quick) /\ (place = "done" => status = "stopped")
    BY <2>1
  <2>3. PICK status \in {"ready", "starting", "stopped"} : Set(b, place, status, side[b].quick) /\ (place = "done" => status = "stopped")
    BY <2>2
  <2>4. place \in SideAts /\ status \in SideStates
    BY DEF SideAts, SideStates
  <2>5. /\ side' \in [Boards -> SideRecord] /\ \A c \in Boards \ {b} : side'[c] = side[c]
        /\ side'[b].at = place /\ side'[b].status = status /\ side'[b].quick = side[b].quick
        /\ side'[b].halted = side[b].halted /\ irohFile' = status
    BY <1>0, <2>3, <2>4, SetEffect
  <2>6. Costs /\ UNCHANGED used
    BY <1>5, FreeEffect DEF SayReady, Again, SideEnds
  <2>7. side[b].at \notin {"off", "done"}
    BY <1>5 DEF SayReady, Again, SideEnds
  <2>8. side[b].halted => side'[b].halted
    BY <2>5
  <2>9. side'[b].quick <= used'.exit
    BY <1>0, <2>5, <2>6
  <2>10. side'[b].at = "done" => side'[b].status \in {"failed", "stopped"} /\ (CtxDone(b) => side'[b].status = "stopped")
    BY <2>3, <2>5
  <2>11. ~CtxDone(b) => side'[b].quick <= Attempts /\ (side'[b].at # "done" => side'[b].quick < Attempts)
    BY <1>1, <2>5, <2>7
  <2>12. irohFile' \in {None, "starting", "ready", "failed", "stopped"} /\ side'[b].at # "off"
    BY <2>5
  <2> QED BY <1>2, <2>5, <2>6, <2>7, <2>8, <2>9, <2>10, <2>11, <2>12 DEF SideMoved
<1>6. CASE QuickExit(b)
  <2>0. side[b].at \in {"once", "ready"} /\ Costs /\ used'.exit = used.exit + 1 /\ used.exit < MaxExits
    BY <1>3, <1>6 DEF QuickExit
  <2>1. PICK stable \in BOOLEAN :
       LET quick == (IF stable THEN 0 ELSE side[b].quick) + 1 IN
       IF quick >= Attempts /\ ~CtxDone(b) THEN Set(b, "done", "failed", quick)
       ELSE side' = [side EXCEPT ![b].at = "pause", ![b].quick = quick] /\ UNCHANGED irohFile
    BY <1>6 DEF QuickExit
  <2> DEFINE quick == (IF stable THEN 0 ELSE side[b].quick) + 1
  <2>2. quick \in Nat /\ quick <= side[b].quick + 1 /\ quick \in 0 .. Attempts + MaxExits /\ quick <= used'.exit
    BY <1>0, <2>0
  <2>3. IF quick >= Attempts /\ ~CtxDone(b) THEN Set(b, "done", "failed", quick)
        ELSE side' = [side EXCEPT ![b].at = "pause", ![b].quick = quick] /\ UNCHANGED irohFile
    BY <2>1
  <2> HIDE DEF quick
  <2>4. CASE quick >= Attempts /\ ~CtxDone(b)
    <3>1. /\ side' \in [Boards -> SideRecord] /\ \A c \in Boards \ {b} : side'[c] = side[c]
          /\ side'[b].at = "done" /\ side'[b].status = "failed" /\ side'[b].quick = quick
          /\ side'[b].halted = side[b].halted /\ irohFile' = "failed"
      BY <2>2, <2>3, <2>4, SetEffect DEF SideAts, SideStates
    <3> QED BY <1>0, <1>1, <1>2, <2>0, <2>2, <2>4, <3>1 DEF SideMoved
  <2>5. CASE ~(quick >= Attempts /\ ~CtxDone(b))
    <3>1. /\ side' \in [Boards -> SideRecord] /\ \A c \in Boards \ {b} : side'[c] = side[c]
          /\ side'[b].at = "pause" /\ side'[b].status = side[b].status /\ side'[b].quick = quick
          /\ side'[b].halted = side[b].halted /\ irohFile' = irohFile
      BY <2>2, <2>3, <2>5 DEF ServiceTypes, SideRecord, SideAts
    <3> QED BY <1>0, <1>1, <1>2, <2>0, <2>2, <2>5, <3>1 DEF SideMoved
  <2> QED BY <2>4, <2>5
<1>7. CASE PeerStops(b)
  <2>1. side' = [side EXCEPT ![b].halted = TRUE] /\ UNCHANGED irohFile /\ side[b].at \notin {"off", "done"} /\ Spend("fault")
    BY <1>7 DEF PeerStops
  <2>2. /\ side' \in [Boards -> SideRecord] /\ \A c \in Boards \ {b} : side'[c] = side[c]
        /\ side'[b].at = side[b].at /\ side'[b].status = side[b].status /\ side'[b].quick = side[b].quick
        /\ side'[b].halted
    BY <2>1 DEF ServiceTypes, SideRecord
  <2>3. Costs
    BY <2>1, SpendEffect
  <2>4. used'.exit \in Nat /\ used.exit <= used'.exit
    BY <2>3 DEF Costs
  <2> QED BY <1>0, <1>1, <1>2, <2>1, <2>2, <2>3, <2>4 DEF SideMoved
<1>8. SideMoved(b)
  BY <1>4, <1>5, <1>6, <1>7 DEF OfSide
<1> QED BY <1>2, <1>8

\* An opener comes to its next place.
OpensTo(o, place) ==
  /\ opener' \in [Openers -> OpenRecord] /\ opener'[o].at = place /\ opener'[o].board = opener[o].board
  /\ \A p \in Openers \ {o} : opener'[p] = opener[p]

LEMMA OpeningEffect ==
  ASSUME ServiceTypes, NEW o \in Openers, NEW place \in {"idle", "waiting", "locked", "await", "done", "failed"}, Opening(o, place)
  PROVE  OpensTo(o, place)
  BY DEF ServiceTypes, Opening, OpensTo, OpenRecord

\* What each step of a board does; a lock, an opener and a stop are not its own.
OfBoard(b) ==
  RecordAddr(b) \/ RecordPID(b) \/ RecordIroh(b) \/ Drain(b) \/ ComparePID(b) \/ RemovePID(b) \/ ForgetAddr(b) \/ KillBoard(b)

LEMMA ServicesCases ==
  ServicesNext => \/ \E b \in Boards : StartByHand(b) \/ Signal(b) \/ OfBoard(b) \/ OfSide(b)
                  \/ \E o \in Openers : OpenLook(o) \/ OpenLock(o) \/ OpenAgain(o) \/ OpenAwait(o)
                  \/ StopRead \/ StopWait \/ StopCompare \/ StopRemove
  BY DEF ServicesNext, OfBoard, OfSide

LEMMA BoardEffect ==
  ASSUME ServiceTypes, NEW b \in Boards, OfBoard(b)
  PROVE  /\ \/ boards[b].at = "listening" /\ BoardGoes(b, "addressed")
            \/ boards[b].at = "addressed" /\ BoardGoes(b, "recorded")
            \/ boards[b].at = "recorded" /\ BoardGoes(b, "serving")
            \/ boards[b].at = "serving" /\ boards[b].asked /\ BoardGoes(b, "draining")
            \/ boards[b].at = "draining" /\ side[b].at \in {"off", "done"} /\ BoardGoes(b, "removing")
            \/ boards[b].at = "draining" /\ side[b].at \in {"off", "done"} /\ BoardGoes(b, "unrecorded")
            \/ boards[b].at = "removing" /\ BoardGoes(b, "unrecorded")
            \/ boards[b].at = "unrecorded" /\ BoardGoes(b, "gone")
            \/ Running(b) /\ BoardGoes(b, "gone") /\ used'.fault # 0
         /\ Costs /\ UNCHANGED <<startLock, opener, stop, crowd>> /\ addr' \in Ports \cup {None} /\ pidFile' \in Boards \cup {None}
         /\ RecordAddr(b) \/ ForgetAddr(b) \/ UNCHANGED addr
         /\ RecordIroh(b) \/ KillBoard(b) \/ UNCHANGED side
         /\ RecordIroh(b) \/ UNCHANGED irohFile
<1>0. {"addressed", "recorded", "serving", "draining", "removing", "unrecorded", "gone"} \subseteq BoardAts
  BY DEF BoardAts, Away
<1>1. \A place \in BoardAts : Enters(b, place) => BoardGoes(b, place)
  BY BoardGoesEffect
<1>2. UNCHANGED used => Costs
  BY FreeEffect
<1>3. boards[b].port \in Ports
  BY DEF ServiceTypes, BoardRecord2
<1>4. CASE RecordAddr(b)
  BY <1>0, <1>1, <1>2, <1>3, <1>4 DEF RecordAddr, ServiceTypes
<1>5. CASE RecordPID(b)
  BY <1>0, <1>1, <1>2, <1>3, <1>5 DEF RecordPID, ServiceTypes
<1>6. CASE RecordIroh(b)
  BY <1>0, <1>1, <1>2, <1>3, <1>6 DEF RecordIroh, ServiceTypes
<1>7. CASE Drain(b)
  BY <1>0, <1>1, <1>2, <1>3, <1>7 DEF Drain, ServiceTypes
<1>8. CASE ComparePID(b)
  <2>1. Enters(b, "removing") \/ Enters(b, "unrecorded")
    BY <1>8 DEF ComparePID
  <2> QED BY <1>0, <1>1, <1>2, <1>3, <1>8, <2>1 DEF ComparePID, ServiceTypes
<1>9. CASE RemovePID(b)
  BY <1>0, <1>1, <1>2, <1>3, <1>9 DEF RemovePID, ServiceTypes
<1>10. CASE ForgetAddr(b)
  BY <1>0, <1>1, <1>2, <1>3, <1>10 DEF ForgetAddr, ServiceTypes
<1>11. CASE KillBoard(b)
  <2>1. Costs /\ used'.fault # 0
    BY <1>11, SpendEffect DEF KillBoard
  <2> QED BY <1>0, <1>1, <1>3, <1>11, <2>1 DEF KillBoard, ServiceTypes
<1> QED BY <1>4, <1>5, <1>6, <1>7, <1>8, <1>9, <1>10, <1>11 DEF OfBoard

\* What RecordIroh and KillBoard do to the hand-iroh.
LEMMA OffEffect ==
  ASSUME ServiceTypes, NEW b \in Boards, RecordIroh(b) \/ KillBoard(b)
  PROVE  /\ side' \in [Boards -> SideRecord] /\ \A c \in Boards \ {b} : side'[c] = side[c]
         /\ side'[b].quick = side[b].quick /\ side'[b].halted = side[b].halted
         /\ KillBoard(b) => side'[b].at = "off" /\ side'[b].status = side[b].status
         /\ RecordIroh(b) => /\ side'[b].at = (IF boards[b].iroh THEN "resolve" ELSE "off")
                             /\ side'[b].status = (IF boards[b].iroh THEN "starting" ELSE "none")
                             /\ irohFile' = IF boards[b].iroh THEN "starting" ELSE None
<1>1. CASE KillBoard(b)
  <2>1. ~RecordIroh(b)
    <3>1. boards'[b].at = "gone"
      BY <1>1, BoardGoesEffect DEF KillBoard, BoardGoes, BoardAts, Away
    <3>2. RecordIroh(b) => boards'[b].at = "serving"
      BY BoardGoesEffect DEF RecordIroh, BoardGoes, BoardAts, Away
    <3> QED BY <3>1, <3>2
  <2>2. side' = [side EXCEPT ![b].at = "off"]
    BY <1>1 DEF KillBoard
  <2> QED BY <2>1, <2>2 DEF ServiceTypes, SideRecord, SideAts
<1>2. CASE RecordIroh(b) /\ ~KillBoard(b)
  <2> DEFINE place == IF boards[b].iroh THEN "resolve" ELSE "off"
             word == IF boards[b].iroh THEN "starting" ELSE "none"
  <2>1. place \in SideAts /\ word \in SideStates
    BY DEF SideAts, SideStates
  <2>2. side' = [side EXCEPT ![b].at = place, ![b].status = word] /\ irohFile' = IF boards[b].iroh THEN "starting" ELSE None
    BY <1>2 DEF RecordIroh
  <2> HIDE DEF place, word
  <2>3. /\ side' \in [Boards -> SideRecord] /\ \A c \in Boards \ {b} : side'[c] = side[c]
        /\ side'[b].quick = side[b].quick /\ side'[b].halted = side[b].halted
        /\ side'[b].at = place /\ side'[b].status = word
    BY <2>1, <2>2 DEF ServiceTypes, SideRecord
  <2> QED BY <1>2, <2>2, <2>3 DEF place, word
<1> QED BY <1>1, <1>2

\* A hand-iroh only moves for a board that runs.
LEMMA SideRuns ==
  ASSUME ServiceTypes, Sides, NEW b \in Boards, OfSide(b)
  PROVE  Running(b) /\ boards[b].at \in {"serving", "draining"}
<1>1. side[b].at \notin {"off", "done"}
  BY DEF OfSide, Resolve, SayReady, QuickExit, Again, SideEnds, PeerStops
<1> QED BY <1>1 DEF Sides, Running, Away

\* What an opener, and a stop, may do.
LEMMA OpenEffect ==
  ASSUME ServiceTypes, NEW o \in Openers, OpenLook(o) \/ OpenLock(o) \/ OpenAwait(o)
  PROVE  /\ UNCHANGED <<boards, side, addr, pidFile, irohFile, stop, crowd>> /\ Costs /\ startLock' \in Openers \cup {None}
         /\ \/ opener[o].at = "idle" /\ (OpensTo(o, "done") \/ OpensTo(o, "waiting")) /\ UNCHANGED startLock
            \/ opener[o].at = "waiting" /\ OpensTo(o, "locked") /\ startLock = None /\ startLock' = o
            \/ /\ opener[o].at = "await" /\ Unlocks(o)
               /\ OpensTo(o, "done") \/ (OpensTo(o, "failed") /\ (~Running(opener[o].board) \/ used'.fault # 0))
<1>1. UNCHANGED used => Costs
  BY FreeEffect
<1>2. CASE OpenLook(o)
  BY <1>1, <1>2, OpeningEffect DEF OpenLook, ServiceTypes
<1>3. CASE OpenLock(o)
  BY <1>1, <1>3, OpeningEffect DEF OpenLock, ServiceTypes
<1>4. CASE OpenAwait(o)
  <2>1. Spend("fault") => Costs /\ used'.fault # 0
    BY SpendEffect
  <2>2. startLock' \in Openers \cup {None}
    BY <1>4 DEF OpenAwait, Unlocks, ServiceTypes
  <2> QED BY <1>1, <1>4, <2>1, <2>2, OpeningEffect DEF OpenAwait
<1> QED BY <1>2, <1>3, <1>4

\* The second look finds a board, or a process is started.
LEMMA AgainEffect ==
  ASSUME ServiceTypes, NEW o \in Openers, OpenAgain(o)
  PROVE  /\ UNCHANGED <<side, addr, pidFile, irohFile, stop, used>> /\ Costs /\ startLock' \in Openers \cup {None} /\ opener[o].at = "locked"
         /\ \/ Up /\ OpensTo(o, "done") /\ Unlocks(o) /\ UNCHANGED <<boards, crowd>>
            \/ /\ ~Up /\ UNCHANGED startLock /\ opener' \in [Openers -> OpenRecord] /\ opener'[o].at = "await"
               /\ \E b \in Boards : Begun(b) /\ opener'[o].board = b
               /\ \A p \in Openers \ {o} : opener'[p] = opener[p]
<1>1. UNCHANGED <<side, addr, pidFile, irohFile, stop, used>> /\ Costs /\ opener[o].at = "locked"
  BY FreeEffect DEF OpenAgain
<1>2. CASE Up /\ Opening(o, "done") /\ Unlocks(o) /\ UNCHANGED <<boards, crowd>>
  <2>1. startLock' \in Openers \cup {None}
    BY <1>2 DEF Unlocks, ServiceTypes
  <2> QED BY <1>1, <1>2, <2>1, OpeningEffect
<1>3. CASE /\ ~Up
           /\ \E b \in Boards : Started(b, DefaultPort, irohFile # None) /\ opener' = [opener EXCEPT ![o] = [at |-> "await", board |-> b]]
           /\ UNCHANGED startLock
  <2>1. PICK b \in Boards : Started(b, DefaultPort, irohFile # None) /\ opener' = [opener EXCEPT ![o] = [at |-> "await", board |-> b]]
    BY <1>3
  <2> DEFINE with == irohFile # None
  <2>2. with \in BOOLEAN
    OBVIOUS
  <2>3. Started(b, DefaultPort, with)
    BY <2>1
  <2> HIDE DEF with
  <2>4. Begun(b)
    BY <2>2, <2>3, BegunEffect, BoardServicesAssumption
  <2>5. /\ opener' \in [Openers -> OpenRecord] /\ opener'[o].at = "await" /\ opener'[o].board = b
        /\ \A p \in Openers \ {o} : opener'[p] = opener[p]
    BY <2>1 DEF ServiceTypes, OpenRecord
  <2>6. startLock' \in Openers \cup {None}
    BY <1>3 DEF ServiceTypes
  <2> QED BY <1>1, <1>3, <2>4, <2>5, <2>6
<1> QED BY <1>1, <1>2, <1>3 DEF OpenAgain

LEMMA StopEffect ==
  ASSUME ServiceTypes, StopRead \/ StopWait \/ StopCompare \/ StopRemove
  PROVE  /\ UNCHANGED <<side, addr, irohFile, startLock, opener, crowd>> /\ Costs
         /\ pidFile' \in Boards \cup {None} /\ stop' \in StopRecord
         /\ UNCHANGED boards \/ \E b \in Boards : Told2(b) /\ used'.stop # 0
<1>0. stop \in StopRecord /\ (UNCHANGED used => Costs) /\ pidFile \in Boards \cup {None}
  BY FreeEffect DEF ServiceTypes
<1>1. CASE StopRead
  <2>1. pidFile \in Boards
    BY <1>0, <1>1 DEF StopRead
  <2>2. Costs /\ used'.stop # 0
    BY <1>1, SpendEffect DEF StopRead
  <2>3. stop' \in StopRecord
    BY <1>1, <2>1 DEF StopRead, StopRecord
  <2>4. UNCHANGED boards \/ Told2(pidFile)
    BY <1>1, <2>1, ToldEffect DEF StopRead
  <2> QED BY <1>0, <1>1, <2>1, <2>2, <2>3, <2>4 DEF StopRead
<1>2. CASE StopWait
  <2>1. Spend("fault") => Costs
    BY SpendEffect
  <2>2. stop' \in StopRecord
    BY <1>0, <1>2 DEF StopWait, StopRecord
  <2> QED BY <1>0, <1>2, <2>1, <2>2 DEF StopWait
<1>3. CASE StopCompare
  <2>1. stop' \in StopRecord
    BY <1>0, <1>3 DEF StopCompare, StopRecord
  <2> QED BY <1>0, <1>3, <2>1 DEF StopCompare
<1>4. CASE StopRemove
  <2>1. stop' \in StopRecord
    BY <1>0, <1>4 DEF StopRemove, StopRecord
  <2> QED BY <1>0, <1>4, <2>1 DEF StopRemove
<1> QED BY <1>1, <1>2, <1>3, <1>4

\* A board started by hand, and one that is asked to end.
LEMMA HandEffect ==
  ASSUME ServiceTypes, NEW b \in Boards, StartByHand(b)
  PROVE  Begun(b) /\ Costs /\ used'.hand # 0 /\ UNCHANGED <<side, addr, pidFile, irohFile, startLock, opener, stop>>
<1>1. Costs /\ used'.hand # 0
  BY SpendEffect DEF StartByHand
<1>2. Begun(b)
  BY BegunEffect DEF StartByHand
<1> QED BY <1>1, <1>2 DEF StartByHand

LEMMA SignalEffect ==
  ASSUME ServiceTypes, NEW b \in Boards, Signal(b)
  PROVE  Told2(b) /\ Costs /\ used'.stop # 0 /\ UNCHANGED <<side, addr, pidFile, irohFile, startLock, opener, stop, crowd>>
<1>1. Costs /\ used'.stop # 0
  BY SpendEffect DEF Signal
<1> QED BY <1>1, ToldEffect DEF Signal

(* Each part of the invariant *)

LEMMA ServicesAlone == ServicesInv /\ UNCHANGED wsVars => ServicesInv'
<1> SUFFICES ASSUME ServicesInv, UNCHANGED wsVars PROVE ServicesInv'
  OBVIOUS
<1>1. ServiceTypes' /\ Locking'
  BY DEF ServicesInv, ServiceTypes, Locking, wsVars
<1>2. Sides' /\ Tried' /\ OneStarts' /\ OnFile'
  BY DEF ServicesInv, Sides, Tried, OneStarts, OnFile, Running, CtxDone, OneAlone, Quietly, wsVars
<1> QED BY <1>1, <1>2 DEF ServicesInv

\* The types.
LEMMA ServiceTypesStep == ServiceTypes /\ Sides /\ Tried /\ ServicesNext => ServiceTypes'
<1> SUFFICES ASSUME ServiceTypes, Sides, Tried, ServicesNext PROVE ServiceTypes'
  OBVIOUS
<1>0. Costs => used' \in [hand : Nat, stop : Nat, fault : Nat, exit : 0 .. MaxExits]
  BY DEF Costs
<1>1. ASSUME NEW b \in Boards, StartByHand(b) PROVE ServiceTypes'
  BY <1>0, <1>1, HandEffect DEF ServiceTypes, Begun
<1>2. ASSUME NEW b \in Boards, Signal(b) PROVE ServiceTypes'
  BY <1>0, <1>2, SignalEffect DEF ServiceTypes, Told2
<1>3. ASSUME NEW b \in Boards, OfBoard(b) PROVE ServiceTypes'
  <2>1. boards' \in [Boards -> BoardRecord2]
    BY <1>3, BoardEffect DEF BoardGoes
  <2>2. side' \in [Boards -> SideRecord]
    BY <1>3, BoardEffect, OffEffect DEF ServiceTypes
  <2>3. irohFile' \in {None, "starting", "ready", "failed", "stopped"}
    BY <1>3, BoardEffect, OffEffect DEF ServiceTypes
  <2> QED BY <1>0, <1>3, <2>1, <2>2, <2>3, BoardEffect DEF ServiceTypes
<1>4. ASSUME NEW b \in Boards, OfSide(b) PROVE ServiceTypes'
  <2>1. SideMoved(b) /\ UNCHANGED <<boards, addr, pidFile, startLock, opener, stop, crowd>>
    BY <1>4, SideRuns, SideEffect
  <2> QED BY <1>0, <2>1 DEF ServiceTypes, SideMoved
<1>5. ASSUME NEW o \in Openers, OpenLook(o) \/ OpenLock(o) \/ OpenAwait(o) PROVE ServiceTypes'
  <2>1. opener' \in [Openers -> OpenRecord]
    BY <1>5, OpenEffect DEF OpensTo
  <2> QED BY <1>0, <1>5, <2>1, OpenEffect DEF ServiceTypes
<1>6. ASSUME NEW o \in Openers, OpenAgain(o) PROVE ServiceTypes'
  <2>1. opener' \in [Openers -> OpenRecord]
    BY <1>6, AgainEffect DEF OpensTo
  <2>2. boards' \in [Boards -> BoardRecord2] /\ crowd' \in BOOLEAN
    BY <1>6, AgainEffect DEF ServiceTypes, Begun
  <2> QED BY <1>0, <1>6, <2>1, <2>2, AgainEffect DEF ServiceTypes
<1>7. CASE StopRead \/ StopWait \/ StopCompare \/ StopRemove
  <2>1. boards' \in [Boards -> BoardRecord2]
    BY <1>7, StopEffect DEF ServiceTypes, Told2
  <2> QED BY <1>0, <1>7, <2>1, StopEffect DEF ServiceTypes
<1> QED BY <1>1, <1>2, <1>3, <1>4, <1>5, <1>6, <1>7, ServicesCases

\* A step that starts or asks a board, or is an opener's or a stop's, leaves every
\* hand-iroh where it is.
Quiet2 == /\ UNCHANGED side /\ Costs
          /\ \/ UNCHANGED boards
             \/ \E b \in Boards : Told2(b)
             \/ \E b \in Boards : Begun(b)

LEMMA QuietCases ==
  ASSUME ServiceTypes, ServicesNext
  PROVE  Quiet2 \/ \E b \in Boards : OfBoard(b) \/ OfSide(b)
<1>1. ASSUME NEW b \in Boards, StartByHand(b) \/ Signal(b) PROVE Quiet2
  BY <1>1, HandEffect, SignalEffect DEF Quiet2
<1>2. ASSUME NEW o \in Openers, OpenLook(o) \/ OpenLock(o) \/ OpenAgain(o) \/ OpenAwait(o) PROVE Quiet2
  BY <1>2, OpenEffect, AgainEffect DEF Quiet2
<1>3. CASE StopRead \/ StopWait \/ StopCompare \/ StopRemove
  BY <1>3, StopEffect DEF Quiet2
<1> QED BY <1>1, <1>2, <1>3, ServicesCases

LEMMA SidesStep == ServiceTypes /\ Sides /\ Tried /\ ServicesNext => Sides'
<1> SUFFICES ASSUME ServiceTypes, Sides, Tried, ServicesNext, NEW b \in Boards
             PROVE  /\ side'[b].at \notin {"off", "done"} => boards'[b].at \in {"serving", "draining"}
                    /\ boards'[b].at \in Before => side'[b].at = "off" /\ side'[b].quick = 0
                    /\ ~boards'[b].iroh => side'[b].at = "off"
                    /\ side'[b].at = "done" => side'[b].status \in {"failed", "stopped"}
                    /\ side'[b].quick <= used'.exit
  BY DEF Sides
<1>0. /\ side[b].at \notin {"off", "done"} => boards[b].at \in {"serving", "draining"}
      /\ boards[b].at \in Before => side[b].at = "off" /\ side[b].quick = 0
      /\ ~boards[b].iroh => side[b].at = "off"
      /\ side[b].at = "done" => side[b].status \in {"failed", "stopped"}
      /\ side[b].quick <= used.exit
      /\ side[b].quick \in Nat /\ used.exit \in Nat
  BY BoardServicesBounds, BoardServicesAssumption DEF Sides, ServiceTypes, SideRecord
<1>1. Costs => side[b].quick <= used'.exit
  <2>1. Costs => used'.exit \in Nat /\ used.exit <= used'.exit
    BY BoardServicesBounds DEF Costs
  <2> QED BY <1>0, <2>1
<1>2. CASE Quiet2
  <2>1. (boards'[b].at = boards[b].at /\ boards'[b].iroh = boards[b].iroh) \/ (boards[b].at = "none" /\ boards'[b].at \in Before)
    BY <1>2 DEF Quiet2, Told2, Begun, Before
  <2>2. side' = side
    BY <1>2 DEF Quiet2
  <2>3. boards[b].at = "none" => boards[b].at \in Before
    BY DEF Before
  <2> QED BY <1>0, <1>1, <1>2, <2>1, <2>2, <2>3 DEF Quiet2
<1>3. ASSUME NEW c \in Boards, OfBoard(c), c # b PROVE side'[b] = side[b] /\ boards'[b] = boards[b]
  <2>1. side'[b] = side[b]
    BY <1>3, BoardEffect, OffEffect
  <2>2. boards'[b] = boards[b]
    BY <1>3, BoardEffect DEF BoardGoes
  <2> QED BY <2>1, <2>2
<1>4. CASE \E c \in Boards : OfBoard(c) /\ c # b
  BY <1>0, <1>1, <1>3, <1>4, BoardEffect
<1>5. CASE OfBoard(b)
  <2>0. boards'[b].iroh = boards[b].iroh /\ Costs
    BY <1>5, BoardEffect DEF BoardGoes
  <2>1. CASE RecordIroh(b)
    <3>1. boards[b].at = "recorded" /\ boards'[b].at = "serving"
      BY <2>1, BoardGoesEffect DEF RecordIroh, BoardGoes, BoardAts
    <3>2. /\ side'[b].at = (IF boards[b].iroh THEN "resolve" ELSE "off") /\ side'[b].quick = side[b].quick
      BY <2>1, OffEffect
    <3> QED BY <1>0, <1>1, <2>0, <3>1, <3>2 DEF Before
  <2>2. CASE KillBoard(b)
    <3>1. boards'[b].at = "gone"
      BY <2>2, BoardGoesEffect DEF KillBoard, BoardGoes, BoardAts, Away
    <3>2. side'[b].at = "off" /\ side'[b].quick = side[b].quick
      BY <2>2, OffEffect
    <3> QED BY <1>0, <1>1, <2>0, <3>1, <3>2 DEF Before
  <2>3. CASE ~RecordIroh(b) /\ ~KillBoard(b)
    <3>1. side' = side
      BY <1>5, <2>3, BoardEffect
    <3>2. \/ boards[b].at = "listening" /\ boards'[b].at = "addressed"
          \/ boards[b].at = "addressed" /\ boards'[b].at = "recorded"
          \/ boards[b].at = "serving" /\ boards'[b].at = "draining"
          \/ side[b].at \in {"off", "done"} /\ boards'[b].at \in {"removing", "unrecorded", "gone"}
      BY <1>0, <1>5, <2>3, BoardGoesEffect DEF OfBoard, RecordAddr, RecordPID, Drain, ComparePID,
         RemovePID, ForgetAddr, BoardGoes, BoardAts, Away
    <3> QED BY <1>0, <1>1, <2>0, <3>1, <3>2 DEF Before
  <2> QED BY <2>1, <2>2, <2>3
<1>6. ASSUME NEW c \in Boards, OfSide(c) PROVE SideMoved(c) /\ boards' = boards
  BY <1>6, SideRuns, SideEffect
<1>7. CASE \E c \in Boards : OfSide(c) /\ c # b
  <2>1. PICK c \in Boards : OfSide(c) /\ c # b
    BY <1>7
  <2>2. side'[b] = side[b] /\ boards' = boards /\ Costs
    BY <1>6, <2>1 DEF SideMoved
  <2> QED BY <1>0, <1>1, <2>2
<1>8. CASE OfSide(b)
  <2>1. SideMoved(b) /\ boards' = boards /\ boards[b].at \in {"serving", "draining"}
    BY <1>6, <1>8, SideRuns
  <2> QED BY <1>0, <2>1 DEF SideMoved, Before
<1> QED BY <1>2, <1>4, <1>5, <1>7, <1>8, QuietCases

LEMMA TriedStep == ServiceTypes /\ Sides /\ Tried /\ ServicesNext => Tried'
<1> SUFFICES ASSUME ServiceTypes, Sides, Tried, ServicesNext, NEW b \in Boards, Running(b)', ~CtxDone(b)'
             PROVE  side'[b].quick <= Attempts /\ (side'[b].at # "done" => side'[b].quick < Attempts)
  BY DEF Tried
<1>0. Attempts \in Nat \ {0} /\ ~boards'[b].asked /\ ~side'[b].halted
  BY BoardServicesAssumption DEF CtxDone
<1>1. ASSUME Running(b), ~CtxDone(b), side'[b].quick = side[b].quick, side'[b].at = side[b].at \/ side[b].at = "off"
      PROVE  side'[b].quick <= Attempts /\ (side'[b].at # "done" => side'[b].quick < Attempts)
  BY <1>1 DEF Tried
<1>2. ASSUME boards[b].at = "none", side'[b] = side[b]
      PROVE  side'[b].quick <= Attempts /\ (side'[b].at # "done" => side'[b].quick < Attempts)
  BY <1>0, <1>2 DEF Sides, Before
<1>3. boards'[b] = boards[b] => Running(b)
  BY DEF Running
<1>4. CASE Quiet2
  <2>1. boards[b].at = "none" \/ (boards'[b].at = boards[b].at /\ (boards[b].asked => boards'[b].asked))
    BY <1>4 DEF Quiet2, Told2, Begun
  <2>2. side' = side
    BY <1>4 DEF Quiet2
  <2>3. boards'[b].at = boards[b].at => Running(b)
    BY DEF Running
  <2>4. ~boards[b].asked => ~CtxDone(b)
    BY <1>0, <2>2 DEF CtxDone
  <2> QED BY <1>0, <1>1, <1>2, <2>1, <2>2, <2>3, <2>4
<1>5. CASE \E c \in Boards : OfBoard(c) /\ c # b
  <2>1. PICK c \in Boards : OfBoard(c) /\ c # b
    BY <1>5
  <2>2. side'[b] = side[b]
    BY <2>1, BoardEffect, OffEffect
  <2>3. boards'[b] = boards[b]
    BY <2>1, BoardEffect DEF BoardGoes
  <2>4. ~CtxDone(b)
    BY <1>0, <2>2, <2>3 DEF CtxDone
  <2> QED BY <1>1, <1>3, <2>2, <2>3, <2>4
<1>6. CASE OfBoard(b)
  <2>1. boards'[b].asked = boards[b].asked /\ boards'[b].at # "gone"
    BY <1>6, BoardEffect DEF BoardGoes, Running, Away
  <2>2. ~KillBoard(b)
    BY <2>1, BoardGoesEffect DEF KillBoard, BoardGoes, BoardAts, Away
  <2>3. side'[b].quick = side[b].quick /\ side'[b].halted = side[b].halted
    BY <1>6, <2>2, BoardEffect, OffEffect
  <2>4. ~CtxDone(b)
    BY <1>0, <2>1, <2>3 DEF CtxDone
  <2>5. Running(b)
    BY <1>6, <2>1, BoardEffect DEF BoardGoes, Running, Away
  <2>6. side'[b].at = side[b].at \/ side[b].at = "off"
    <3>1. RecordIroh(b) => side[b].at = "off"
      BY DEF RecordIroh, Sides, Before
    <3> QED BY <1>6, <2>2, <3>1, BoardEffect
  <2> QED BY <1>1, <2>3, <2>4, <2>5, <2>6
<1>7. ASSUME NEW c \in Boards, OfSide(c) PROVE SideMoved(c) /\ boards' = boards
  BY <1>7, SideRuns, SideEffect
<1>8. CASE \E c \in Boards : OfSide(c) /\ c # b
  <2>1. PICK c \in Boards : OfSide(c) /\ c # b
    BY <1>8
  <2>2. side'[b] = side[b] /\ boards' = boards
    BY <1>7, <2>1 DEF SideMoved
  <2>3. ~CtxDone(b)
    BY <1>0, <2>2 DEF CtxDone
  <2> QED BY <1>1, <1>3, <2>2, <2>3
<1>9. CASE OfSide(b)
  <2>1. SideMoved(b) /\ boards' = boards
    BY <1>7, <1>9
  <2>2. ~CtxDone(b)
    BY <1>0, <2>1 DEF CtxDone, SideMoved
  <2> QED BY <2>1, <2>2 DEF SideMoved
<1> QED BY <1>4, <1>5, <1>6, <1>8, <1>9, QuietCases

LEMMA LockingStep == ServiceTypes /\ Sides /\ Tried /\ Locking /\ ServicesNext => Locking'
<1> SUFFICES ASSUME ServiceTypes, Sides, Tried, Locking, ServicesNext, NEW o \in Openers
             PROVE  /\ opener'[o].at \in {"locked", "await"} => startLock' = o
                    /\ opener'[o].at = "await" => opener'[o].board \in Boards
  BY DEF Locking
<1>0. /\ opener[o].at \in {"locked", "await"} => startLock = o
      /\ opener[o].at = "await" => opener[o].board \in Boards
  BY DEF Locking
<1>1. CASE \E p \in Openers : OpenLook(p) \/ OpenLock(p) \/ OpenAwait(p)
  <2>1. PICK p \in Openers : OpenLook(p) \/ OpenLock(p) \/ OpenAwait(p)
    BY <1>1
  <2>2. CASE p = o
    BY <1>0, <2>1, <2>2, OpenEffect DEF OpensTo
  <2>3. CASE p # o
    <3>1. opener'[o] = opener[o]
      BY <2>1, <2>3, OpenEffect DEF OpensTo
    <3>2. UNCHANGED startLock \/ startLock = None \/ (opener[p].at = "await" /\ Unlocks(p))
      BY <2>1, OpenEffect
    <3>3. opener[p].at = "await" => startLock = p
      BY DEF Locking
    <3> QED BY <1>0, <2>3, <3>1, <3>2, <3>3, BoardServicesAssumption DEF Unlocks
  <2> QED BY <2>2, <2>3
<1>2. CASE \E p \in Openers : OpenAgain(p)
  <2>1. PICK p \in Openers : OpenAgain(p)
    BY <1>2
  <2>2. startLock = p /\ opener[p].at = "locked"
    BY <2>1, AgainEffect DEF Locking
  <2>3. CASE p = o
    BY <2>1, <2>2, <2>3, AgainEffect DEF OpensTo
  <2>4. CASE p # o
    <3>1. opener'[o] = opener[o]
      BY <2>1, <2>4, AgainEffect DEF OpensTo
    <3> QED BY <1>0, <2>2, <2>4, <3>1
  <2> QED BY <2>3, <2>4
<1>3. ASSUME UNCHANGED <<opener, startLock>>
      PROVE  /\ opener'[o].at \in {"locked", "await"} => startLock' = o
             /\ opener'[o].at = "await" => opener'[o].board \in Boards
  BY <1>0, <1>3
<1>4. CASE \E b \in Boards : StartByHand(b) \/ Signal(b) \/ OfBoard(b) \/ OfSide(b)
  BY <1>3, <1>4, HandEffect, SignalEffect, BoardEffect, SideRuns, SideEffect
<1>5. CASE StopRead \/ StopWait \/ StopCompare \/ StopRemove
  BY <1>3, <1>5, StopEffect
<1> QED BY <1>1, <1>2, <1>4, <1>5, ServicesCases

\* One board comes up at a time, under the lock of who started it.
OneRuns == \A b, c \in Boards : Running(b) /\ Running(c) => b = c
Starters == \A o \in Openers : /\ opener[o].at # "failed"
                               /\ opener[o].at = "await" => Running(opener[o].board)
Written == \A b \in Boards : boards[b].at \in {"addressed", "recorded", "serving"} => addr = boards[b].port
Guarded == \A b \in Boards : Running(b) /\ boards[b].at # "serving" => \E o \in Openers : startLock = o /\ opener[o].at = "await"
Rise == \A b \in Boards : boards[b].at \in Rising /\ ~boards[b].asked

LEMMA OneStartsStep == ServiceTypes /\ Sides /\ Tried /\ Locking /\ OneStarts /\ ServicesNext => OneStarts'
<1> SUFFICES ASSUME ServiceTypes, Sides, Tried, Locking, OneStarts, ServicesNext, OneAlone'
             PROVE  OneRuns' /\ Starters' /\ Written' /\ Guarded' /\ Rise'
  BY DEF OneStarts, OneRuns, Starters, Written, Guarded, Rise
<1>0. Costs => OneAlone /\ OneRuns /\ Starters /\ Written /\ Guarded /\ Rise
  BY DEF Costs, OneAlone, OneStarts, OneRuns, Starters, Written, Guarded, Rise
<1>1. \A b \in Boards : Running(b) <=> boards[b].at \notin {"none", "gone", "refused"}
  BY DEF Running, Away
<1>2. \A b \in Boards : Running(b)' <=> boards'[b].at \notin {"none", "gone", "refused"}
  BY DEF Running, Away
<1>3. ASSUME UNCHANGED <<boards, addr, opener, startLock>>, Costs PROVE OneRuns' /\ Starters' /\ Written' /\ Guarded' /\ Rise'
  BY <1>0, <1>3 DEF OneRuns, Starters, Written, Guarded, Rise, Running
<1>4. CASE \E b \in Boards : StartByHand(b) \/ Signal(b)
  BY <1>4, HandEffect, SignalEffect DEF OneAlone
<1>5. CASE StopRead \/ StopWait \/ StopCompare \/ StopRemove
  BY <1>3, <1>5, StopEffect DEF OneAlone
<1>6. CASE \E b \in Boards : OfSide(b)
  <2>1. UNCHANGED <<boards, addr, opener, startLock>> /\ Costs
    BY <1>6, SideRuns, SideEffect DEF SideMoved
  <2> QED BY <1>3, <2>1
<1>7. CASE \E b \in Boards : OfBoard(b)
  <2>1. PICK b \in Boards : OfBoard(b)
    BY <1>7
  <2>2. OneRuns /\ Starters /\ Written /\ Guarded /\ Rise /\ UNCHANGED <<startLock, opener>>
    BY <1>0, <2>1, BoardEffect
  <2>3. boards[b].at \in Rising /\ ~boards[b].asked /\ used'.fault = 0
    BY <2>2 DEF Rise, OneAlone
  <2>4. \/ boards[b].at = "listening" /\ BoardGoes(b, "addressed")
        \/ boards[b].at = "addressed" /\ BoardGoes(b, "recorded")
        \/ boards[b].at = "recorded" /\ BoardGoes(b, "serving")
    BY <2>1, <2>3, BoardEffect DEF Rising
  <2>5. /\ boards'[b].at \in {"addressed", "recorded", "serving"} /\ boards'[b].port = boards[b].port
        /\ boards'[b].asked = boards[b].asked /\ boards[b].at \in {"listening", "addressed", "recorded"}
        /\ \A c \in Boards \ {b} : boards'[c] = boards[c]
    BY <2>4 DEF BoardGoes
  <2>6. Running(b) /\ Running(b)' /\ \A c \in Boards : Running(c)' <=> Running(c)
    BY <1>1, <1>2, <2>5
  <2>7. OneRuns' /\ Rise'
    BY <2>2, <2>5, <2>6 DEF OneRuns, Rise, Rising
  <2>8. Starters'
    <3>1. \A o \in Openers : opener[o].at = "await" => opener[o].board \in Boards
      BY DEF Locking
    <3> QED BY <2>2, <2>6, <3>1 DEF Starters
  <2>9. Guarded'
    BY <2>2, <2>5, <2>6 DEF Guarded
  <2>10. Written'
    <3>1. addr' = boards[b].port
      <4>1. CASE RecordAddr(b)
        BY <4>1 DEF RecordAddr
      <4>2. CASE ~RecordAddr(b)
        <5>1. ~ForgetAddr(b)
          BY <2>5 DEF ForgetAddr
        <5>2. boards[b].at # "listening"
          <6>1. ~KillBoard(b)
            BY <2>5, BoardGoesEffect DEF KillBoard, BoardGoes, BoardAts, Away
          <6> QED BY <2>1, <4>2, <6>1 DEF OfBoard, RecordPID, RecordIroh, Drain, ComparePID,
             RemovePID, ForgetAddr
        <5> QED BY <2>1, <2>2, <2>5, <4>2, <5>1, <5>2, BoardEffect DEF Written
      <4> QED BY <4>1, <4>2
    <3>2. \A c \in Boards : boards'[c].at \in {"addressed", "recorded", "serving"} => c = b
      BY <1>2, <2>2, <2>6 DEF OneRuns
    <3> QED BY <2>5, <3>1, <3>2 DEF Written
  <2> QED BY <2>7, <2>8, <2>9, <2>10
<1>8. CASE \E o \in Openers : OpenLook(o) \/ OpenLock(o) \/ OpenAwait(o)
  <2>1. PICK o \in Openers : OpenLook(o) \/ OpenLock(o) \/ OpenAwait(o)
    BY <1>8
  <2>2. OneRuns /\ Starters /\ Written /\ Guarded /\ Rise /\ UNCHANGED <<boards, addr>> /\ used'.fault = 0
    BY <1>0, <2>1, OpenEffect DEF OneAlone
  <2>3. OneRuns' /\ Written' /\ Rise'
    BY <2>2 DEF OneRuns, Written, Rise, Running
  <2>4. ~(OpensTo(o, "failed") /\ opener[o].at = "await" /\ ~Running(opener[o].board))
    BY <2>2 DEF Starters
  <2>5. /\ opener'[o].at \in {"done", "waiting", "locked"} /\ \A p \in Openers \ {o} : opener'[p] = opener[p]
        /\ UNCHANGED startLock \/ startLock = None \/ (opener[o].at = "await" /\ opener'[o].at = "done")
    BY <2>1, <2>2, <2>4, OpenEffect DEF OpensTo
  <2>6. Starters'
    BY <2>2, <2>5 DEF Starters, Running
  <2>7. Guarded'
    <3> SUFFICES ASSUME NEW b \in Boards, Running(b)', boards'[b].at # "serving"
                 PROVE  \E p \in Openers : startLock' = p /\ opener'[p].at = "await"
      BY DEF Guarded
    <3>1. Running(b) /\ boards[b].at # "serving"
      BY <2>2 DEF Running
    <3>2. PICK p \in Openers : startLock = p /\ opener[p].at = "await"
      BY <2>2, <3>1 DEF Guarded
    <3>3. p # o
      <4> SUFFICES ASSUME p = o PROVE FALSE
        OBVIOUS
      <4>1. OpenAwait(o) /\ Up
        <5>1. OpenAwait(o)
          BY <2>1, <3>2 DEF OpenLook, OpenLock
        <5>2. Spend("fault") => used'.fault # 0
          BY SpendEffect
        <5>3. Running(opener[o].board)
          BY <2>2, <3>2 DEF Starters
        <5> QED BY <2>2, <5>1, <5>2, <5>3 DEF OpenAwait
      <4>2. PICK c \in Boards : boards[c].at = "serving"
        BY <4>1 DEF Up
      <4>3. c = b
        BY <1>1, <2>2, <3>1, <4>2 DEF OneRuns
      <4> QED BY <3>1, <4>2, <4>3
    <3>4. startLock' = startLock /\ opener'[p] = opener[p]
      <4>1. opener[o].at = "await" => startLock = o
        BY DEF Locking
      <4> QED BY <2>5, <3>2, <3>3, <4>1, BoardServicesAssumption
    <3> QED BY <3>2, <3>4
  <2> QED BY <2>3, <2>6, <2>7
<1>9. CASE \E o \in Openers : OpenAgain(o)
  <2>1. PICK o \in Openers : OpenAgain(o)
    BY <1>9
  <2>2. OneRuns /\ Starters /\ Written /\ Guarded /\ Rise /\ UNCHANGED addr /\ opener[o].at = "locked" /\ startLock = o
    BY <1>0, <2>1, AgainEffect DEF Locking
  <2>3. \A b \in Boards : Running(b) => boards[b].at = "serving"
    BY <2>2 DEF Guarded
  <2>4. CASE Up /\ OpensTo(o, "done") /\ Unlocks(o) /\ UNCHANGED <<boards, crowd>>
    <3>1. OneRuns' /\ Written' /\ Rise'
      BY <2>2, <2>4 DEF OneRuns, Written, Rise, Running
    <3>2. Guarded'
      BY <2>3, <2>4 DEF Guarded, Running
    <3>3. Starters'
      BY <2>2, <2>4 DEF Starters, OpensTo, Running
    <3> QED BY <3>1, <3>2, <3>3
  <2>5. CASE /\ ~Up /\ UNCHANGED startLock /\ opener' \in [Openers -> OpenRecord] /\ opener'[o].at = "await"
             /\ \E b \in Boards : Begun(b) /\ opener'[o].board = b
             /\ \A p \in Openers \ {o} : opener'[p] = opener[p]
    <3>1. PICK b \in Boards : Begun(b) /\ opener'[o].board = b
      BY <2>5
    <3>2. \A c \in Boards : ~Running(c)
      BY <2>2, <2>3, <2>5 DEF Up, Written
    <3>3. boards'[b].at = "listening" /\ ~boards'[b].asked /\ \A c \in Boards \ {b} : boards'[c] = boards[c]
      BY <3>1, <3>2 DEF Begun
    <3>4. Running(b)' /\ \A c \in Boards \ {b} : ~Running(c)'
      BY <1>1, <1>2, <3>2, <3>3
    <3>5. OneRuns' /\ Rise'
      BY <2>2, <3>3, <3>4 DEF OneRuns, Rise, Rising
    <3>6. Written'
      BY <1>2, <2>2, <3>3, <3>4 DEF Written
    <3>7. Guarded'
      BY <2>2, <2>5 DEF Guarded
    <3>8. Starters'
      <4>1. \A p \in Openers \ {o} : opener[p].at # "await"
        BY <2>2 DEF Locking
      <4> QED BY <2>2, <2>5, <3>1, <3>4, <4>1 DEF Starters
    <3> QED BY <3>5, <3>6, <3>7, <3>8
  <2> QED BY <2>1, <2>4, <2>5, AgainEffect
<1> QED BY <1>4, <1>5, <1>6, <1>7, <1>8, <1>9, ServicesCases

\* What is on file is of the board that runs, and the other boards have no
\* hand-iroh that could write it.
Latest == \A b \in Boards : Running(b) /\ boards[b].at # "listening" => addr = boards[b].port
Cleared == (\A b \in Boards : ~Running(b)) => addr = None
States == \A b \in Boards : boards[b].at = "serving" => irohFile = IF boards[b].iroh THEN side[b].status ELSE None

LEMMA OnFileStep == ServiceTypes /\ Sides /\ Tried /\ OnFile /\ ServicesNext => OnFile'
<1> SUFFICES ASSUME ServiceTypes, Sides, Tried, OnFile, ServicesNext, Quietly'
             PROVE  OneRuns' /\ Latest' /\ Cleared' /\ States'
  BY DEF OnFile, OneRuns, Latest, Cleared, States
<1>0. ASSUME Costs, crowd' = FALSE => crowd = FALSE PROVE OneRuns /\ Latest /\ Cleared /\ States
  BY <1>0 DEF Costs, Quietly, OnFile, OneRuns, Latest, Cleared, States, ServiceTypes
<1>1. \A b \in Boards : Running(b) <=> boards[b].at \notin {"none", "gone", "refused"}
  BY DEF Running, Away
<1>2. \A b \in Boards : Running(b)' <=> boards'[b].at \notin {"none", "gone", "refused"}
  BY DEF Running, Away
<1>3. ASSUME UNCHANGED <<boards, addr, crowd>>, Costs, States' PROVE OneRuns' /\ Latest' /\ Cleared' /\ States'
  BY <1>0, <1>3 DEF OneRuns, Latest, Cleared, Running
<1>4. ASSUME NEW b \in Boards, Told2(b), UNCHANGED <<addr, crowd, side, irohFile>>, Costs PROVE OneRuns' /\ Latest' /\ Cleared' /\ States'
  <2>1. \A c \in Boards : /\ boards'[c].at = boards[c].at /\ boards'[c].port = boards[c].port /\ boards'[c].iroh = boards[c].iroh
                          /\ (Running(c)' <=> Running(c))
    BY <1>1, <1>2, <1>4 DEF Told2
  <2> QED BY <1>0, <1>4, <2>1 DEF OneRuns, Latest, Cleared, States
<1>5. ASSUME NEW b \in Boards, Begun(b), UNCHANGED <<addr, side, irohFile>>, Costs PROVE OneRuns' /\ Latest' /\ Cleared' /\ States'
  <2>1. crowd = FALSE /\ \A c \in Boards : ~Running(c)
    BY <1>5 DEF Begun, Quietly, ServiceTypes
  <2>2. boards'[b].at = "listening" /\ \A c \in Boards \ {b} : boards'[c] = boards[c]
    BY <1>5, <2>1 DEF Begun
  <2>3. Running(b)' /\ \A c \in Boards \ {b} : ~Running(c)'
    BY <1>1, <1>2, <2>1, <2>2
  <2> QED BY <1>2, <2>2, <2>3 DEF OneRuns, Latest, Cleared, States
<1>6. CASE \E b \in Boards : StartByHand(b) \/ Signal(b)
  BY <1>4, <1>5, <1>6, HandEffect, SignalEffect
<1>7. CASE StopRead \/ StopWait \/ StopCompare \/ StopRemove
  <2>1. UNCHANGED <<side, addr, irohFile, crowd>> /\ Costs /\ (UNCHANGED boards \/ \E b \in Boards : Told2(b))
    BY <1>7, StopEffect
  <2>2. CASE UNCHANGED boards
    <3>1. States'
      BY <1>0, <2>1, <2>2 DEF States
    <3> QED BY <1>3, <2>1, <2>2, <3>1
  <2> QED BY <1>4, <2>1, <2>2
<1>8. CASE \E o \in Openers : OpenLook(o) \/ OpenLock(o) \/ OpenAwait(o)
  <2>1. UNCHANGED <<boards, side, addr, irohFile, crowd>> /\ Costs
    BY <1>8, OpenEffect
  <2>2. States'
    BY <1>0, <2>1 DEF States
  <2> QED BY <1>3, <2>1, <2>2
<1>9. CASE \E o \in Openers : OpenAgain(o)
  <2>1. PICK o \in Openers : OpenAgain(o)
    BY <1>9
  <2>2. UNCHANGED <<side, addr, irohFile>> /\ Costs /\ (UNCHANGED <<boards, crowd>> \/ \E b \in Boards : Begun(b))
    BY <2>1, AgainEffect
  <2>3. CASE UNCHANGED <<boards, crowd>>
    <3>1. States'
      BY <1>0, <2>2, <2>3 DEF States
    <3> QED BY <1>3, <2>2, <2>3, <3>1
  <2> QED BY <1>5, <2>2, <2>3
<1>10. CASE \E b \in Boards : OfSide(b)
  <2>1. PICK b \in Boards : OfSide(b)
    BY <1>10
  <2>2. SideMoved(b) /\ UNCHANGED <<boards, addr, crowd>> /\ Running(b) /\ Costs
    BY <2>1, SideRuns, SideEffect DEF SideMoved
  <2>3. OneRuns /\ States
    BY <1>0, <2>2
  <2>4. States'
    <3> SUFFICES ASSUME NEW c \in Boards, boards'[c].at = "serving"
                 PROVE  irohFile' = IF boards'[c].iroh THEN side'[c].status ELSE None
      BY DEF States
    <3>1. c = b /\ boards[b].at = "serving"
      BY <1>1, <2>2, <2>3 DEF OneRuns
    <3>2. boards[b].iroh
      BY <2>2 DEF SideMoved, Sides
    <3>3. irohFile = side[b].status
      BY <2>3, <3>1, <3>2 DEF States
    <3> QED BY <2>2, <3>1, <3>2, <3>3 DEF SideMoved
  <2> QED BY <1>3, <2>2, <2>4
<1>11. CASE \E b \in Boards : OfBoard(b)
  <2>1. PICK b \in Boards : OfBoard(b)
    BY <1>11
  <2>2. OneRuns /\ Latest /\ Cleared /\ States /\ Costs /\ UNCHANGED crowd /\ used'.fault = 0
    BY <1>0, <2>1, BoardEffect DEF Quietly
  <2>3. ~KillBoard(b)
    BY <2>2, SpendEffect DEF KillBoard
  <2>4. \/ boards[b].at = "listening" /\ BoardGoes(b, "addressed")
        \/ boards[b].at = "addressed" /\ BoardGoes(b, "recorded")
        \/ boards[b].at = "recorded" /\ BoardGoes(b, "serving")
        \/ boards[b].at = "serving" /\ BoardGoes(b, "draining")
        \/ boards[b].at \in {"draining", "removing"} /\ (BoardGoes(b, "removing") \/ BoardGoes(b, "unrecorded"))
        \/ boards[b].at = "unrecorded" /\ BoardGoes(b, "gone")
    BY <2>1, <2>2, BoardEffect
  <2>5. /\ boards'[b].port = boards[b].port /\ boards'[b].iroh = boards[b].iroh /\ \A c \in Boards \ {b} : boards'[c] = boards[c]
        /\ boards'[b].at \in {"addressed", "recorded", "serving", "draining", "removing", "unrecorded", "gone"}
        /\ boards[b].at \in {"listening", "addressed", "recorded", "serving", "draining", "removing", "unrecorded"}
        /\ (boards'[b].at = "gone" <=> boards[b].at = "unrecorded")
        /\ (boards'[b].at = "addressed" <=> boards[b].at = "listening") /\ (boards'[b].at = "serving" <=> boards[b].at = "recorded")
    BY <2>4 DEF BoardGoes
  <2>6. Running(b) /\ (Running(b)' <=> boards'[b].at # "gone") /\ \A c \in Boards \ {b} : ~Running(c) /\ ~Running(c)'
    BY <1>1, <1>2, <2>2, <2>5 DEF OneRuns
  <2>7. OneRuns'
    BY <2>6 DEF OneRuns
  <2>8. addr' = IF boards'[b].at = "gone" THEN None ELSE boards[b].port
    <3>1. CASE RecordAddr(b)
      <4>1. boards[b].at = "listening" /\ addr' = boards[b].port
        BY <3>1 DEF RecordAddr
      <4> QED BY <2>5, <4>1
    <3>2. CASE ForgetAddr(b)
      <4>1. boards[b].at = "unrecorded" /\ addr' = IF addr = boards[b].port THEN None ELSE addr
        BY <3>2 DEF ForgetAddr
      <4>2. addr = boards[b].port
        BY <2>2, <2>6, <4>1 DEF Latest
      <4> QED BY <2>5, <4>1, <4>2
    <3>3. CASE ~RecordAddr(b) /\ ~ForgetAddr(b)
      <4>1. addr' = addr /\ boards[b].at \notin {"listening", "unrecorded"}
        BY <2>1, <2>3, <3>3, BoardEffect DEF OfBoard, RecordPID, RecordIroh, Drain, ComparePID,
           RemovePID
      <4> QED BY <2>2, <2>5, <2>6, <4>1 DEF Latest
    <3> QED BY <3>1, <3>2, <3>3
  <2>9. Latest' /\ Cleared'
    BY <2>5, <2>6, <2>8 DEF Latest, Cleared
  <2>10. States'
    <3> SUFFICES ASSUME NEW c \in Boards, boards'[c].at = "serving"
                 PROVE  irohFile' = IF boards'[c].iroh THEN side'[c].status ELSE None
      BY DEF States
    <3>1. c = b /\ boards[b].at = "recorded"
      BY <1>2, <2>5, <2>6
    <3>2. RecordIroh(b)
      BY <2>1, <2>3, <3>1 DEF OfBoard, RecordAddr, RecordPID, Drain, ComparePID, RemovePID,
         ForgetAddr
    <3> QED BY <2>5, <3>1, <3>2, OffEffect
  <2> QED BY <2>7, <2>9, <2>10
<1> QED BY <1>6, <1>7, <1>8, <1>9, <1>10, <1>11, ServicesCases

LEMMA ServicesStep == ServicesInv /\ [ServicesNext]_wsVars => ServicesInv'
<1> SUFFICES ASSUME ServicesInv, [ServicesNext]_wsVars PROVE ServicesInv'
  OBVIOUS
<1>1. CASE ServicesNext
  BY <1>1, ServiceTypesStep, SidesStep, TriedStep, LockingStep, OneStartsStep, OnFileStep
     DEF ServicesInv
<1>2. CASE UNCHANGED wsVars
  BY <1>2, ServicesAlone
<1> QED BY <1>1, <1>2

\* Of boards that come one after the other the records name the one that serves,
\* calls of hand open at one time start one board, and hand-iroh is given up only
\* after its quick exits (cli/board.go, board_ensure.go, sidecar.go).
THEOREM ServicesRight == ServicesSpec => []ServicesSafety
  BY ServicesStarts, ServicesStep, ServicesImplies, PTL DEF ServicesSpec

\* What a step must do for EndedAsStopped.
SideEnded ==
  \A b \in Boards :
    /\ side[b].at # "done" /\ side'[b].at = "done" /\ CtxDone(b) => side'[b].status = "stopped"
    /\ boards'[b].at \in {"removing", "unrecorded"} => side'[b].at \in {"off", "done"}

LEMMA SideEndedStep == ServicesInv /\ [ServicesNext]_wsVars => SideEnded
<1> SUFFICES ASSUME ServicesInv, [ServicesNext]_wsVars, NEW b \in Boards
             PROVE  /\ side[b].at # "done" /\ side'[b].at = "done" /\ CtxDone(b) => side'[b].status = "stopped"
                    /\ boards'[b].at \in {"removing", "unrecorded"} => side'[b].at \in {"off", "done"}
  BY DEF SideEnded
<1>1. Sides'
  BY ServicesStep DEF ServicesInv
<1>2. boards'[b].at \in {"removing", "unrecorded"} => side'[b].at \in {"off", "done"}
  BY <1>1 DEF Sides
<1>3. CASE UNCHANGED wsVars \/ Quiet2
  BY <1>2, <1>3 DEF wsVars, Quiet2
<1>4. ASSUME NEW c \in Boards, OfSide(c), side[b].at # "done", side'[b].at = "done", CtxDone(b) PROVE side'[b].status = "stopped"
  <2>1. SideMoved(c)
    BY <1>4, SideRuns, SideEffect DEF ServicesInv
  <2>2. c = b
    BY <1>4, <2>1 DEF SideMoved
  <2> QED BY <1>4, <2>1, <2>2 DEF SideMoved
<1>5. ASSUME NEW c \in Boards, OfBoard(c) PROVE side'[b].at = side[b].at \/ side'[b].at # "done"
  <2>1. ServiceTypes
    BY DEF ServicesInv
  <2>2. CASE RecordIroh(c) \/ KillBoard(c)
    BY <2>1, <2>2, OffEffect
  <2>3. CASE ~(RecordIroh(c) \/ KillBoard(c))
    BY <1>5, <2>1, <2>3, BoardEffect
  <2> QED BY <2>2, <2>3
<1> QED BY <1>2, <1>3, <1>4, <1>5, QuietCases DEF ServicesInv
=============================================================================
