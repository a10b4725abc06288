---------------------------- MODULE IrohForwarder ----------------------------
(***************************************************************************)
(* The iroh sidecar's forwarder (iroh/src/forward.rs): which connections   *)
(* it lets in, how many streams one may open, and when it ends a silent    *)
(* one.  Bytes, the preface and QUIC itself are left out; a connection has *)
(* at most one stream at a time.                                           *)
(*                                                                         *)
(* Time is counted in units in which a connection earns one stream.        *)
(***************************************************************************)
EXTENDS Naturals, FiniteSets

CONSTANTS
  Links,            \* connections that come in, each once
  Sources,          \* networks and relayed endpoints they come from
  MaxConnections,   \* --max-connections
  Handshakes, PerSource, HandshakeWait,   \* Limits
  Quiet,            \* Config.idle
  Burst,            \* STREAMS_PER_CONNECTION
  MaxTime

ASSUME ForwarderAssumption ==
  /\ {MaxConnections, Handshakes, PerSource, HandshakeWait, Quiet, Burst, MaxTime} \subseteq Nat
  /\ Quiet > 0

VARIABLES
  now,
  link,      \* per connection: its step, its source, and when it began it
  slots,     \* permits left of Semaphore slots
  shakes,    \* permits left of Semaphore handshakes
  counts,    \* Sources: connections per source
  bucket,    \* per connection: the streams it may open now
  active,    \* per connection: when its Activity was touched last
  stream,    \* per connection: its stream and that stream's Activity
  opened,    \* history, per connection: the streams it opened
  moved      \* history, per connection: when it last moved bytes

lVars == <<now, link, slots, shakes, counts, bucket, active, stream, opened, moved>>

NoLink == [at |-> "new", source |-> "none", since |-> 0]
NoStream == [at |-> "none", active |-> 0]

LinkStep(k, at) == link' = [link EXCEPT ![k].at = at, ![k].since = now]
Streams == <<bucket, active, stream, opened, moved>>

\* A connection that is refused gives back what admit had taken for it.
Refuse(k) == UNCHANGED shakes

\* admit: a free slot, a free handshake, and a source below its limit.
Incoming(k) ==
  /\ link[k].at = "new"
  /\ \E s \in Sources :
       \/ /\ slots = 0 \/ shakes = 0
          /\ LinkStep(k, "refused") /\ UNCHANGED <<shakes, counts>>
       \/ /\ slots > 0 /\ shakes > 0 /\ counts[s] >= PerSource
          /\ LinkStep(k, "refused") /\ Refuse(k) /\ UNCHANGED counts
       \/ /\ slots > 0 /\ shakes > 0 /\ counts[s] < PerSource
          /\ link' = [link EXCEPT ![k] = [at |-> "handshake", source |-> s, since |-> now]]
          /\ shakes' = shakes - 1 /\ counts' = [counts EXCEPT ![s] = @ + 1]
  /\ UNCHANGED <<now, slots, Streams>>

Drop(k) == counts' = [counts EXCEPT ![link[k].source] = @ - 1]

\* connect: the handshake failed, or took longer than its wait.
HandshakeFails(k) ==
  /\ link[k].at = "handshake"
  /\ LinkStep(k, "gone") /\ shakes' = shakes + 1 /\ Drop(k)
  /\ UNCHANGED <<now, slots, Streams>>

HandshakeEnds(k) ==
  /\ link[k].at = "handshake" /\ now - link[k].since <= HandshakeWait
  /\ LinkStep(k, "shaken") /\ shakes' = shakes + 1
  /\ UNCHANGED <<now, slots, counts, Streams>>

\* The slot that was free in admit may be taken by now.
TakeSlot(k) ==
  /\ link[k].at = "shaken"
  /\ \/ /\ slots > 0 /\ slots' = slots - 1
        /\ LinkStep(k, "serve") /\ UNCHANGED counts
        /\ bucket' = [bucket EXCEPT ![k] = Burst]
        /\ active' = [active EXCEPT ![k] = now] /\ moved' = [moved EXCEPT ![k] = now]
     \/ /\ slots = 0 /\ LinkStep(k, "full") /\ Drop(k)
        /\ UNCHANGED <<slots, bucket, active, moved>>
  /\ UNCHANGED <<now, shakes, stream, opened>>

(***************************************************************************)
(* serve_connection and forward.                                           *)
(***************************************************************************)
Take(k) == [bucket EXCEPT ![k] = @ - 1]

AcceptStream(k) ==
  /\ link[k].at = "serve" /\ stream[k].at = "none" /\ bucket[k] > 0
  /\ bucket' = Take(k)
  /\ stream' = [stream EXCEPT ![k] = [at |-> "opening", active |-> now]]
  /\ opened' = [opened EXCEPT ![k] = @ + 1]
  /\ UNCHANGED <<now, link, slots, shakes, counts, active, moved>>

\* open_board: the Board answers, or it does not within the idle time.
OpenBoard(k) ==
  /\ stream[k].at = "opening"
  /\ \/ now - stream[k].active <= Quiet /\ stream' = [stream EXCEPT ![k] = [at |-> "open", active |-> now]]
     \/ stream' = [stream EXCEPT ![k] = NoStream]
  /\ UNCHANGED <<now, link, slots, shakes, counts, bucket, active, opened, moved>>

\* Touch: a stream that moves bytes keeps its connection, too.
Touch(k) == stream' = [stream EXCEPT ![k].active = now] /\ active' = [active EXCEPT ![k] = now]

MoveBytes(k) ==
  /\ stream[k].at = "open"
  /\ Touch(k) /\ moved' = [moved EXCEPT ![k] = now]
  /\ UNCHANGED <<now, link, slots, shakes, counts, bucket, opened>>

\* The copies ended, or the stream was quiet for the idle time.
EndStream(k) ==
  /\ stream[k].at = "open"
  /\ stream' = [stream EXCEPT ![k] = NoStream]
  /\ UNCHANGED <<now, link, slots, shakes, counts, bucket, active, opened, moved>>

\* The slot and the source are given back, and the streams are aborted.
Leave(k, at) ==
  /\ link[k].at = "serve"
  /\ LinkStep(k, at) /\ slots' = slots + 1 /\ Drop(k)
  /\ stream' = [stream EXCEPT ![k] = NoStream]
  /\ UNCHANGED <<now, shakes, bucket, active, opened, moved>>

IdleConnection(k) == now - active[k] >= Quiet /\ Leave(k, "idle")
PeerLeaves(k) == Leave(k, "gone")

\* Bucket.refill.
Refill == [k \in Links |-> IF link[k].at = "serve" /\ bucket[k] < Burst THEN bucket[k] + 1 ELSE bucket[k]]

Tick ==
  /\ now < MaxTime /\ now' = now + 1
  /\ bucket' = Refill
  /\ UNCHANGED <<link, slots, shakes, counts, active, stream, opened, moved>>

ForwarderInit ==
  /\ now = 0 /\ link = [k \in Links |-> NoLink]
  /\ slots = MaxConnections /\ shakes = Handshakes /\ counts = [s \in Sources |-> 0]
  /\ bucket = [k \in Links |-> 0] /\ active = [k \in Links |-> 0] /\ stream = [k \in Links |-> NoStream]
  /\ opened = [k \in Links |-> 0] /\ moved = [k \in Links |-> 0]

ForwarderNext ==
  \/ \E k \in Links :
       \/ Incoming(k) \/ HandshakeFails(k) \/ HandshakeEnds(k) \/ TakeSlot(k)
       \/ AcceptStream(k) \/ OpenBoard(k) \/ MoveBytes(k) \/ EndStream(k) \/ IdleConnection(k) \/ PeerLeaves(k)
  \/ Tick

ForwarderSpec == ForwarderInit /\ [][ForwarderNext]_lVars

AtStep(steps) == {k \in Links : link[k].at \in steps}

\* Every permit and every count belongs to a connection that is there: whatever
\* way a connection ends, at whatever step, it leaves nothing taken.
PermitsHeld ==
  /\ slots + Cardinality(AtStep({"serve"})) = MaxConnections
  /\ shakes + Cardinality(AtStep({"handshake"})) = Handshakes
  /\ \A s \in Sources : counts[s] = Cardinality({k \in AtStep({"handshake", "shaken", "serve"}) : link[k].source = s})

\* No connection opens more streams than its burst and what it earned since.
StreamsBounded == \A k \in AtStep({"serve"}) : opened[k] <= Burst + (now - link[k].since)

\* A connection is ended as idle only when none of its streams moved a byte for
\* the idle time.
IdleIsQuiet == \A k \in AtStep({"idle"}) : link[k].since - moved[k] >= Quiet

\* Admission and streams stay within their limits and give back what they took;
\* only silent connections are ended as idle.
ForwarderSafety == PermitsHeld /\ StreamsBounded /\ IdleIsQuiet
=============================================================================
