--------------------------- MODULE PeerConnections ---------------------------
(***************************************************************************)
(* The connections a phone opens through the iroh sidecar, what they may   *)
(* ask before they are paired, and how revoking the phone ends them:       *)
(* board/peer.go, with closePeers and stillSignedIn of board/phone.go and  *)
(* the event stream of board/events.go.                                    *)
(*                                                                         *)
(* One phone with one endpoint ID and one fleet, paired once and again.    *)
(* Bytes are not counted: the server may close a connection at any time.   *)
(***************************************************************************)
EXTENDS Naturals, FiniteSets, Sequences

CONSTANTS
  Conns,          \* connections to the peer listener
  PeerRequests,   \* requests a connection may make before it is paired
  MaxRequests,    \* requests explored
  MaxRows         \* times the phone is paired

ASSUME PeerAssumption == {PeerRequests, MaxRequests, MaxRows} \subseteq Nat

VARIABLES
  phoneRow,   \* the phone's device row, 0 when it is not paired
  logins,     \* per row there was: TRUE when it names the phone's endpoint
  conn,       \* per connection: its step and the fields of peerConn
  tracked,    \* Peer.conns
  asking,     \* per connection: the request it serves
  sent,       \* requests so far
  revoker,    \* connectRevoke: its step and the connections still to close
  unproved,   \* history, per connection: answers to a cookie that proved nothing
  lateWrites  \* history, per connection: what its last stream wrote after the row was gone

cVars == <<phoneRow, logins, conn, tracked, asking, sent, revoker, unproved, lateWrites>>

\* paired holds the row that proved it, where the code has only TRUE.
NoConn == [at |-> "none", id |-> FALSE, closing |-> "no", paired |-> 0, counted |-> 0]
NoRequest == [at |-> "idle", cookie |-> 0, path |-> "none", proved |-> 0]
AtRest == [at |-> "idle", gone |-> 0, live |-> {}]

At(c, at) == conn' = [conn EXCEPT ![c].at = at]
Goes(c, at) == asking' = [asking EXCEPT ![c].at = at]
Ends(c) == asking' = [asking EXCEPT ![c] = NoRequest]

(***************************************************************************)
(* peerConn.                                                               *)
(***************************************************************************)
Accept(c) ==
  /\ conn[c].at = "none" /\ At(c, "preface")
  /\ UNCHANGED <<phoneRow, logins, tracked, asking, sent, revoker, unproved, lateWrites>>

\* open: the preface names the endpoint, or there is none.
ReadPreface(c) ==
  /\ conn[c].at = "preface" /\ conn[c].closing # "done"
  /\ \E id \in BOOLEAN : conn' = [conn EXCEPT ![c].at = IF id THEN "track" ELSE "open", ![c].id = id]
  /\ UNCHANGED <<phoneRow, logins, tracked, asking, sent, revoker, unproved, lateWrites>>

Track(c) ==
  /\ conn[c].at = "track" /\ At(c, "open")
  /\ tracked' = IF conn[c].closing = "no" THEN tracked \cup {c} ELSE tracked
  /\ UNCHANGED <<phoneRow, logins, asking, sent, revoker, unproved, lateWrites>>

\* Close, by the server: the connection is marked, then untracked and closed.
MarkClosed(c) ==
  /\ conn[c].at # "none" /\ conn[c].closing = "no"
  /\ conn' = [conn EXCEPT ![c].closing = "marked"]
  /\ UNCHANGED <<phoneRow, logins, tracked, asking, sent, revoker, unproved, lateWrites>>

Untrack(c) ==
  /\ conn[c].closing = "marked"
  /\ conn' = [conn EXCEPT ![c].closing = "done"]
  /\ tracked' = tracked \ {c}
  /\ UNCHANGED <<phoneRow, logins, asking, sent, revoker, unproved, lateWrites>>

(***************************************************************************)
(* Peer.ServeHTTP.                                                         *)
(***************************************************************************)
Request(c) ==
  /\ conn[c].at = "open" /\ conn[c].closing = "no" /\ asking[c].at = "idle" /\ sent < MaxRequests
  /\ sent' = sent + 1
  /\ \E cookie \in {0, Len(logins)}, path \in {"page", "events"} :
       asking' = [asking EXCEPT ![c] = [NoRequest EXCEPT !.at = "prove", !.cookie = cookie, !.path = path]]
  /\ UNCHANGED <<phoneRow, logins, conn, tracked, revoker, unproved, lateWrites>>

\* phoneFleets, and in it phoneIdentify: the row is there, and names the
\* endpoint of the connection when it names one.
Prove(c) ==
  LET cookie == asking[c].cookie IN
  /\ asking[c].at = "prove"
  /\ asking' = [asking EXCEPT ![c].at = "count",
                  ![c].proved = IF cookie # 0 /\ cookie = phoneRow /\ (logins[phoneRow] => conn[c].id) THEN phoneRow ELSE 0]
  /\ UNCHANGED <<phoneRow, logins, conn, tracked, sent, revoker, unproved, lateWrites>>

\* A connection is paired from the first proof on, until a cookie fails.
Paired(c) ==
  CASE asking[c].proved # 0 -> asking[c].proved
    [] asking[c].proved = 0 /\ asking[c].cookie # 0 -> 0
    [] OTHER -> conn[c].paired

Answer(c) ==
  LET q == asking[c]
      n == IF Paired(c) = 0 THEN conn[c].counted + 1 ELSE conn[c].counted
      over == Paired(c) = 0 /\ n > PeerRequests
  IN
  /\ q.at = "count"
  /\ conn' = [conn EXCEPT ![c].paired = Paired(c), ![c].counted = n,
                          ![c].closing = IF over /\ @ = "no" THEN "marked" ELSE @]
  /\ unproved' = IF q.cookie # 0 /\ q.proved = 0 /\ ~over THEN [unproved EXCEPT ![c] = @ + 1] ELSE unproved
  /\ IF ~over /\ q.proved # 0 /\ q.path = "events"
     THEN Goes(c, "check") /\ lateWrites' = [lateWrites EXCEPT ![c] = 0]
     ELSE Ends(c) /\ UNCHANGED lateWrites
  /\ UNCHANGED <<phoneRow, logins, tracked, sent, revoker>>

(***************************************************************************)
(* events: the loop of a stream.                                           *)
(***************************************************************************)
StillSignedIn(c) ==
  /\ asking[c].at = "check" /\ conn[c].closing # "done"
  /\ IF phoneRow = asking[c].proved THEN Goes(c, "write") ELSE Ends(c)
  /\ UNCHANGED <<phoneRow, logins, conn, tracked, sent, revoker, unproved, lateWrites>>

WriteEvents(c) ==
  /\ asking[c].at = "write" /\ conn[c].closing # "done"
  /\ lateWrites' = IF phoneRow = asking[c].proved THEN lateWrites ELSE [lateWrites EXCEPT ![c] = IF @ < 2 THEN @ + 1 ELSE @]
  /\ Goes(c, "check")
  /\ UNCHANGED <<phoneRow, logins, conn, tracked, sent, revoker, unproved>>

\* The request's context ends with its connection.
Abandon(c) ==
  /\ asking[c].at # "idle" /\ conn[c].closing = "done"
  /\ Ends(c)
  /\ UNCHANGED <<phoneRow, logins, conn, tracked, sent, revoker, unproved, lateWrites>>

(***************************************************************************)
(* Pairing and revoking.                                                   *)
(***************************************************************************)
Pair ==
  /\ phoneRow = 0 /\ revoker.at = "idle" /\ Len(logins) < MaxRows
  /\ phoneRow' = Len(logins) + 1
  /\ \E byEndpoint \in BOOLEAN : logins' = Append(logins, byEndpoint)
  /\ UNCHANGED <<conn, tracked, asking, sent, revoker, unproved, lateWrites>>

\* connectRevoke: the row goes first, and then the phone's connections.
RevokeDevice ==
  /\ phoneRow # 0 /\ revoker.at = "idle"
  /\ phoneRow' = 0
  /\ revoker' = [AtRest EXCEPT !.at = "collect", !.gone = phoneRow]
  /\ UNCHANGED <<logins, conn, tracked, asking, sent, unproved, lateWrites>>

\* closePeers: only a row that names an endpoint.
Collect ==
  /\ revoker.at = "collect"
  /\ revoker' = [revoker EXCEPT !.at = "close", !.live = IF logins[revoker.gone] THEN {c \in tracked : conn[c].id} ELSE {}]
  /\ UNCHANGED <<phoneRow, logins, conn, tracked, asking, sent, unproved, lateWrites>>

CloseEndpoint(c) ==
  /\ revoker.at = "close" /\ c \in revoker.live
  /\ revoker' = [revoker EXCEPT !.live = @ \ {c}]
  /\ conn' = [conn EXCEPT ![c].closing = "done"]
  /\ tracked' = tracked \ {c}
  /\ UNCHANGED <<phoneRow, logins, asking, sent, unproved, lateWrites>>

EndpointClosed ==
  /\ revoker.at = "close" /\ revoker.live = {}
  /\ revoker' = AtRest
  /\ UNCHANGED <<phoneRow, logins, conn, tracked, asking, sent, unproved, lateWrites>>

PeerInit ==
  /\ phoneRow = 0 /\ logins = <<>> /\ conn = [c \in Conns |-> NoConn] /\ tracked = {}
  /\ asking = [c \in Conns |-> NoRequest] /\ sent = 0 /\ revoker = AtRest
  /\ unproved = [c \in Conns |-> 0] /\ lateWrites = [c \in Conns |-> 0]

PeerNext ==
  \/ \E c \in Conns :
       \/ Accept(c) \/ ReadPreface(c) \/ Track(c) \/ MarkClosed(c) \/ Untrack(c)
       \/ Request(c) \/ Prove(c) \/ Answer(c) \/ StillSignedIn(c) \/ WriteEvents(c) \/ Abandon(c)
       \/ CloseEndpoint(c)
  \/ Pair \/ RevokeDevice \/ Collect \/ EndpointClosed

PeerSpec == PeerInit /\ [][PeerNext]_cVars

\* Types; a tracked connection has named its endpoint and is not closed, even
\* when the close came while its preface was read.
PeerTypeOK ==
  /\ phoneRow \in {0, Len(logins)} /\ sent \in 0 .. MaxRequests
  /\ \A c \in tracked : conn[c].at = "open" /\ conn[c].id /\ conn[c].closing # "done"

\* A connection counts as paired only by a row that is still there, unless the
\* row is being revoked or names no endpoint to close connections of: no
\* connection that was opened, tracked or proved meanwhile is missed.
PairedByRow ==
  \A c \in Conns :
    LET k == conn[c].paired IN
    k # 0 /\ conn[c].closing = "no" /\ logins[k] => k = phoneRow \/ revoker.gone = k

\* No connection gets more than PeerRequests answers with a cookie that proves
\* nothing, whatever it proved before.
Allowance == \A c \in Conns : unproved[c] <= PeerRequests

\* A stream writes at most once after the row it was opened by is gone.
StreamEnds == \A c \in Conns : lateWrites[c] <= 1

\* What a phone may do over its connections ends with its row.
PeerSafety == PeerTypeOK /\ PairedByRow /\ Allowance /\ StreamEnds
=============================================================================
