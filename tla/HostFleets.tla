----------------------------- MODULE HostFleets -----------------------------
(***************************************************************************)
(* How one Board process serves a fleet that may be moved while requests   *)
(* are answered: the host's cache of open fleets (board/host.go) and the   *)
(* Board made for the token that is in board.token (cli/board.go).         *)
(*                                                                         *)
(* One fleet, with the requests that ask for it.  A handle is one opened   *)
(* store with its fleetBoard; users of it are the requests counted in its  *)
(* WaitGroup.  Routing, cookies and pages are left out, and so are opens   *)
(* that fail for another reason than a fleet that is not there.            *)
(***************************************************************************)
EXTENDS Naturals, FiniteSets, Sequences

CONSTANTS
  Requests,   \* HTTP requests, each asked again and again
  Homes,      \* folders the fleet may be in
  Tries,      \* how often handler() opens a fleet that keeps moving
  MaxAsks, MaxMoves

ASSUME HostAssumption == {Tries, MaxAsks, MaxMoves} \subseteq Nat /\ Tries > 0

VARIABLES
  home,       \* what Resolve answers: the folder the fleet is in, or Lost
  secret,     \* the version of board.token, 0 when there is none
  newest,     \* the newest version of it
  cached,     \* the handle the host keeps, 0 for none
  handles,    \* the handles opened so far
  ask,        \* per request: its step, what it holds, and as history the homes
              \* and tokens there were since it began
  asks, moves

hVars == <<home, secret, newest, cached, handles, ask, asks, moves>>

Lost == "lost"
NoBoard == [token |-> 0, stat |-> 0]
ClosedStore == [home |-> Lost, board |-> NoBoard, open |-> FALSE, retired |-> TRUE, cancelled |-> TRUE]
Quiescent == [at |-> "idle", home |-> Lost, handle |-> 0, uses |-> FALSE, try |-> 0, before |-> 0, token |-> 0,
              homes |-> {}, tokens |-> {}]

\* hosted.busy: the requests that use a handle.
Users(n) == {r \in Requests : ask[r].uses /\ ask[r].handle = n}
\* fleetBoard.mu is held while the token is read.
Locked(n) == \E r \in Requests : ask[r].handle = n /\ ask[r].at \in {"secret", "after"}

\* The requests that go on remember what they could have seen.
Seen(h, t) == [q \in Requests |-> IF ask[q].at = "idle" THEN ask[q]
                                  ELSE [ask[q] EXCEPT !.homes = @ \cup {h}, !.tokens = @ \cup {t}]]
To(r, at) == ask' = [ask EXCEPT ![r].at = at]
Answered(r) == ask' = [ask EXCEPT ![r] = Quiescent]
World == <<home, secret, newest, moves>>

(***************************************************************************)
(* handler: the fleet's handle, opened when it is not cached.              *)
(***************************************************************************)
Ask(r) ==
  /\ ask[r].at = "idle" /\ asks < MaxAsks
  /\ asks' = asks + 1
  /\ ask' = [ask EXCEPT ![r] = [Quiescent EXCEPT !.at = "resolve", !.try = 1, !.homes = {home}, !.tokens = {secret}]]
  /\ UNCHANGED <<World, cached, handles>>

Resolve(r) ==
  /\ ask[r].at = "resolve"
  /\ ask' = [ask EXCEPT ![r].at = "cached", ![r].home = home]
  /\ UNCHANGED <<World, cached, handles, asks>>

\* retire: the handle leaves the cache; it is closed when nothing uses it.
Retire == IF cached = 0 THEN handles ELSE [handles EXCEPT ![cached].retired = TRUE]

Cached(r) ==
  /\ ask[r].at = "cached"
  /\ IF cached # 0 /\ ask[r].home # Lost /\ handles[cached].home = ask[r].home
     THEN ask' = [ask EXCEPT ![r].at = "stat", ![r].handle = cached, ![r].uses = TRUE] /\ UNCHANGED <<cached, handles>>
     ELSE /\ cached' = 0 /\ handles' = Retire
          /\ IF ask[r].home = Lost THEN Answered(r) ELSE To(r, "open")
  /\ UNCHANGED <<World, asks>>

\* openBoard: the store opens when the fleet is still there.
OpenBoard(r) ==
  /\ ask[r].at = "open"
  /\ IF ask[r].home = home
     THEN /\ handles' = Append(handles, [home |-> home, board |-> NoBoard, open |-> TRUE, retired |-> FALSE, cancelled |-> FALSE])
          /\ ask' = [ask EXCEPT ![r].at = "stat", ![r].handle = Len(handles')]
     ELSE Answered(r) /\ UNCHANGED handles
  /\ UNCHANGED <<World, cached, asks>>

Close(n) == [handles EXCEPT ![n] = ClosedStore]

\* The fleet is looked up again: a store that was opened where the fleet no
\* longer is, is closed.
ResolveAgain(r) ==
  /\ ask[r].at = "again"
  /\ IF home = ask[r].home THEN To(r, "publish") /\ UNCHANGED handles
     ELSE /\ handles' = Close(ask[r].handle)
          /\ IF ask[r].try < Tries
             THEN ask' = [ask EXCEPT ![r].at = "resolve", ![r].handle = 0, ![r].home = Lost, ![r].before = 0, ![r].token = 0,
                                 ![r].try = ask[r].try + 1]
             ELSE Answered(r)
  /\ UNCHANGED <<World, cached, asks>>

BugPublish(r) ==
  LET n == ask[r].handle IN
  /\ ask[r].at = "publish"
  /\ IF cached # 0 /\ handles[cached].home = ask[r].home
     THEN handles' = Close(n) /\ ask' = [ask EXCEPT ![r].at = "stat", ![r].handle = cached, ![r].uses = TRUE] /\ UNCHANGED cached
     ELSE cached' = n /\ ask' = [ask EXCEPT ![r].at = "stat", ![r].uses = TRUE] /\ UNCHANGED handles
  /\ UNCHANGED <<World, asks>>

\* The handle becomes the cached one, unless another request was first.
Publish(r) ==
  LET n == ask[r].handle IN
  /\ ask[r].at = "publish"
  /\ IF cached # 0 /\ handles[cached].home = ask[r].home
     THEN handles' = Close(n) /\ ask' = [ask EXCEPT ![r].at = "stat", ![r].handle = cached, ![r].uses = TRUE] /\ UNCHANGED cached
     ELSE handles' = Retire /\ cached' = n /\ ask' = [ask EXCEPT ![r].at = "stat", ![r].uses = TRUE]
  /\ UNCHANGED <<World, asks>>

(***************************************************************************)
(* fleetBoard.current: the Board for the token that is in the file.        *)
(***************************************************************************)
Passed(r) == To(r, IF ask[r].uses THEN "serve" ELSE "again")

StatToken(r) ==
  LET b == handles[ask[r].handle].board IN
  /\ ask[r].at = "stat" /\ ~Locked(ask[r].handle)
  /\ IF secret # 0 /\ b.stat = secret THEN Passed(r)
     ELSE ask' = [ask EXCEPT ![r].at = "secret", ![r].before = secret]
  /\ UNCHANGED <<World, cached, handles, asks>>

\* boardToken makes the file when there is none.
ReadToken(r) ==
  LET made == IF secret = 0 THEN newest + 1 ELSE secret IN
  /\ ask[r].at = "secret"
  /\ secret' = made
  /\ newest' = IF secret = 0 THEN made ELSE newest
  /\ ask' = [Seen(home, made) EXCEPT ![r].at = "after", ![r].token = made]
  /\ UNCHANGED <<home, moves, cached, handles, asks>>

BugStatAfter(r) ==
  LET n == ask[r].handle IN
  /\ ask[r].at = "after"
  /\ IF secret = 0
     THEN Answered(r) /\ handles' = IF ask[r].uses THEN handles ELSE Close(n)
     ELSE handles' = [handles EXCEPT ![n].board = [token |-> ask[r].token, stat |-> secret]] /\ Passed(r)
  /\ UNCHANGED <<World, cached, asks>>

StatAfter(r) ==
  LET n == ask[r].handle IN
  /\ ask[r].at = "after"
  /\ CASE secret = 0 -> Answered(r) /\ handles' = IF ask[r].uses THEN handles ELSE Close(n)
       [] secret # 0 /\ ask[r].before = secret ->
            handles' = [handles EXCEPT ![n].board = [token |-> ask[r].token, stat |-> secret]] /\ Passed(r)
       [] OTHER -> ask' = [ask EXCEPT ![r].at = "secret", ![r].before = secret] /\ UNCHANGED handles
  /\ UNCHANGED <<World, cached, asks>>

\* The answer is complete, or its context was cancelled.
Finish(r) ==
  /\ ask[r].at = "serve"
  /\ Answered(r)
  /\ UNCHANGED <<World, cached, handles, asks>>

Cancelled(r) == ask[r].at = "serve" /\ handles[ask[r].handle].cancelled

(***************************************************************************)
(* retire's goroutine.                                                     *)
(***************************************************************************)
Grace(n) ==
  /\ n \in DOMAIN handles /\ handles[n].retired /\ Users(n) # {} /\ ~handles[n].cancelled
  /\ handles' = [handles EXCEPT ![n].cancelled = TRUE]
  /\ UNCHANGED <<World, cached, ask, asks>>

CloseRetired(n) ==
  /\ n \in DOMAIN handles /\ handles[n].retired /\ handles[n].open /\ Users(n) = {}
  /\ handles' = Close(n)
  /\ UNCHANGED <<World, cached, ask, asks>>

(***************************************************************************)
(* The fleet.                                                              *)
(***************************************************************************)
MoveFleet ==
  /\ moves < MaxMoves /\ moves' = moves + 1
  /\ home' \in (Homes \cup {Lost}) \ {home}
  /\ ask' = Seen(home', secret)
  /\ UNCHANGED <<secret, newest, cached, handles, asks>>

\* The operator deletes board.token, or puts another in its place.
ChangeToken ==
  /\ moves < MaxMoves /\ moves' = moves + 1 /\ secret # 0
  /\ secret' \in {0, newest + 1}
  /\ newest' = IF secret' = 0 THEN newest ELSE secret'
  /\ ask' = Seen(home, secret')
  /\ UNCHANGED <<home, cached, handles, asks>>

HostInit ==
  /\ home \in Homes /\ secret = 1 /\ newest = 1
  /\ cached = 0 /\ handles = <<>> /\ ask = [r \in Requests |-> Quiescent]
  /\ asks = 0 /\ moves = 0

Serve(r) ==
  Resolve(r) \/ Cached(r) \/ OpenBoard(r) \/ ResolveAgain(r) \/ Publish(r)
  \/ StatToken(r) \/ ReadToken(r) \/ StatAfter(r)

HostNext ==
  \/ \E r \in Requests : Ask(r) \/ Serve(r) \/ Finish(r)
  \/ \E n \in 1 .. Tries * MaxAsks : Grace(n) \/ CloseRetired(n)
  \/ MoveFleet \/ ChangeToken

HostSpec == HostInit /\ [][HostNext]_hVars

\* A request goes on until it is answered; its answer may be a stream, which
\* ends when it is cancelled.
HostFairness ==
  /\ WF_hVars(\E r \in Requests : Serve(r))
  /\ WF_hVars(\E r \in Requests : Cancelled(r) /\ Finish(r))
  /\ WF_hVars(\E n \in 1 .. Tries * MaxAsks : Grace(n))
  /\ WF_hVars(\E n \in 1 .. Tries * MaxAsks : CloseRetired(n))

\* Types, and the host's cache holds a handle that was not retired.
HostTypeOK ==
  /\ home \in Homes \cup {Lost} /\ secret \in 0 .. newest
  /\ cached \in 0 .. Len(handles)
  /\ \A r \in Requests : ask[r].handle \in 0 .. Len(handles)
  /\ cached # 0 => handles[cached].open /\ ~handles[cached].retired

\* The store of a request is never closed under it.
NeverClosedInUse ==
  \A r \in Requests : ask[r].handle # 0 => handles[ask[r].handle].open

\* A request is answered from a folder the fleet was in while the request
\* went on, and with a token board.token held meanwhile.
ServedCurrent ==
  [][\A r \in Requests : ask[r].at # "serve" /\ ask'[r].at = "serve" =>
       LET h == handles'[ask[r].handle] IN
       h.open => h.home \in ask[r].homes /\ h.board.token \in ask[r].tokens]_hVars

\* Once no more requests come, every store the host opened is the cached one or
\* is closed again, whatever the fleet did and however long its streams would
\* last.
StoresClosed == []<>(\A n \in DOMAIN handles : handles[n].open => cached = n)

\* The cache holds an open store, and so does every request.
HostSafety == HostTypeOK /\ NeverClosedInUse
=============================================================================
