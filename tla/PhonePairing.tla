---------------------------- MODULE PhonePairing ----------------------------
(***************************************************************************)
(* Pairing a phone with several fleets by one code, and revoking it:       *)
(* board/phone.go, board/roster.go and the fleets a Board process reaches  *)
(* for them (board/host.go).                                               *)
(*                                                                         *)
(* One fleet, Own, shows the codes.  A Board is made for one version of    *)
(* its fleet's board.token and keeps codes and counted tries in memory; a  *)
(* request goes on with the Board it began with.  A phone is one network   *)
(* address.  The 90 days of a pairing, logins and page texts are left out. *)
(***************************************************************************)
EXTENDS Naturals, FiniteSets

CONSTANTS
  Phones, Own, Others,   \* phones; the fleet that shows codes, the other fleets
  PairFails,             \* wrong tries that cancel every code
  AddrFails,             \* wrong tries that block one address
  MaxCodes, MaxPosts, MaxTokens,
  MaxEvents              \* failures, restarts, revocations, new tokens and periods of time that end

ASSUME PairingAssumption ==
  /\ {PairFails, AddrFails, MaxCodes, MaxPosts, MaxTokens, MaxEvents} \subseteq Nat
  /\ PairFails > 0 /\ AddrFails > 0 /\ MaxTokens > 0 /\ Own \notin Others

Fleets == {Own} \cup Others
Codes == 1 .. MaxCodes
Wrong == 0              \* what a phone types that is no code

VARIABLES
  key,       \* per fleet: the version of board.token
  laptop,    \* per other fleet: the version the operator's browser is signed in with
  board,     \* per version of Own's token: the Board's codes, fails and tries
  shown,     \* how many codes were shown
  post,      \* per phone: the request that posts a code
  posts, events,
  rows,      \* the device rows of all fleets
  made,      \* history: every row there ever was
  jar,       \* per phone and fleet: the cookie
  told,      \* history: wrong answers since a code was shown
  revoke     \* the request that revokes a phone everywhere

pVars == <<key, laptop, board, shown, post, posts, events, rows, made, jar, told, revoke>>

NoCookie == [row |-> 0, was |-> 0]
NoPost == [at |-> "idle", id |-> 0, typed |-> Wrong, key |-> 0, was |-> [f \in Fleets |-> 0], todo |-> {}, got |-> {}]
NoTry == [n |-> 0, late |-> FALSE]
NoRevoke == [at |-> "idle", label |-> 0, todo |-> {}, failed |-> FALSE, done |-> {}, racing |-> FALSE]
NewBoard == [codes |-> {}, fails |-> 0, tries |-> [p \in Phones |-> NoTry]]

(***************************************************************************)
(* The codes of a Board.                                                   *)
(***************************************************************************)
Usable(c) == ~c.used /\ c.age = "fresh"
Pruned(b) == [b EXCEPT !.codes = {c \in @ : c.age # "old"},
                       !.tries = [p \in Phones |-> IF b.tries[p].late THEN NoTry ELSE b.tries[p]]]
Burned(b) == [b EXCEPT !.codes = {}, !.fails = 0, !.tries = [p \in Phones |-> NoTry]]

\* mint: the code that could still be used is cancelled.
Minted(b, c) == [Pruned(b) EXCEPT !.codes = {d \in @ : ~Usable(d)} \cup {c}]

\* redeem, when the code is right.
Spent(b, p, c) ==
  [b EXCEPT !.codes = (@ \ {c}) \cup {[c EXCEPT !.used = TRUE]}, !.fails = 0, !.tries[p] = NoTry]

\* redeem, when it is not.
Counted(b, p) ==
  IF b.fails + 1 >= PairFails THEN Burned(b)
  ELSE [b EXCEPT !.fails = @ + 1, !.tries[p].n = @ + 1]

\* tokenProves: the browser shows the token the file holds.
SignedIn(f) == f \in {Own} \cup {g \in Others : laptop[g] = key[g]}

\* connectCode, connectApp: the operator's browser is signed in to Own, with
\* `hand open` when it was not, and to every fleet it chooses.
ShowCode(chosen) ==
  LET v == key[Own]
      c == [id |-> shown + 1, used |-> FALSE, age |-> "fresh", fleets |-> {Own} \cup chosen] IN
  /\ shown < MaxCodes /\ \A f \in chosen : SignedIn(f)
  /\ shown' = shown + 1
  /\ board' = [board EXCEPT ![v] = Minted(@, c)]
  /\ UNCHANGED <<key, laptop, post, posts, events, rows, made, jar, told, revoke>>

\* pair: a phone posts what was typed, to the Board there is now.
PostCode(p) ==
  /\ post[p].at = "idle" /\ posts < MaxPosts
  /\ posts' = posts + 1
  /\ \E typed \in {Wrong} \cup 1 .. shown :
       post' = [post EXCEPT ![p] = [NoPost EXCEPT !.at = "redeem", !.id = posts + 1, !.typed = typed, !.key = key[Own], !.was = key]]
  /\ UNCHANGED <<key, laptop, board, shown, events, rows, made, jar, told, revoke>>

\* redeem, under phones.mu.
Redeem(p) ==
  LET b == Pruned(board[post[p].key])
      hit == {c \in b.codes : c.id = post[p].typed /\ Usable(c)} IN
  /\ post[p].at = "redeem"
  /\ \/ /\ b.codes = {} \/ b.tries[p].n >= AddrFails
        /\ board' = [board EXCEPT ![post[p].key] = b]
        /\ post' = [post EXCEPT ![p] = NoPost]
        /\ UNCHANGED told
     \/ /\ b.codes # {} /\ b.tries[p].n < AddrFails /\ hit = {}
        /\ board' = [board EXCEPT ![post[p].key] = Counted(b, p)]
        /\ post' = [post EXCEPT ![p] = NoPost]
        /\ told' = [c \in Codes |-> IF \E d \in b.codes : d.id = c /\ Usable(d) THEN told[c] + 1 ELSE told[c]]
     \/ \E c \in hit :
        /\ b.tries[p].n < AddrFails
        /\ board' = [board EXCEPT ![post[p].key] = Spent(b, p, c)]
        /\ post' = [post EXCEPT ![p].at = "grant", ![p].todo = c.fleets]
        /\ UNCHANGED told
  /\ UNCHANGED <<key, laptop, shown, posts, events, rows, made, jar, revoke>>

(***************************************************************************)
(* pairFleet: one row per fleet of the code, own fleet first.              *)
(***************************************************************************)
First(todo) == IF Own \in todo THEN {Own} ELSE todo

\* The hash is keyed by the token of the Board that adds the row: the one the
\* request began with, or the other fleet's Board of the moment.
SecretHash(p, f) == IF f = Own THEN post[p].key ELSE key[f]

AddDevice(p, f) ==
  [fleet |-> f, label |-> post[p].id, row |-> Cardinality(made) + 1, code |-> post[p].typed, hash |-> SecretHash(p, f)]

PairFleet(p) ==
  /\ post[p].at = "grant"
  /\ \E f \in First(post[p].todo) :
       LET added == AddDevice(p, f) IN
       /\ rows' = rows \cup {added} /\ made' = made \cup {added}
       /\ post' = [post EXCEPT ![p].todo = @ \ {f}, ![p].got = @ \cup {added}]
  /\ UNCHANGED <<key, laptop, board, shown, posts, events, jar, told, revoke>>

\* The fleet was not reached, its store was busy, or the 20 seconds passed.
MissFleet(p) ==
  /\ post[p].at = "grant" /\ events < MaxEvents
  /\ events' = events + 1
  /\ \E f \in First(post[p].todo) : post' = [post EXCEPT ![p].todo = @ \ {f}]
  /\ UNCHANGED <<key, laptop, board, shown, posts, rows, made, jar, told, revoke>>

\* One cookie per fleet that was paired.
Cookies(p) == post[p].got

AnswerPair(p) ==
  /\ post[p].at = "grant" /\ post[p].todo = {}
  /\ jar' = [jar EXCEPT ![p] = [f \in Fleets |->
       IF \E r \in Cookies(p) : r.fleet = f
       THEN [row |-> (CHOOSE r \in Cookies(p) : r.fleet = f).row, was |-> post[p].was[f]]
       ELSE jar[p][f]]]
  /\ post' = [post EXCEPT ![p] = NoPost]
  /\ UNCHANGED <<key, laptop, board, shown, posts, events, rows, made, told, revoke>>

\* The connection ended before the answer came.
LoseAnswer(p) ==
  /\ post[p].at # "idle" /\ events < MaxEvents
  /\ post[p].at = "grant" => post[p].todo = {}
  /\ events' = events + 1
  /\ post' = [post EXCEPT ![p] = NoPost]
  /\ UNCHANGED <<key, laptop, board, shown, posts, rows, made, jar, told, revoke>>

(***************************************************************************)
(* Revoke everywhere: connectRevokePhone, for a phone the page lists.      *)
(***************************************************************************)
StartRevoke ==
  /\ revoke.at = "idle" /\ events < MaxEvents
  /\ events' = events + 1
  /\ LET signedIn == {f \in Fleets : SignedIn(f)} IN
     \E label \in {r.label : r \in {r \in rows : r.fleet \in signedIn}} :
       revoke' = [NoRevoke EXCEPT !.at = "revoke", !.label = label, !.todo = signedIn,
                                  !.racing = \E p \in Phones : post[p].id = label]
  /\ UNCHANGED <<key, laptop, board, shown, post, posts, rows, made, jar, told>>

Revoked(f) == [revoke EXCEPT !.todo = @ \ {f}, !.done = @ \cup {f}]

BugRevokeMissed(f) == Revoked(f)

\* An error of one fleet is kept for the answer, and the others are tried.
RevokeMissed(f) == [Revoked(f) EXCEPT !.failed = TRUE]

RevokePhone(f) == {r \in rows : r.fleet # f \/ r.label # revoke.label}

RevokeFleet ==
  /\ revoke.at = "revoke"
  /\ \E f \in First(revoke.todo) :
     \/ /\ SignedIn(f)
        /\ rows' = RevokePhone(f)
        /\ revoke' = Revoked(f)
        /\ UNCHANGED events
     \/ /\ \/ ~SignedIn(f) /\ UNCHANGED events
           \/ events < MaxEvents /\ events' = events + 1
        /\ revoke' = RevokeMissed(f)
        /\ UNCHANGED rows
  /\ UNCHANGED <<key, laptop, board, shown, post, posts, made, jar, told>>

AnswerRevoke ==
  /\ revoke.at = "revoke" /\ revoke.todo = {}
  /\ revoke' = NoRevoke
  /\ UNCHANGED <<key, laptop, board, shown, post, posts, events, rows, made, jar, told>>

(***************************************************************************)
(* Time, tokens and restarts.                                              *)
(***************************************************************************)
Aged(b, c) == [b EXCEPT !.codes = (@ \ {c}) \cup {[c EXCEPT !.age = IF c.age = "fresh" THEN "late" ELSE "old"]},
                        !.tries = [p \in Phones |-> [b.tries[p] EXCEPT !.late = @ \/ (b.tries[p].n > 0 /\ c.age = "late")]]]

\* Five minutes, and an hour more, pass for a code.
CodeAges ==
  /\ events < MaxEvents /\ events' = events + 1
  /\ \E v \in 1 .. MaxTokens : \E c \in board[v].codes : c.age # "old" /\ board' = [board EXCEPT ![v] = Aged(@, c)]
  /\ UNCHANGED <<key, laptop, shown, post, posts, rows, made, jar, told, revoke>>

\* A minute passes since the first wrong try of an address.
WindowEnds(p) ==
  /\ events < MaxEvents /\ events' = events + 1
  /\ \E v \in 1 .. MaxTokens : board[v].tries[p].n > 0 /\ ~board[v].tries[p].late
       /\ board' = [board EXCEPT ![v].tries[p].late = TRUE]
  /\ UNCHANGED <<key, laptop, shown, post, posts, rows, made, jar, told, revoke>>

ChangeKey(f) ==
  /\ key[f] < MaxTokens /\ events < MaxEvents /\ events' = events + 1
  /\ key' = [key EXCEPT ![f] = @ + 1]
  /\ UNCHANGED <<laptop, board, shown, post, posts, rows, made, jar, told, revoke>>

\* The Board process ends and starts again: codes, counts and requests are gone.
RestartBoard ==
  /\ events < MaxEvents /\ events' = events + 1
  /\ board' = [v \in 1 .. MaxTokens |-> NewBoard]
  /\ post' = [p \in Phones |-> NoPost] /\ revoke' = NoRevoke
  /\ UNCHANGED <<key, laptop, shown, posts, rows, made, jar, told>>

PairingInit ==
  /\ key = [f \in Fleets |-> 1] /\ laptop \in [Others -> {0, 1}]
  /\ board = [v \in 1 .. MaxTokens |-> NewBoard] /\ shown = 0
  /\ post = [p \in Phones |-> NoPost] /\ posts = 0 /\ events = 0
  /\ rows = {} /\ made = {} /\ jar = [p \in Phones |-> [f \in Fleets |-> NoCookie]]
  /\ told = [c \in Codes |-> 0] /\ revoke = NoRevoke

PairingNext ==
  \/ \E chosen \in SUBSET Others : ShowCode(chosen)
  \/ \E p \in Phones : PostCode(p) \/ Redeem(p) \/ PairFleet(p) \/ MissFleet(p) \/ AnswerPair(p) \/ LoseAnswer(p) \/ WindowEnds(p)
  \/ StartRevoke \/ RevokeFleet \/ AnswerRevoke
  \/ CodeAges \/ (\E f \in Fleets : ChangeKey(f)) \/ RestartBoard

PairingSpec == PairingInit /\ [][PairingNext]_pVars

\* Types; a fleet's rows and codes are told apart by their ids.
PairingTypeOK ==
  /\ key \in [Fleets -> 1 .. MaxTokens] /\ rows \subseteq made
  /\ \A v \in 1 .. MaxTokens :
       /\ board[v].fails \in 0 .. PairFails - 1 /\ \A p \in Phones : board[v].tries[p].n \in 0 .. AddrFails
       /\ Cardinality({c \in board[v].codes : Usable(c)}) <= 1

\* A code pairs at most one phone, and with each of its fleets at most once,
\* whatever number of phones post it at the same time.
CodeOnce == \A r, s \in made : r.code = s.code => r.label = s.label /\ (r.fleet = s.fleet => r = s)

\* A code that can still be used has not seen PairFails wrong tries.
GuessesBounded == \A v \in 1 .. MaxTokens : \A c \in board[v].codes : Usable(c) => told[c.id] < PairFails

Identified(p, f) == \E r \in rows : r.fleet = f /\ r.row = jar[p][f].row /\ r.hash = key[f]

\* A phone that was told it is paired with a fleet is signed in there until it
\* is revoked or the fleet's token changes after the phone asked.
PairedWorks ==
  \A p \in Phones, f \in Fleets :
    LET c == jar[p][f] IN
    c.row # 0 /\ c.was = key[f] /\ (\E r \in rows : r.row = c.row) => Identified(p, f)

\* A row of a phone that got its answer has its cookie: no phone is listed
\* that nobody holds.
RowsHeld ==
  [][\A p \in Phones : post[p].at = "grant" /\ post'[p].at = "idle" /\ events' = events =>
       \A r \in post[p].got : jar'[p][r.fleet].row = r.row]_pVars

\* A revocation that answers with no failure has left no row of the phone in
\* any fleet it named, unless the phone was still being paired.
RevokedEverywhere ==
  [][revoke.at = "revoke" /\ revoke'.at = "idle" /\ events' = events /\ ~revoke.failed /\ ~revoke.racing =>
       \A r \in rows : r.label = revoke.label => r.fleet \notin revoke.done]_pVars

\* The rows of the phones that are paired and of those that are revoked.
PhoneRows == RowsHeld /\ RevokedEverywhere

\* Codes work once and are guessed at within bounds; who was paired is signed in.
PairingSafety == PairingTypeOK /\ CodeOnce /\ GuessesBounded /\ PairedWorks
=============================================================================
