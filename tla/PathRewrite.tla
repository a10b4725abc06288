---------------------------- MODULE PathRewrite ----------------------------
(***************************************************************************)
(* What a move does to the text of a database cell (state/move.go): every  *)
(* spelling of the old home becomes the new one, names that only begin or  *)
(* end like it stay, and the move refuses a cell it cannot rewrite.        *)
(*                                                                         *)
(* A text is a sequence of tokens: "/", "\\", "~", ".", " ", a quote, and  *)
(* words, among which "u002f" stands for the JSON escape of a slash (the   *)
(* one with a capital is alike) and "file:" for the scheme.  Unix only:    *)
(* nothing is folded, and a path has no backslash.  A home directory that  *)
(* is a link to another one is left out.                                   *)
(***************************************************************************)
EXTENDS Naturals, Sequences, FiniteSets

CONSTANTS
  Home,       \* the user's home, a path
  Routes,     \* pairs of old and new homes of a fleet
  Chunks,     \* what cells are put together from
  MaxChunks

ASSUME RewriteAssumption == MaxChunks \in Nat

VARIABLES route, cell, found, stage

rVars == <<route, cell, found, stage>>

Separators == {"/", "\\", "~", ".", " ", "quote"}
\* moveName, moveGlue, moveLead: what continues a name after it, or before it.
moveName(c) == c \notin Separators \/ c = "."
moveGlue(c) == moveName(c) \/ c = " "
moveLead(c) == c # "file:" /\ (moveName(c) \/ c \in {"/", "\\", "~"})

\* pathEnd: the path ends before the token at end; a dot ends it only when it
\* ends a sentence.
pathEnd(s, end) ==
  \/ end > Len(s)
  \/ s[end] # "." /\ ~moveGlue(s[end])
  \/ /\ s[end] = "."
     /\ \/ end = Len(s) \/ s[end + 1] = " "
        \/ ~moveGlue(s[end + 1]) /\ s[end + 1] \notin {"/", "\\"}

Occurs(s, i, path) == i + Len(path) - 1 <= Len(s) /\ SubSeq(s, i, i + Len(path) - 1) = path
\* A bound that is looked for behind the path only.
BugBounded(s, i, path) == pathEnd(s, i + Len(path))
Bounded(s, i, path) == (i = 1 \/ ~moveLead(s[i - 1])) /\ pathEnd(s, i + Len(path))

\* replacePathFold: from left to right; what occurs without its bounds is kept
\* and passed over whole.
replacePath(s, path, to) ==
  LET from[i \in 1 .. Len(s) + 1] ==
        IF i > Len(s) THEN <<>>
        ELSE IF Occurs(s, i, path)
             THEN (IF Bounded(s, i, path) THEN to ELSE path) \o from[i + Len(path)]
             ELSE <<s[i]>> \o from[i + 1]
  IN from[1]

\* The spellings of a slash: plain, in JSON, and as JSON's unicode escape.
Slashes == <<<<"/">>, <<"\\", "u002f">>, <<"\\", "/">>>>
\* A text with its slashes spelled so.
Spelled(s, slash) ==
  LET to[i \in 0 .. Len(s)] == IF i = 0 THEN <<>> ELSE to[i - 1] \o (IF s[i] = "/" THEN slash ELSE <<s[i]>>) IN to[Len(s)]

\* homeChild: the name of a folder that is right inside the user's home.
IsChild(p) == Len(p) = Len(Home) + 2 /\ SubSeq(p, 1, Len(Home)) = Home
Shorthand(name) == <<"~", "/", name>>

\* movePatterns, in their order: the spellings of the path, as a file URL, and
\* the shorthand by its name, with what each becomes.
movePatterns(from, to, tilde) ==
  LET target == IF IsChild(to) THEN Shorthand(to[Len(to)]) ELSE to
      Pair(a, b, slash) == [text |-> Spelled(a, slash), target |-> Spelled(b, slash)]
      paths == [k \in 1 .. 3 |-> Pair(from, to, Slashes[k])]
      file == [text |-> <<"file:", "/", "/">> \o from, target |-> <<"file:", "/", "/">> \o to]
      short == [k \in 1 .. 3 |-> Pair(Shorthand(from[Len(from)]), target, Slashes[k])] IN
  Append(paths, file) \o (IF tilde THEN short ELSE <<>>)

\* rewriteHome: one pattern after the other; the shorthand only when it names
\* the old home.  A cell that is the new home stays.
rewriteHome(s, from, to) ==
  LET ps == movePatterns(from, to, IsChild(from))
      out[k \in 0 .. Len(ps)] == IF k = 0 THEN s ELSE replacePath(out[k - 1], ps[k].text, ps[k].target) IN
  IF s = to THEN s ELSE out[Len(ps)]

\* moveHits: whether a spelling of the old home is in the text, the shorthand
\* too when it does not name it.
moveHits(s, from, to) ==
  LET ps == movePatterns(from, to, TRUE) IN
  s # to /\ \E k \in DOMAIN ps : ps[k].text # ps[k].target /\ replacePath(s, ps[k].text, <<>>) # s

(***************************************************************************)
(* A cell of a fleet that moves, and moves back.                           *)
(***************************************************************************)
Texts == UNION {[1 .. n -> Chunks] : n \in 1 .. MaxChunks}
Joined(t) == LET to[i \in 0 .. Len(t)] == IF i = 0 THEN <<>> ELSE to[i - 1] \o t[i] IN to[Len(t)]

RewriteInit ==
  /\ route \in Routes
  /\ \E t \in Texts : cell = Joined(t)
  /\ found = cell /\ stage = "old"

\* moveHome and VerifyHome: rewritten, unless the old home is still in the text.
MoveCell(from, to, there) ==
  LET out == rewriteHome(cell, from, to) IN
  IF moveHits(out, from, to) THEN stage' = "refused" /\ UNCHANGED <<route, cell, found>>
  ELSE cell' = out /\ stage' = there /\ UNCHANGED <<route, found>>

Forth == stage = "old" /\ MoveCell(route.from, route.to, "new")
Back == stage = "new" /\ MoveCell(route.to, route.from, "back")

RewriteNext == Forth \/ Back
RewriteSpec == RewriteInit /\ [][RewriteNext]_rVars

(***************************************************************************)
(* Properties.                                                             *)
(***************************************************************************)
\* What a reader of the docs takes for a mention of a folder (docs/fleets.md):
\* a spelling of it that is not a part of a longer name.
Spellings(p) ==
  {Spelled(p, Slashes[k]) : k \in 1 .. 3} \cup {<<"file:", "/", "/">> \o p}
    \cup IF IsChild(p) THEN {Spelled(Shorthand(p[Len(p)]), Slashes[k]) : k \in 1 .. 3} ELSE {}

Alone(s, i, m) ==
  LET before == IF i = 1 THEN "quote" ELSE s[i - 1]
      Token(j) == IF j > Len(s) THEN " " ELSE s[j]
      next == Token(i + Len(m))
      after == Token(i + Len(m) + 1) IN
  /\ before \in {" ", "quote"}
  /\ \/ i + Len(m) > Len(s) \/ next \in {"/", "\\", "~", "quote"}
     \/ next = "." /\ after \in {" ", "~", "quote"}

Mentions(s, p) == {im \in (DOMAIN s) \X Spellings(p) : Occurs(s, im[1], im[2]) /\ Alone(s, im[1], im[2])}

\* A text with each mention of the folder replaced by one word.
Meaning(s, p) ==
  LET from[i \in 1 .. Len(s) + 1] ==
        IF i > Len(s) THEN <<>>
        ELSE IF \E m \in Spellings(p) : <<i, m>> \in Mentions(s, p)
             THEN LET m == CHOOSE m \in Spellings(p) : <<i, m>> \in Mentions(s, p) IN <<"HERE">> \o from[i + Len(m)]
             ELSE <<s[i]>> \o from[i + 1]
  IN from[1]

\* A moved text says of the new home what it said of the old one, and after the
\* way back it says that of the old one again; what is no mention is untouched.
\* Only for texts that did not name the new home before.
MeaningKept ==
  Mentions(found, route.to) = {} =>
    /\ stage = "new" => Meaning(cell, route.to) = Meaning(found, route.from)
    /\ stage = "back" => Meaning(cell, route.from) = Meaning(found, route.from)

\* The one cell a move refuses has the shorthand of a folder that is not the
\* old home and has its name.
RefusedForShorthand ==
  stage = "refused" => \E p \in {route.from, route.to} :
    ~IsChild(p) /\ \E i \in DOMAIN cell : \E k \in 1 .. 3 : Occurs(cell, i, Spelled(Shorthand(p[Len(p)]), Slashes[k]))

RewriteSafety == MeaningKept /\ RefusedForShorthand
=============================================================================
