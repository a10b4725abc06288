---------------------------- MODULE FleetImport ----------------------------
(***************************************************************************)
(* `hand fleet import SRC INTO DST` (cli/fleet_import.go and               *)
(* state/fleet_import.go): the projects and tasks of one fleet are added   *)
(* to another in one transaction, the source is marked, and the notes of   *)
(* its projects are copied.                                                *)
(*                                                                         *)
(* A task is its project, the task its text refers to (0 for none) and, as *)
(* history, where it was first filed and where it was imported from.       *)
(* Files are the notes of a project, one per name, known by the fleet that *)
(* wrote them; the other folders and the exported reports are copied the   *)
(* same way.  The words of a reference and paths are left out, and so are  *)
(* the dry run and what is printed.                                        *)
(***************************************************************************)
EXTENDS Naturals, FiniteSets, Sequences

CONSTANTS
  MaxHome,      \* fleets are numbers, in the order of their folders' paths
  Repos,
  MaxName,       \* project names are numbers, in the order they sort
  Imports,       \* import commands, each run once at a time
  MaxImports, MaxEdits, MaxMishaps

Homes == 1 .. MaxHome
Names == 1 .. MaxName
NoRepo == "none"
NoFleet == 0
Part == MaxHome + 1   \* a file that is not complete

ASSUME ImportAssumption ==
  {MaxHome, MaxName, MaxImports, MaxEdits, MaxMishaps} \subseteq Nat /\ NoRepo \notin Repos

VARIABLES
  projects,   \* per fleet, the repository of each project, or NoRepo
  tasks,      \* per fleet, its tasks by id
  imported,   \* per fleet, the sources its fleet.imported events name
  marker,     \* per fleet, the fleet its imported-into file names
  live,       \* the fleets with a supervisor or an attempt that is live
  notes,      \* per fleet and name, the fleet that wrote the file
  cmd,        \* per import command, its step and what it holds
  imports, edits, mishaps

iVars == <<projects, tasks, imported, marker, live, notes, cmd, imports, edits, mishaps>>
Stores == <<projects, tasks, imported>>

NoMap == [n \in Names |-> 0]
NoImport == [at |-> "idle", src |-> NoFleet, dst |-> NoFleet, holds |-> {}, seen |-> {}, as |-> NoMap, file |-> 1]

CmdGoes(c, at) == cmd' = [cmd EXCEPT ![c].at = at]
Over(c) == cmd' = [cmd EXCEPT ![c] = NoImport]
\* The write lock of a store: an import between its checks and its commit.
Writing(f) == \E c \in Imports : cmd[c].at = "commit" /\ cmd[c].dst = f
Held(f) == \E c \in Imports : f \in cmd[c].holds

(***************************************************************************)
(* The command up to the transaction.                                      *)
(***************************************************************************)
\* Any command that does not run; which one makes no difference.
ImportBegin(s, d) ==
  LET c == CHOOSE c \in Imports : cmd[c].at = "idle" IN
  /\ \E i \in Imports : cmd[i].at = "idle"
  /\ s # d /\ imports < MaxImports
  /\ imports' = imports + 1
  /\ cmd' = [cmd EXCEPT ![c] = [NoImport EXCEPT !.at = "lock", !.src = s, !.dst = d]]
  /\ UNCHANGED <<Stores, marker, live, notes, edits, mishaps>>

\* lockImportHomes: in the order of their paths; a home that is held is not
\* waited for.
LockHome(c) ==
  LET wanted == {cmd[c].src, cmd[c].dst} \ cmd[c].holds
      next == CHOOSE f \in wanted : \A g \in wanted : f <= g IN
  /\ cmd[c].at = "lock"
  /\ IF wanted = {} THEN CmdGoes(c, "marker")
     ELSE IF Held(next) THEN Over(c)
     ELSE cmd' = [cmd EXCEPT ![c].holds = @ \cup {next}]
  /\ UNCHANGED <<Stores, marker, live, notes, imports, edits, mishaps>>

\* The marker and the event refuse a second import; each is read on its own.
LookMarker(c) ==
  /\ cmd[c].at = "marker"
  /\ IF marker[cmd[c].src] = NoFleet THEN CmdGoes(c, "event") ELSE Over(c)
  /\ UNCHANGED <<Stores, marker, live, notes, imports, edits, mishaps>>

LookEvent(c) ==
  /\ cmd[c].at = "event"
  /\ IF cmd[c].src \in imported[cmd[c].dst] THEN Over(c) ELSE CmdGoes(c, "source")
  /\ UNCHANGED <<Stores, marker, live, notes, imports, edits, mishaps>>

\* ImportHealthAt, of one home and then of the other; ImportFleet looks again.
Health == <<"source", "destination", "source again", "destination again", "begin">>

LookHealth(c) ==
  \E i \in 1 .. 4 :
    /\ cmd[c].at = Health[i]
    /\ IF (IF i % 2 = 1 THEN cmd[c].src ELSE cmd[c].dst) \in live THEN Over(c) ELSE CmdGoes(c, Health[i + 1])
    /\ UNCHANGED <<Stores, marker, live, notes, imports, edits, mishaps>>

(***************************************************************************)
(* The transaction.                                                        *)
(***************************************************************************)
\* checkImportRecorded, with the destination's store locked for writing, and
\* the source's projects, read over a connection of its own.
BeginImport(c) ==
  LET s == cmd[c].src IN
  /\ cmd[c].at = "begin" /\ ~Writing(cmd[c].dst)
  /\ IF marker[s] # NoFleet \/ s \in imported[cmd[c].dst] THEN Over(c)
     ELSE cmd' = [cmd EXCEPT ![c].at = "commit", ![c].seen = {n \in Names : projects[s][n] # NoRepo}]
  /\ UNCHANGED <<Stores, marker, live, notes, imports, edits, mishaps>>

\* planImport: the names the source's projects get, in the order of their
\* names, and the destination's projects with them; 0 where they conflict.
\* A repository the destination has keeps the destination's last name for it.
PlanProjects(have, from, seen) ==
  LET plan[n \in 0 .. MaxName] ==
        IF n = 0 THEN [have |-> have, as |-> NoMap, ok |-> TRUE]
        ELSE LET p == plan[n - 1]
                 known == {m \in Names : p.have[m] = from[n]} IN
             IF n \notin seen THEN p
             ELSE IF p.have[n] # NoRepo
             THEN [p EXCEPT !.as[n] = n, !.ok = @ /\ p.have[n] = from[n]]
             ELSE IF known # {}
             THEN [p EXCEPT !.as[n] = CHOOSE m \in known : \A k \in known : k <= m]
             ELSE [p EXCEPT !.as[n] = n, !.have[n] = from[n]]
  IN plan[MaxName]

\* A source task at its new id: a reference to a task of the source moves with it.
Shifted(s, i, as, offset) ==
  LET t == tasks[s][i] IN
  [t EXCEPT !.project = as[t.project], !.from = <<s, i>>,
            !.ref = IF @ \in DOMAIN tasks[s] THEN @ + offset ELSE @]

\* insertImport and the event; nothing is written when the projects conflict or
\* a task names a project that was added after they were read.
BugCommitImport(c) ==
  LET s == cmd[c].src
      d == cmd[c].dst
      plan == PlanProjects(projects[d], projects[s], cmd[c].seen)
      new == [i \in DOMAIN tasks[s] |-> Shifted(s, i, plan.as, Len(tasks[s]))] IN
  /\ cmd[c].at = "commit"
  /\ IF plan.ok /\ \A i \in DOMAIN new : tasks[s][i].project \in cmd[c].seen
     THEN /\ projects' = [projects EXCEPT ![d] = plan.have]
          /\ tasks' = [tasks EXCEPT ![d] = @ \o new]
          /\ imported' = [imported EXCEPT ![d] = @ \cup {s}]
          /\ cmd' = [cmd EXCEPT ![c].at = "mark", ![c].as = plan.as]
     ELSE Over(c) /\ UNCHANGED Stores
  /\ UNCHANGED <<marker, live, notes, imports, edits, mishaps>>

CommitImport(c) ==
  LET s == cmd[c].src
      d == cmd[c].dst
      plan == PlanProjects(projects[d], projects[s], cmd[c].seen)
      new == [i \in DOMAIN tasks[s] |-> Shifted(s, i, plan.as, Len(tasks[d]))] IN
  /\ cmd[c].at = "commit"
  /\ IF plan.ok /\ \A i \in DOMAIN new : tasks[s][i].project \in cmd[c].seen
     THEN /\ projects' = [projects EXCEPT ![d] = plan.have]
          /\ tasks' = [tasks EXCEPT ![d] = @ \o new]
          /\ imported' = [imported EXCEPT ![d] = @ \cup {s}]
          /\ cmd' = [cmd EXCEPT ![c].at = "mark", ![c].as = plan.as]
     ELSE Over(c) /\ UNCHANGED Stores
  /\ UNCHANGED <<marker, live, notes, imports, edits, mishaps>>

(***************************************************************************)
(* After the commit: the marker and the files.                             *)
(***************************************************************************)
\* writeImportMarker: a failure is told, and the files are copied all the same.
WriteMarker(c) ==
  /\ cmd[c].at = "mark"
  /\ \/ marker' = [marker EXCEPT ![cmd[c].src] = IF @ = NoFleet THEN cmd[c].dst ELSE @] /\ UNCHANGED mishaps
     \/ mishaps < MaxMishaps /\ mishaps' = mishaps + 1 /\ UNCHANGED marker
  /\ CmdGoes(c, "file")
  /\ UNCHANGED <<Stores, live, notes, imports, edits>>

\* importContent: the notes of a project that got another name follow it.
Target(c) == LET n == cmd[c].file IN IF cmd[c].as[n] = 0 THEN n ELSE cmd[c].as[n]

\* copyImportFile: a file that is there, the same or another one, is left.
LookFile(c) ==
  /\ cmd[c].at = "file"
  /\ IF cmd[c].file > MaxName THEN Over(c)
     ELSE IF notes[cmd[c].src][cmd[c].file] # NoFleet /\ notes[cmd[c].dst][Target(c)] = NoFleet THEN CmdGoes(c, "create")
     ELSE cmd' = [cmd EXCEPT ![c].file = @ + 1]
  /\ UNCHANGED <<Stores, marker, live, notes, imports, edits, mishaps>>

BugCreateFile(c) ==
  /\ cmd[c].at = "create"
  /\ notes' = [notes EXCEPT ![cmd[c].dst][Target(c)] = Part] /\ CmdGoes(c, "copy")
  /\ UNCHANGED <<Stores, marker, live, imports, edits, mishaps>>

\* O_EXCL: a file that came up since is left, and the copy has failed.
CreateFile(c) ==
  /\ cmd[c].at = "create"
  /\ IF notes[cmd[c].dst][Target(c)] = NoFleet
     THEN notes' = [notes EXCEPT ![cmd[c].dst][Target(c)] = Part] /\ CmdGoes(c, "copy")
     ELSE cmd' = [cmd EXCEPT ![c].at = "file", ![c].file = @ + 1] /\ UNCHANGED notes
  /\ UNCHANGED <<Stores, marker, live, imports, edits, mishaps>>

\* A copy that fails is removed.
CopyFile(c) ==
  LET d == cmd[c].dst
      n == Target(c) IN
  /\ cmd[c].at = "copy"
  /\ \/ notes' = [notes EXCEPT ![d][n] = notes[cmd[c].src][cmd[c].file]] /\ UNCHANGED mishaps
     \/ mishaps < MaxMishaps /\ mishaps' = mishaps + 1 /\ notes' = [notes EXCEPT ![d][n] = NoFleet]
  /\ cmd' = [cmd EXCEPT ![c].at = "file", ![c].file = @ + 1]
  /\ UNCHANGED <<Stores, marker, live, imports, edits>>

\* The process dies: its locks are free and its transaction is rolled back.
ImportKilled(c) ==
  /\ cmd[c].at # "idle" /\ mishaps < MaxMishaps
  /\ mishaps' = mishaps + 1
  /\ Over(c)
  /\ UNCHANGED <<Stores, marker, live, notes, imports, edits>>

(***************************************************************************)
(* What else goes on in the fleets.                                        *)
(***************************************************************************)
Edit == edits < MaxEdits /\ edits' = edits + 1 /\ UNCHANGED <<imported, marker, cmd, imports, mishaps>>

\* project add, and AddTask with a reference to any task.
AddProject(f, n, r) ==
  /\ Edit /\ ~Writing(f) /\ projects[f][n] = NoRepo
  /\ projects' = [projects EXCEPT ![f][n] = r]
  /\ UNCHANGED <<tasks, live, notes>>

AddTask(f, n, ref) ==
  /\ Edit /\ ~Writing(f) /\ projects[f][n] # NoRepo
  /\ tasks' = [tasks EXCEPT ![f] = Append(@, [project |-> n, ref |-> ref, from |-> <<>>])]
  /\ UNCHANGED <<projects, live, notes>>

\* A supervisor or an attempt starts or ends.
Stirs(f) ==
  /\ Edit /\ live' = (live \ {f}) \cup ({f} \ live)
  /\ UNCHANGED <<projects, tasks, notes>>

\* A supervisor writes the notes of a project.
WriteNote(f, n) ==
  /\ Edit /\ notes[f][n] = NoFleet
  /\ notes' = [notes EXCEPT ![f][n] = f]
  /\ UNCHANGED <<projects, tasks, live>>

ImportInit ==
  /\ projects \in [Homes -> [Names -> Repos \cup {NoRepo}]]
  \* one task for each project, the last of which refers to the first
  /\ tasks = [f \in Homes |->
       LET has == {n \in Names : projects[f][n] # NoRepo} IN
       [i \in 1 .. Cardinality(has) |->
          [project |-> CHOOSE n \in has : Cardinality({m \in has : m < n}) = i - 1,
           ref |-> IF i = Cardinality(has) THEN 1 ELSE 0, from |-> <<>>]]]
  /\ imported = [f \in Homes |-> {}] /\ marker = [f \in Homes |-> NoFleet] /\ live = {}
  /\ notes = [f \in Homes |-> [n \in Names |-> IF projects[f][n] = NoRepo THEN NoFleet ELSE f]]
  /\ cmd = [c \in Imports |-> NoImport] /\ imports = 0 /\ edits = 0 /\ mishaps = 0

Import(c) ==
  \/ LockHome(c) \/ LookMarker(c) \/ LookEvent(c) \/ LookHealth(c) \/ BeginImport(c) \/ CommitImport(c)
  \/ WriteMarker(c) \/ LookFile(c) \/ CreateFile(c) \/ CopyFile(c)

ImportNext ==
  \/ \E c \in Imports : Import(c) \/ ImportKilled(c)
  \/ \E s, d \in Homes : ImportBegin(s, d)
  \/ \E f \in Homes : Stirs(f) \/ \E n \in Names : WriteNote(f, n) \/ \E r \in Repos : AddProject(f, n, r)
  \/ \E f \in Homes, n \in Names : \E ref \in 0 .. Len(tasks[f]) : AddTask(f, n, ref)

ImportSpec == ImportInit /\ [][ImportNext]_iVars

(***************************************************************************)
(* Properties.                                                             *)
(***************************************************************************)
\* Every variable has its type, and a lock has one holder.
ImportTypeOK ==
  /\ projects \in [Homes -> [Names -> Repos \cup {NoRepo}]]
  /\ \A f \in Homes : imported[f] \subseteq Homes \ {f} /\ marker[f] \in {NoFleet} \cup Homes
  /\ live \subseteq Homes /\ notes \in [Homes -> [Names -> 0 .. Part]]
  /\ \A c, e \in Imports : c # e => cmd[c].holds \cap cmd[e].holds = {}

\* A task of a source is in a destination once, however many imports run and
\* die; and without a mishap a source goes to one destination only.
ImportedOnce ==
  /\ \A f \in Homes : \A i, j \in DOMAIN tasks[f] :
       i # j /\ tasks[f][i].from # <<>> => tasks[f][i].from # tasks[f][j].from
  /\ mishaps = 0 => \A s \in Homes : Cardinality({d \in Homes : s \in imported[d]}) <= 1

\* A marker names a fleet that has the import.
MarkerTold == \A s \in Homes : marker[s] # NoFleet => s \in imported[marker[s]]

\* An imported task is of the repository it was of in its source, and what its
\* text refers to is the import of what it referred to there.
TaskMapped ==
  \A d \in Homes : \A i \in DOMAIN tasks[d] :
    LET t == tasks[d][i]
        o == tasks[t.from[1]][t.from[2]] IN
    t.from # <<>> =>
      /\ projects[d][t.project] = projects[t.from[1]][o.project]
      /\ IF o.ref = 0 THEN t.ref = 0 ELSE tasks[d][t.ref].from = <<t.from[1], o.ref>>

\* No import changes a file that is complete.
NotesKept ==
  [][\A f \in Homes, n \in Names : notes[f][n] \in Homes => notes'[f][n] = notes[f][n]]_iVars

\* Imports, at once, one after the other and killed: nothing comes in twice or is
\* mapped to something else.
ImportSafety == ImportTypeOK /\ ImportedOnce /\ MarkerTold /\ TaskMapped
=============================================================================
