---------------------------- MODULE Housekeeping ----------------------------
(***************************************************************************)
(* What Hand removes by itself or on request, and what it keeps of it:     *)
(*   "inbox"      hand inbox prune and the watcher's daily prune, which    *)
(*                move old files to a trash and empty it after a week;     *)
(*   "documents"  hand gc, which deletes old reports and shots;            *)
(*   "scratch"    hand attempt gc, which removes the scratch folders of    *)
(*                attempts that are gone;                                  *)
(*   "snapshots"  the daily copy of the database, of which some are kept.  *)
(* They share nothing, so chore says which of them is looked at.  Time is  *)
(* counted in days, the unit of every age Hand takes.                      *)
(***************************************************************************)
EXTENDS Naturals, FiniteSets

CONSTANTS Files,      \* names of files
          Pruners,    \* what may prune the inbox: the watcher and commands
          Watcher,    \* the one of them that is the watcher
          Nobody,     \* no pruner
          Ages,       \* the ages asked for
          TrashKeep,  \* days a file stays in the trash, a week
          SnapshotKeep, \* snapshots that are kept, seven
          MaxDay, MaxDeeds, MaxKills

ASSUME HousekeepingAssumption ==
  /\ MaxDay \in Nat \ {0} /\ TrashKeep \in Nat /\ SnapshotKeep \in Nat /\ Ages \subseteq Nat
  /\ Ages # {} /\ Files # {} /\ Watcher \in Pruners /\ Nobody \notin Pruners

VARIABLES
  chore, day,
  box, bin,   \* the inbox and its trash
  mark,       \* the day in the trash's mark, 0 when there is none
  pruned,     \* the day the watcher remembers to have pruned on
  prune,      \* the prune of each pruner
  holder,     \* who holds the inbox lock
  early,      \* a file that Hand had moved to the trash was lost before its time
  docs,       \* reports and shots
  gc,         \* a run of hand gc --yes, or of hand attempt gc --apply
  unseen,     \* what was deleted though it was not what the run had looked at
  rowOf, trees, scratch,  \* attempts: live or not, with a worktree, with a scratch folder
  snaps,      \* the snapshots: day -> "none", "part", "whole"
  partial,    \* the temporary copy
  snap,       \* the watcher's step of a snapshot, for which day, and the day it remembers
  taken,      \* the days a snapshot was taken on
  deeds, kills

inboxVars == <<box, bin, mark, pruned, prune, holder, early>>
scratchVars == <<rowOf, trees, scratch>>
snapVars == <<snaps, partial, snap, taken>>
keepVars == <<chore, day, inboxVars, docs, gc, unseen, scratchVars, snapVars, deeds, kills>>

Day == 1 .. MaxDay
\* mod: its time of modification; since: the day of the prune by which Hand moved
\* it to the trash, 0 for a file somebody else put there or that is not there.
File == [mod : Day, since : Day \cup {0}]
NoFile == [mod |-> 0, since |-> 0]
\* held, due: the files of the trash and of the inbox that are old enough; was:
\* when those of the inbox were modified.
Prune == [at : {"idle", "trash", "inbox", "delete", "move", "rename", "tell", "mark"},
          now : Day, age : Ages, held : SUBSET Files, due : SUBSET Files,
          was : [Files -> Day \cup {0}], file : Files, moved : BOOLEAN]
\* A report or shot: ver tells its size and time of modification.
Doc == [mod : Day \cup {0}, ver : Nat]
Gc == [at : {"idle", "scan", "check", "remove", "list", "folders"}, found : [Files -> Nat],
       todo : SUBSET Files, file : Files, live : SUBSET Files, swapped : BOOLEAN]

KeepingTypeOK ==
  /\ day \in Day /\ mark \in Day \cup {0} /\ pruned \in Day \cup {0}
  /\ box \in [Files -> File \cup {NoFile}] /\ bin \in [Files -> File \cup {NoFile}]
  /\ prune \in [Pruners -> Prune] /\ holder \in Pruners \cup {Nobody}
  /\ docs \in [Files -> Doc] /\ gc \in Gc
  /\ rowOf \in [Files -> {"none", "live", "ended"}]
  /\ snaps \in [Day -> {"none", "part", "whole"}]
  /\ partial \in {"none", "part", "whole"}
  /\ snap \in [at : {"idle", "copy", "rename", "prune"}, for : Day, seen : Day \cup {0}]

AnyFile == CHOOSE f \in Files : TRUE
NoPrune == [at |-> "idle", now |-> 1, age |-> CHOOSE a \in Ages : TRUE, held |-> {}, due |-> {},
         was |-> [f \in Files |-> 0], file |-> AnyFile, moved |-> FALSE]
NoGc == [at |-> "idle", found |-> [f \in Files |-> 0], todo |-> {}, file |-> AnyFile,
         live |-> {}, swapped |-> FALSE]

KeepingInit ==
  /\ chore \in {"inbox", "documents", "scratch", "snapshots"} /\ day = 1
  /\ box = [f \in Files |-> NoFile] /\ bin = box /\ mark = 0 /\ pruned = 0
  /\ prune = [p \in Pruners |-> NoPrune] /\ holder = Nobody /\ early = FALSE
  /\ docs = [f \in Files |-> [mod |-> 0, ver |-> 0]] /\ gc = NoGc /\ unseen = FALSE
  /\ rowOf = [f \in Files |-> "none"] /\ trees = {} /\ scratch = {}
  /\ snaps = [d \in Day |-> "none"] /\ partial = "none" /\ taken = {}
  /\ snap = [at |-> "idle", for |-> 1, seen |-> 0]
  /\ deeds = 0 /\ kills = 0

NewDay ==
  /\ day < MaxDay /\ day' = day + 1
  /\ UNCHANGED <<chore, inboxVars, docs, gc, unseen, scratchVars, snapVars, deeds, kills>>

ByHand == deeds < MaxDeeds /\ deeds' = deeds + 1
Mishap == kills < MaxKills /\ kills' = kills + 1

-----------------------------------------------------------------------------
(* The inbox *)

InInbox == chore = "inbox" /\ UNCHANGED <<chore, day, docs, gc, unseen, scratchVars, snapVars>>
Files_(dir) == {f \in Files : dir[f] # NoFile}

\* saveImage: an upload takes a name that the inbox does not have.
saveImage(f) ==
  /\ InInbox /\ ByHand /\ f \notin Files_(box)
  /\ box' = [box EXCEPT ![f] = [mod |-> day, since |-> 0]]
  /\ UNCHANGED <<bin, mark, pruned, prune, holder, early, kills>>

\* The operator takes a file back from the trash, or puts one there.
Restore(f) ==
  /\ InInbox /\ ByHand /\ f \in Files_(bin) \ Files_(box)
  /\ box' = [box EXCEPT ![f] = [bin[f] EXCEPT !.since = 0]]
  /\ bin' = [bin EXCEPT ![f] = NoFile]
  /\ UNCHANGED <<mark, pruned, prune, holder, early, kills>>

PutInTrash(f) ==
  /\ InInbox /\ ByHand /\ f \in Files_(box) \ Files_(bin)
  /\ bin' = [bin EXCEPT ![f] = box[f]]
  /\ box' = [box EXCEPT ![f] = NoFile]
  /\ UNCHANGED <<mark, pruned, prune, holder, early, kills>>

\* pruneInbox: one prune at a time; a second one is refused.
Locks(p) == holder = Nobody

PruneStep(p, to) == prune' = [prune EXCEPT ![p] = to]

Begin(p, age) ==
  /\ InInbox /\ prune[p].at = "idle" /\ Locks(p)
  /\ holder' = p
  /\ PruneStep(p, [NoPrune EXCEPT !.at = "trash", !.now = day, !.age = age])
  /\ UNCHANGED <<box, bin, mark, pruned, early, deeds, kills>>

\* A command.  Its dry run changes nothing and takes no lock.
cmdInboxPrune(p, age) == p # Watcher /\ Begin(p, age)

\* The watcher once a day: not when it remembers the day, nor when the mark in
\* the trash has it.  Refused, it tries again later.
pruneInbox(age) == day \notin {pruned, mark} /\ Begin(Watcher, age)

\* The watcher was started again on a day that is marked.
Marked ==
  /\ InInbox /\ prune[Watcher].at = "idle" /\ mark = day /\ pruned # day
  /\ pruned' = day
  /\ UNCHANGED <<box, bin, mark, prune, holder, early, deeds, kills>>

\* Prune reads the trash, then the inbox, and works on what it read.
ScanTrash(p) ==
  LET old == {f \in Files_(bin) : prune[p].now > bin[f].mod + TrashKeep} IN
  /\ InInbox /\ prune[p].at = "trash"
  /\ PruneStep(p, [prune[p] EXCEPT !.at = "inbox", !.held = old])
  /\ UNCHANGED <<box, bin, mark, pruned, holder, early, deeds, kills>>

ScanInbox(p) ==
  LET old == {f \in Files_(box) : prune[p].now > box[f].mod + prune[p].age} IN
  /\ InInbox /\ prune[p].at = "inbox"
  /\ PruneStep(p, [prune[p] EXCEPT !.at = "delete", !.due = old, !.was = [f \in Files |-> box[f].mod]])
  /\ UNCHANGED <<box, bin, mark, pruned, holder, early, deeds, kills>>

\* Of the trash: each goes, whatever now has its name; one that is gone is fine,
\* and one that cannot be removed is told.
Delete(p, f) ==
  /\ InInbox /\ prune[p].at = "delete" /\ f \in prune[p].held
  /\ PruneStep(p, [prune[p] EXCEPT !.held = @ \ {f}])
  /\ \/ /\ bin' = [bin EXCEPT ![f] = NoFile]
        /\ early' = (early \/ (bin[f].since > 0 /\ day <= bin[f].since + TrashKeep))
        /\ UNCHANGED kills
     \/ Mishap /\ UNCHANGED <<bin, early>>
  /\ UNCHANGED <<box, mark, pruned, holder, deeds>>

Deleted(p) ==
  /\ InInbox /\ prune[p].at = "delete" /\ prune[p].held = {}
  /\ PruneStep(p, [prune[p] EXCEPT !.at = "move"])
  /\ UNCHANGED <<box, bin, mark, pruned, holder, early, deeds, kills>>

\* The time of modification becomes the time of the move, which the trash is
\* emptied by.
Stamp(p, f) == prune[p].now

\* move: not onto a file of the trash.  The time is set before the rename.
move(p, f) ==
  /\ InInbox /\ prune[p].at = "move" /\ f \in prune[p].due
  /\ \/ /\ f \in Files_(box) \ Files_(bin)
        /\ box' = [box EXCEPT ![f].mod = Stamp(p, f)]
        /\ PruneStep(p, [prune[p] EXCEPT !.at = "rename", !.file = f, !.due = @ \ {f}])
     \/ /\ f \notin Files_(box) \ Files_(bin)
        /\ PruneStep(p, [prune[p] EXCEPT !.due = @ \ {f}]) /\ UNCHANGED box
  /\ UNCHANGED <<bin, mark, pruned, holder, early, deeds, kills>>

Rename(p) ==
  LET f == prune[p].file IN
  /\ InInbox /\ prune[p].at = "rename"
  /\ \/ /\ f \in Files_(box)
        /\ early' = (early \/ (bin[f].since > 0 /\ day <= bin[f].since + TrashKeep))
        /\ bin' = [bin EXCEPT ![f] = [box[f] EXCEPT !.since = prune[p].now]]
        /\ box' = [box EXCEPT ![f] = NoFile]
        /\ PruneStep(p, [prune[p] EXCEPT !.at = "move", !.moved = TRUE])
        /\ UNCHANGED kills
     \/ /\ IF f \in Files_(box) THEN Mishap /\ box' = [box EXCEPT ![f].mod = prune[p].was[f]]
           ELSE UNCHANGED <<box, kills>>
        /\ PruneStep(p, [prune[p] EXCEPT !.at = "move"])
        /\ UNCHANGED <<bin, early>>
  /\ UNCHANGED <<mark, pruned, holder, deeds>>

\* InboxPruned records an event, and the lock is let go.  The watcher remembers
\* the day; when all went well it also marks it.
InboxPruned(p) ==
  /\ InInbox /\ prune[p].at = "move" /\ prune[p].due = {}
  /\ holder' = IF holder = p THEN Nobody ELSE holder
  /\ pruned' = IF p = Watcher THEN prune[p].now ELSE pruned
  /\ \/ PruneStep(p, IF p = Watcher THEN [prune[p] EXCEPT !.at = "mark"] ELSE NoPrune) /\ UNCHANGED kills
     \/ prune[p].moved /\ Mishap /\ PruneStep(p, NoPrune)
  /\ UNCHANGED <<box, bin, mark, early, deeds>>

MarkDay ==
  /\ InInbox /\ prune[Watcher].at = "mark"
  /\ PruneStep(Watcher, NoPrune)
  /\ \/ mark' = prune[Watcher].now /\ UNCHANGED kills
     \/ Mishap /\ UNCHANGED mark
  /\ UNCHANGED <<box, bin, pruned, holder, early, deeds>>

\* A killed process loses its lock; a watcher that is started again its memory.
KillPruner(p) ==
  /\ InInbox /\ Mishap /\ (prune[p].at # "idle" \/ p = Watcher)
  /\ PruneStep(p, NoPrune)
  /\ holder' = IF holder = p THEN Nobody ELSE holder
  /\ pruned' = IF p = Watcher THEN 0 ELSE pruned
  /\ UNCHANGED <<box, bin, mark, early, deeds>>

InboxNext ==
  \/ \E f \in Files : saveImage(f) \/ Restore(f) \/ PutInTrash(f)
  \/ \E p \in Pruners : \/ \E age \in Ages : cmdInboxPrune(p, age)
                        \/ ScanTrash(p) \/ ScanInbox(p) \/ Deleted(p)
                        \/ \E f \in Files : Delete(p, f) \/ move(p, f)
                        \/ Rename(p) \/ InboxPruned(p) \/ KillPruner(p)
  \/ \E age \in Ages : pruneInbox(age)
  \/ Marked \/ MarkDay

-----------------------------------------------------------------------------
(* Reports and shots *)

InDocuments == chore = "documents" /\ UNCHANGED <<chore, day, inboxVars, scratchVars, snapVars>>

\* A worker or the operator writes a file, for the first time or again.
Write(f) ==
  /\ InDocuments /\ ByHand
  /\ docs' = [docs EXCEPT ![f] = [mod |-> day, ver |-> deeds + 1]]
  /\ gc' = IF gc.at = "remove" /\ gc.file = f THEN [gc EXCEPT !.swapped = TRUE] ELSE gc
  /\ UNCHANGED <<unseen, kills>>

\* Scan, Older and Within: what is older than asked, in the folders asked for.
Scan(age, scope) == {f \in scope : docs[f].mod # 0 /\ day >= docs[f].mod + age}

\* hand gc --yes: what was listed to the operator before plays no part in it.
cmdGC(age, scope) ==
  /\ InDocuments /\ gc.at = "idle" /\ Scan(age, scope) # {}
  /\ gc' = [NoGc EXCEPT !.at = "check", !.todo = Scan(age, scope), !.found = [f \in Files |-> docs[f].ver]]
  /\ UNCHANGED <<docs, unseen, deeds, kills>>

\* Mutant: what was scanned is removed without another look.
BugSame(f) == docs[f].mod # 0

\* Remove passes over a file that is gone, or of another size or time.
Same(f) == docs[f].mod # 0 /\ docs[f].ver = gc.found[f]

Check(f) ==
  /\ InDocuments /\ gc.at = "check" /\ f \in gc.todo
  /\ gc' = [gc EXCEPT !.todo = @ \ {f}, !.file = f, !.at = IF Same(f) THEN "remove" ELSE "check",
                      !.swapped = FALSE]
  /\ UNCHANGED <<docs, unseen, deeds, kills>>

RemoveDoc ==
  /\ InDocuments /\ gc.at = "remove"
  /\ gc' = [gc EXCEPT !.at = "check"]
  /\ \/ /\ docs' = [docs EXCEPT ![gc.file].mod = 0]
        /\ unseen' = (unseen \/ (docs[gc.file].ver # gc.found[gc.file] /\ ~gc.swapped))
        /\ UNCHANGED kills
     \/ Mishap /\ UNCHANGED <<docs, unseen>>
  /\ UNCHANGED deeds

\* The run records what it removed, or is killed before.
GcRemoved ==
  /\ InDocuments /\ \/ gc.at = "check" /\ gc.todo = {} /\ UNCHANGED kills
                    \/ gc.at # "idle" /\ Mishap
  /\ gc' = NoGc
  /\ UNCHANGED <<docs, unseen, deeds>>

DocumentsNext ==
  \/ \E f \in Files : Write(f) \/ Check(f)
  \/ \E age \in Ages, scope \in SUBSET Files : cmdGC(age, scope)
  \/ RemoveDoc \/ GcRemoved

-----------------------------------------------------------------------------
(* Scratch folders *)

InScratch == chore = "scratch" /\ UNCHANGED <<chore, day, inboxVars, docs, snapVars>>

\* An attempt gets its rowOf, its worktree, and then, when its pane runs
\* (attempt _exec), its scratch folder; cleaning it removes the worktree first.
AddRow(f) ==
  /\ InScratch /\ rowOf[f] = "none" /\ rowOf' = [rowOf EXCEPT ![f] = "live"]
  /\ UNCHANGED <<trees, scratch, gc, unseen, deeds, kills>>

AddWorktree(f) ==
  /\ InScratch /\ rowOf[f] = "live" /\ f \notin trees /\ f \notin scratch
  /\ trees' = trees \cup {f}
  /\ UNCHANGED <<rowOf, scratch, gc, unseen, deeds, kills>>

makePrivate(f) ==
  /\ InScratch /\ f \in trees /\ scratch' = scratch \cup {f}
  /\ UNCHANGED <<rowOf, trees, gc, unseen, deeds, kills>>

EndAttempt(f) ==
  /\ InScratch /\ rowOf[f] = "live" /\ rowOf' = [rowOf EXCEPT ![f] = "ended"]
  /\ UNCHANGED <<trees, scratch, gc, unseen, deeds, kills>>

CleanWorktree(f) ==
  /\ InScratch /\ rowOf[f] = "ended" /\ f \in trees
  /\ trees' = trees \ {f}
  /\ UNCHANGED <<rowOf, scratch, gc, unseen, deeds, kills>>

removeScratch(f) ==
  /\ InScratch /\ rowOf[f] = "ended" /\ f \in scratch \ trees
  /\ scratch' = scratch \ {f}
  /\ UNCHANGED <<rowOf, trees, gc, unseen, deeds, kills>>

\* The operator removes a worktree by hand.
LoseWorktree(f) ==
  /\ InScratch /\ ByHand /\ f \in trees
  /\ trees' = trees \ {f}
  /\ UNCHANGED <<rowOf, scratch, gc, unseen, kills>>

\* attempt gc reads the live attempts, and then the folders.
ReadLive ==
  /\ InScratch /\ gc.at = "idle"
  /\ gc' = [NoGc EXCEPT !.at = "list", !.live = {f \in Files : rowOf[f] = "live"}]
  /\ UNCHANGED <<scratchVars, unseen, deeds, kills>>

\* Orphans: the folder's worktree is gone.  Leftovers: a live attempt has it.
Orphans(f) == f \notin trees
Leftovers(f) == f \in gc.live
scratchOrphans(f) == Orphans(f) /\ ~Leftovers(f)

\* Of the orphans those that were not used for as long as asked.
ListOrphans(old) ==
  /\ InScratch /\ gc.at = "list" /\ old \subseteq scratch
  /\ gc' = [gc EXCEPT !.at = "folders", !.todo = {f \in old : scratchOrphans(f)}]
  /\ UNCHANGED <<scratchVars, unseen, deeds, kills>>

RemoveFolder(f) ==
  /\ InScratch /\ gc.at = "folders" /\ f \in gc.todo
  /\ gc' = [gc EXCEPT !.todo = @ \ {f}]
  /\ \/ /\ scratch' = scratch \ {f} /\ UNCHANGED kills
        /\ unseen' = (unseen \/ (f \in scratch /\ rowOf[f] = "live" /\ deeds = 0))
     \/ Mishap /\ UNCHANGED <<scratch, unseen>>
  /\ UNCHANGED <<rowOf, trees, deeds>>

FoldersDone ==
  /\ InScratch /\ gc.at = "folders" /\ gc.todo = {} /\ gc' = NoGc
  /\ UNCHANGED <<scratchVars, unseen, deeds, kills>>

ScratchNext ==
  \/ \E f \in Files : \/ AddRow(f) \/ AddWorktree(f) \/ makePrivate(f) \/ EndAttempt(f)
                      \/ CleanWorktree(f) \/ removeScratch(f) \/ LoseWorktree(f) \/ RemoveFolder(f)
  \/ ReadLive \/ \E old \in SUBSET Files : ListOrphans(old)
  \/ FoldersDone

-----------------------------------------------------------------------------
(* Snapshots *)

InSnapshots ==
  /\ chore = "snapshots"
  /\ UNCHANGED <<chore, day, inboxVars, docs, gc, unseen, scratchVars, deeds>>

\* Once a day.  What a killed copy left is removed before the next one.
snapshot ==
  /\ InSnapshots /\ snap.at = "idle" /\ snap.seen # day
  /\ IF snaps[day] = "none"
     THEN snap' = [snap EXCEPT !.at = "copy", !.for = day] /\ partial' = "part"
     ELSE snap' = [snap EXCEPT !.at = "prune", !.seen = day] /\ UNCHANGED partial
  /\ UNCHANGED <<snaps, taken, kills>>

\* Backup checks the copy before anything is done with it.
Checked == partial = "whole"

Failed == [snap EXCEPT !.at = "idle", !.seen = snap.for]

\* Backup: a copy that fails, or that is found damaged, is removed.
Backup ==
  /\ InSnapshots /\ snap.at = "copy"
  /\ \/ partial = "part" /\ partial' = "whole" /\ UNCHANGED <<snap, kills>>
     \/ Checked /\ snap' = [snap EXCEPT !.at = "rename"] /\ UNCHANGED <<partial, kills>>
     \/ Mishap /\ partial' = "none" /\ snap' = Failed
  /\ UNCHANGED <<snaps, taken>>

RenameSnapshot ==
  /\ InSnapshots /\ snap.at = "rename"
  /\ \/ /\ snaps' = [snaps EXCEPT ![snap.for] = partial] /\ partial' = "none"
        /\ taken' = taken \cup {snap.for}
        /\ snap' = [snap EXCEPT !.at = "prune", !.seen = snap.for] /\ UNCHANGED kills
     \/ Mishap /\ snap' = Failed /\ UNCHANGED <<snaps, partial, taken>>

\* pruneSnapshots: left-over copies go, and the oldest of too many snapshots.
pruneSnapshots ==
  LET kept == {d \in Day : snaps[d] # "none"} IN
  /\ InSnapshots /\ snap.at = "prune" /\ partial' = "none"
  /\ IF Cardinality(kept) > SnapshotKeep
     THEN /\ \E d \in kept : /\ \A e \in kept : d <= e
                             /\ snaps' = [snaps EXCEPT ![d] = "none"]
          /\ UNCHANGED <<snap, kills>>
     ELSE snap' = [snap EXCEPT !.at = "idle"] /\ UNCHANGED <<snaps, kills>>
  /\ UNCHANGED taken

\* The watcher is killed, or its session ends, which removes the copy.
StopSnapshot ==
  /\ InSnapshots /\ Mishap
  /\ \/ snap' = [snap EXCEPT !.at = "idle", !.seen = 0] /\ UNCHANGED partial
     \/ snap.at \in {"copy", "rename"} /\ snap' = [snap EXCEPT !.at = "idle"] /\ partial' = "none"
  /\ UNCHANGED <<snaps, taken>>

SnapshotsNext == snapshot \/ Backup \/ RenameSnapshot \/ pruneSnapshots \/ StopSnapshot

KeepingNext == NewDay \/ InboxNext \/ DocumentsNext \/ ScratchNext \/ SnapshotsNext
KeepingSpec == KeepingInit /\ [][KeepingNext]_keepVars
-----------------------------------------------------------------------------
(* Properties *)

\* What Hand moved to the trash stays there for a week, counted from the start of
\* the prune that moved it, whatever was killed or failed in between and whatever
\* the operator moved back and forth; only what somebody else put there may go
\* sooner.
TrashKept == ~early

\* hand gc deletes what it scanned, and nothing that was written since, but for
\* a write that comes between the last look and the removal; hand attempt gc
\* deletes no scratch folder of a live attempt, unless the operator removes
\* worktrees by hand meanwhile.
GcSound == ~unseen

\* Every snapshot is a whole copy, and the newest that were taken are there.
SnapshotsKept ==
  /\ \A d \in Day : snaps[d] # "part"
  /\ \A d \in taken : Cardinality({e \in taken : e > d}) < SnapshotKeep => snaps[d] = "whole"

FilesSafety == KeepingTypeOK /\ TrashKept /\ GcSound /\ SnapshotsKept
=============================================================================
