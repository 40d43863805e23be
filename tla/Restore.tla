------------------------------- MODULE Restore -------------------------------
(***************************************************************************)
(* Restoring one file (src/src/mutation.rs: restore_revision, replace_live, *)
(* create_revision and its mirror; src/src/cli.rs: -r, -rb, -rbd, -rd,      *)
(* -goto) while editors save the file, an edit session stores what they     *)
(* saved, and other restores run.  A publication is one step here: module   *)
(* Publication shows that one which succeeds is complete and that one which *)
(* fails leaves nothing.  A revision has a backup and what it renders to;   *)
(* it has a diff when the two differ.                                       *)
(***************************************************************************)
EXTENDS Naturals, Sequences

CONSTANTS
  Contents,      \* what the file may contain
  Restorers,     \* the commands that restore
  session,       \* the edit session of the file
  None,          \* no file
  MaxRevisions,  \* bound: revisions of the file
  MaxSaves,      \* bound: changes of the file that are not Bedit's
  MaxFaults      \* bound: operations that fail and processes that die

Revisions == [backup : Contents, shows : Contents]

ASSUME RestoreAssumption ==
  /\ None \notin Contents \union Revisions \union Restorers /\ session \notin Restorers
  /\ MaxRevisions \in Nat /\ MaxSaves \in Nat /\ MaxFaults \in Nat

Processes == Restorers \union {session}

VARIABLES
  live,       \* the file
  canonical,  \* the revisions, oldest first
  mirror,     \* those published to the user's mirror, in its own order
  pc,         \* what each process does next
  job,        \* what it works with, see NoJob
  base,       \* the session's baseline
  missing,    \* revisions its mirror refused, which it has not said yet
  failed,     \* the last command of the process has failed
  warned,     \* revisions whose missing mirror was printed (history)
  lost,       \* those whose warning went with a call that failed or died (history)
  raced,      \* the file was changed by another since the restore read it (history)
  saves, faults

repositories == <<canonical, mirror>>
told == <<missing, failed, warned, lost>>
vars == <<live, canonical, mirror, pc, job, base, missing, failed, warned, lost, raced, saves,
          faults>>

NoJob == [had |-> None,      \* what was read of the file
          asked |-> None,    \* the revision whose diff is wanted
          listed |-> None,   \* what the latest revision listed renders to
          target |-> None,   \* what the file is to become
          made |-> 0]        \* the revision published last
Steps == {"idle", "read", "list", "patch", "sync", "sync mirror", "replace", "publish", "mirror",
          "rollback", "watch", "store", "store mirror"}
Numbers == 1 .. Len(canonical)
Latest == canonical[Len(canonical)]

(* Nothing was stored yet, or an earlier session has stored a revision.       *)
Init ==
  /\ live \in Contents
  /\ canonical \in {<<>>} \union {<<one>> : one \in {r \in Revisions : r.backup # r.shows}}
  /\ mirror = [n \in Numbers |-> n]
  /\ pc = [p \in Processes |-> "idle"]
  /\ job = [p \in Processes |-> NoJob]
  /\ base = live
  /\ missing = [p \in Processes |-> {}]
  /\ failed = [p \in Processes |-> FALSE] /\ warned = {} /\ lost = {}
  /\ raced = {}
  /\ saves = 0 /\ faults = 0

Fault == faults < MaxFaults /\ faults' = faults + 1
Goto(p, label) == pc' = [pc EXCEPT ![p] = label]

(* The process ends: it prints the warnings for some revisions, and drops      *)
(* those for others.                                                          *)
End(p, failing, said, dropped) ==
  /\ Goto(p, "idle") /\ job' = [job EXCEPT ![p] = NoJob]
  /\ failed' = [failed EXCEPT ![p] = failing]
  /\ missing' = [missing EXCEPT ![p] = {}]
  /\ warned' = warned \union said /\ lost' = lost \union dropped

(* The file changes by the hand of p.                                         *)
Write(p, c) ==
  /\ live' = c
  /\ raced' = (raced \union {q \in Restorers : pc[q] # "idle"}) \ {p}

(* allocate_and_publish; generate_diff may fail, and finds nothing between    *)
(* equal states: a revision without a diff.                                   *)
Record(p, before, after) ==
  /\ Len(canonical) < MaxRevisions
  /\ job' = [job EXCEPT ![p].made = Len(canonical) + 1]
  /\ \/ /\ canonical' = Append(canonical, [backup |-> before, shows |-> after])
        /\ UNCHANGED faults
     \/ /\ before # after /\ Fault
        /\ canonical' = Append(canonical, [backup |-> after, shows |-> after])

-----------------------------------------------------------------------------
(* A command.  The revisions listed for its arguments include the one asked   *)
(* for; restore_revision reads the file before it lists them again, -rd reads *)
(* it after and keeps the first list.                                         *)

RestoreBackup(n) == [NoJob EXCEPT !.target = canonical[n].backup]
RestoreRendered(n) == [NoJob EXCEPT !.target = canonical[n].shows]
RestoreDiff(n) == [NoJob EXCEPT !.asked = canonical[n], !.listed = Latest.shows]

Start(r) ==
  /\ pc[r] = "idle" /\ canonical # <<>>
  /\ \E n \in Numbers :
       \E new \in {RestoreBackup(n), RestoreRendered(n), RestoreDiff(n)} :
         job' = [job EXCEPT ![r] = new]
  /\ failed' = [failed EXCEPT ![r] = FALSE]
  /\ Goto(r, "read")
  /\ UNCHANGED <<live, repositories, base, missing, warned, lost, raced, saves, faults>>

Read(r) ==
  /\ pc[r] = "read" /\ live # None
  /\ job' = [job EXCEPT ![r].had = live]
  /\ raced' = raced \ {r}
  /\ Goto(r, IF job[r].asked = None THEN "list" ELSE "patch")
  /\ UNCHANGED <<live, repositories, base, told, saves, faults>>

(* Mutant: the list is not read again, the state to compare with is missing.  *)
ListNone(r) ==
  /\ pc[r] = "list"
  /\ Goto(r, "sync")
  /\ UNCHANGED <<live, repositories, job, base, told, raced, saves, faults>>

List(r) ==
  /\ pc[r] = "list"
  /\ job' = [job EXCEPT ![r].listed = Latest.shows]
  /\ Goto(r, "sync")
  /\ UNCHANGED <<live, repositories, base, told, raced, saves, faults>>

(* restore_diff_target: the diff on its backup gives what the revision        *)
(* renders to; on another state, if the user agrees, patch gives anything.    *)
Patch(r) ==
  /\ pc[r] = "patch"
  /\ job[r].asked.backup # job[r].asked.shows
  /\ \E c \in IF job[r].had = job[r].asked.backup THEN {job[r].asked.shows} ELSE Contents :
       job' = [job EXCEPT ![r].target = c]
  /\ Goto(r, "sync")
  /\ UNCHANGED <<live, repositories, base, told, raced, saves, faults>>

(* Mutant: a state that cannot be preserved is replaced nevertheless.         *)
SyncOrElse(r) ==
  /\ pc[r] = "sync"
  /\ \/ /\ job[r].listed = job[r].had \/ faults < MaxFaults
        /\ Goto(r, "replace")
        /\ UNCHANGED <<canonical, job, faults>>
     \/ /\ job[r].listed # job[r].had
        /\ Record(r, job[r].listed, job[r].had)
        /\ Goto(r, "sync mirror")
  /\ UNCHANGED <<live, mirror, base, told, raced, saves>>

(* The file is not what the latest listed revision renders to: a revision     *)
(* named sync preserves it first.                                             *)
Sync(r) ==
  /\ pc[r] = "sync"
  /\ \/ /\ job[r].listed = job[r].had
        /\ Goto(r, "replace")
        /\ UNCHANGED <<canonical, job, faults>>
     \/ /\ job[r].listed # job[r].had
        /\ Record(r, job[r].listed, job[r].had)
        /\ Goto(r, "sync mirror")
  /\ UNCHANGED <<live, mirror, base, told, raced, saves>>

(* The end of create_revision: the mirror takes the revision, or its failure  *)
(* becomes a warning.                                                         *)
Mirrored(p) == mirror' = Append(mirror, job[p].made) /\ UNCHANGED faults
Unmirrored(p) == Fault /\ UNCHANGED mirror

(* -rd prints the warning of its sync at once; restore_revision has it in     *)
(* hand until it succeeds.                                                    *)
SyncMirror(r) ==
  /\ pc[r] = "sync mirror"
  /\ \/ Mirrored(r) /\ UNCHANGED <<missing, warned>>
     \/ /\ Unmirrored(r) /\ job[r].asked # None
        /\ warned' = warned \union {job[r].made} /\ UNCHANGED missing
     \/ /\ Unmirrored(r) /\ job[r].asked = None
        /\ missing' = [missing EXCEPT ![r] = {job[r].made}] /\ UNCHANGED warned
  /\ Goto(r, "replace")
  /\ UNCHANGED <<live, canonical, job, base, failed, lost, raced, saves>>

(* write_replace renames the new file into place and then syncs the           *)
(* directory: when that fails the command ends, with the file replaced and    *)
(* nothing rolled back.                                                       *)
Replace(r) ==
  /\ pc[r] = "replace" /\ live # None
  /\ Write(r, job[r].target)
  /\ \/ /\ Goto(r, "publish")
        /\ UNCHANGED <<job, told, faults>>
     \/ /\ Fault
        /\ End(r, TRUE, {}, missing[r])
  /\ UNCHANGED <<repositories, base, saves>>

PublishRestored(r) ==
  /\ pc[r] = "publish"
  /\ \/ /\ Record(r, job[r].had, job[r].target)
        /\ Goto(r, "mirror")
     \/ /\ Fault
        /\ Goto(r, "rollback")
        /\ UNCHANGED <<canonical, job>>
  /\ UNCHANGED <<live, mirror, base, told, raced, saves>>

(* Mutant: the warning of the sync is forgotten.                              *)
RestoredMirrorLast(r) ==
  /\ pc[r] = "mirror"
  /\ \/ Mirrored(r) /\ End(r, FALSE, {}, {})
     \/ Unmirrored(r) /\ End(r, FALSE, {job[r].made}, {})
  /\ raced' = raced \ {r}
  /\ UNCHANGED <<live, canonical, base, saves>>

(* The command succeeds: it prints the new revision and the warnings of both. *)
RestoredMirror(r) ==
  /\ pc[r] = "mirror"
  /\ \/ Mirrored(r) /\ End(r, FALSE, missing[r], {})
     \/ Unmirrored(r) /\ End(r, FALSE, missing[r] \union {job[r].made}, {})
  /\ raced' = raced \ {r}
  /\ UNCHANGED <<live, canonical, base, saves>>

(* Mutant: the rollback writes what the latest revision renders to.           *)
RollbackListed(r) ==
  /\ pc[r] = "rollback"
  /\ End(r, TRUE, {}, missing[r])
  /\ \/ /\ live # None /\ Write(r, job[r].listed)
        /\ UNCHANGED faults \/ Fault
     \/ /\ \/ live = None /\ UNCHANGED faults
           \/ live # None /\ Fault
        /\ raced' = raced \ {r}
        /\ UNCHANGED live
  /\ UNCHANGED <<repositories, base, saves>>

(* The state that was read is written back, whatever is there now; whether    *)
(* that succeeds, or fails before or after its rename, restore_revision       *)
(* returns the error of the publication and nothing else.                     *)
Rollback(r) ==
  /\ pc[r] = "rollback"
  /\ End(r, TRUE, {}, missing[r])
  /\ \/ /\ live # None /\ Write(r, job[r].had)
        /\ UNCHANGED faults \/ Fault
     \/ /\ \/ live = None /\ UNCHANGED faults
           \/ live # None /\ Fault
        /\ raced' = raced \ {r}
        /\ UNCHANGED live
  /\ UNCHANGED <<repositories, base, saves>>

(* Every step up to the rename ends the command when it fails: there is no    *)
(* file or no diff, the user does not agree, patch fails, an operation fails. *)
(* The error is all that is printed.                                          *)
Fails(r) ==
  /\ pc[r] \in {"read", "list", "patch", "sync", "replace"}
  /\ \/ /\ \/ pc[r] \in {"read", "replace"} /\ live = None
           \/ pc[r] = "patch" /\ job[r].had # job[r].asked.backup
           \/ pc[r] = "patch" /\ job[r].asked.backup = job[r].asked.shows
        /\ UNCHANGED faults
     \/ Fault
  /\ End(r, pc[r] # "read", {}, missing[r])
  /\ raced' = raced \ {r}
  /\ UNCHANGED <<live, repositories, base, saves>>

-----------------------------------------------------------------------------
(* The edit session of an existing file (module Session has the whole of it): *)
(* it takes its baseline, stores what it sees the file change to, queues the  *)
(* mirror's warnings, and prints them when the editor has ended and the last  *)
(* poll finds nothing more to store.                                          *)

Open ==
  /\ pc[session] = "idle" /\ live # None
  /\ base' = live
  /\ Goto(session, "watch")
  /\ UNCHANGED <<live, repositories, job, told, raced, saves, faults>>

See ==
  /\ pc[session] = "watch" /\ live \notin {None, base}
  /\ job' = [job EXCEPT ![session].target = live]
  /\ Goto(session, "store")
  /\ UNCHANGED <<live, repositories, base, told, raced, saves, faults>>

(* A revision that cannot be published ends the session, and its queue is     *)
(* never printed.                                                             *)
Store ==
  /\ pc[session] = "store"
  /\ \/ /\ Record(session, base, job[session].target)
        /\ base' = job[session].target
        /\ Goto(session, "store mirror")
        /\ UNCHANGED told
     \/ /\ Fault
        /\ End(session, TRUE, {}, missing[session])
        /\ UNCHANGED <<canonical, base>>
  /\ UNCHANGED <<live, mirror, raced, saves>>

StoreMirror ==
  /\ pc[session] = "store mirror"
  /\ \/ Mirrored(session) /\ UNCHANGED missing
     \/ Unmirrored(session) /\ missing' = [missing EXCEPT ![session] = @ \union {job[session].made}]
  /\ job' = [job EXCEPT ![session] = NoJob]
  /\ Goto(session, "watch")
  /\ UNCHANGED <<live, canonical, base, failed, warned, lost, raced, saves>>

Close ==
  /\ pc[session] = "watch" /\ live \in {None, base}
  /\ End(session, FALSE, missing[session], {})
  /\ UNCHANGED <<live, repositories, base, raced, saves, faults>>

-----------------------------------------------------------------------------
(* An editor saves the file, or the user removes it.                          *)
Save ==
  /\ saves < MaxSaves /\ saves' = saves + 1
  /\ \E c \in (Contents \union {None}) \ {live} : Write(None, c)
  /\ UNCHANGED <<repositories, pc, job, base, told, faults>>

Publishing == {"sync mirror", "mirror", "store mirror"}

Die(p) ==
  /\ pc[p] # "idle" /\ Fault
  /\ End(p, FALSE, {}, missing[p] \union (IF pc[p] \in Publishing THEN {job[p].made} ELSE {}))
  /\ raced' = raced \ {p}
  /\ UNCHANGED <<live, repositories, base, saves>>

Command(r) ==
  \/ Start(r) \/ Read(r) \/ List(r) \/ Patch(r) \/ Sync(r) \/ SyncMirror(r)
  \/ Replace(r) \/ PublishRestored(r) \/ RestoredMirror(r) \/ Fails(r)
  \/ Rollback(r)

Next ==
  \/ \E r \in Restorers : Command(r)
  \/ Open \/ See \/ Store \/ StoreMirror \/ Close
  \/ Save
  \/ \E p \in Processes : Die(p)

Spec == Init /\ [][Next]_vars

-----------------------------------------------------------------------------
(* Properties.                                                               *)

(* Types of the whole state; a command past its listing has a state to compare *)
(* with, and past its choice a state to restore. *)
RestoreType ==
  /\ live \in Contents \union {None}
  /\ \A n \in Numbers : canonical[n] \in Revisions
  /\ \A k \in DOMAIN mirror : mirror[k] \in Numbers
  /\ pc \in [Processes -> Steps]
  /\ \A p \in Processes :
       /\ job[p].had \in Contents \union {None}
       /\ job[p].asked \in Revisions \union {None}
       /\ job[p].listed \in Contents \union {None} /\ job[p].target \in Contents \union {None}
       /\ job[p].made \in Numbers \union {0}
       /\ pc[p] \in {"sync", "replace", "publish", "store"} => job[p].target # None
       /\ pc[p] = "sync" => job[p].listed # None
  /\ base \in Contents
  /\ missing \in [Processes -> SUBSET Numbers]
  /\ warned \subseteq Numbers /\ lost \subseteq Numbers
  /\ failed \in [Processes -> BOOLEAN] /\ raced \subseteq Restorers
  /\ saves \in 0 .. MaxSaves /\ faults \in 0 .. MaxFaults

(* What a revision keeps.                                                     *)
Recoverable == {canonical[n].backup : n \in Numbers} \union {canonical[n].shows : n \in Numbers}

(* A restore replaces the file only after the state it has read is in the     *)
(* repository, though others publish between its listing and its sync, and    *)
(* though -rd compares with a list older than the question it asks.           *)
PriorKept ==
  \A r \in Restorers :
    pc[r] \in {"replace", "sync mirror", "publish", "mirror", "rollback"} =>
      job[r].had \in Recoverable

(* The mirror has each revision once, or the call that made the revision      *)
(* still owes the warning ("user history mirror failed"), or has printed it,  *)
(* or had it in hand when it failed or died.  In particular a restore that    *)
(* succeeds has said all that its mirror lacks, and so has a session that     *)
(* ends well, however many revisions it stored; and nobody warns of a         *)
(* revision that the mirror has.                                              *)
MirrorAccounted ==
  \A n \in Numbers :
    LET copies == {k \in DOMAIN mirror : mirror[k] = n}
        awaited == {p \in Processes : (pc[p] \in Publishing /\ job[p].made = n) \/ n \in missing[p]}
    IN IF copies # {} THEN /\ n \notin warned \union lost /\ awaited = {}
                           /\ \A k, l \in copies : k = l
       ELSE n \in warned \union lost \/ awaited # {}

(* A restore that fails after it has read the file leaves the state it found, *)
(* unless another process has written the file meanwhile; or, when the sync   *)
(* after the rename fails or the rollback does, it leaves the whole state     *)
(* that was asked for, and the state it found is in the repository.           *)
FailedUndone ==
  [][\A r \in Restorers :
       failed'[r] /\ ~ failed[r] /\ r \notin raced =>
         \/ live' = job[r].had
         \/ /\ pc[r] \in {"replace", "rollback"}
            /\ live' = job[r].target /\ job[r].had \in Recoverable']_vars

(* "Current state will be preserved automatically before this revision        *)
(* becomes current" (src/src/tui.rs): whatever a restore writes over the      *)
(* file, the state that it replaces can be recovered.                         *)
NothingLost ==
  [][\A r \in Restorers :
       pc[r] \in {"replace", "rollback"} /\ pc'[r] # pc[r] /\ live' # live =>
         live \in Recoverable']_vars
=============================================================================
