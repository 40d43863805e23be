----------------------------- MODULE Publication -----------------------------
(***************************************************************************)
(* The write side of one Bedit repository (src/src/mutation.rs):           *)
(* processes that publish a revision (create_revision, allocate_and_publish *)
(* and Repository::publish) and processes that tag one (write_tag).  They   *)
(* share the repository's directories and one kernel lock; each file        *)
(* operation is a step, and between two steps any other process may run,    *)
(* fail or crash.                                                           *)
(*                                                                          *)
(* A name is what the record files of one edited file share: directory key *)
(* and leaf.  Files of different directories may share it, for             *)
(* directory_key is not one-to-one (src/src/paths.rs).  A slot <<name, n>> *)
(* is revision n of it, and record[k][s] is who wrote the record file of   *)
(* kind k for slot s (None: no such file): it stands for the file's        *)
(* content.                                                                *)
(***************************************************************************)
EXTENDS Integers

CONSTANTS
  Names,        \* directory key and leaf of the edited files
  Keys,         \* directory keys
  KeyOf,        \* the directory key of each name
  MaxRevision,  \* the largest revision number (u64::MAX in the code)
  Publishers,   \* calls of create_revision, each with a content of its own
  Taggers,      \* calls of write_tag
  NameOf,       \* the name each publisher publishes under
  Foreign,      \* publishers whose actor is not the history's owner
  Faults,       \* what the environment may do, a subset of FaultKinds
  None

Procs == Publishers \union Taggers

(* "crash": a process dies between two steps.  "write": an operation fails   *)
(* and leaves nothing behind.  "sync": an operation takes effect, and the    *)
(* fsync of its directory then fails, so its caller sees an error.  "undo":  *)
(* an unlink of the rollback fails, an error the code ignores.              *)
FaultKinds == {"crash", "write", "sync", "undo"}

ASSUME ConstantsAssumption ==
  /\ MaxRevision \in Nat \ {0}
  /\ KeyOf \in [Names -> Keys]
  /\ NameOf \in [Publishers -> Names]
  /\ Foreign \subseteq Publishers
  /\ Faults \subseteq FaultKinds
  /\ Publishers \intersect Taggers = {}
  /\ None \notin Procs \union (Names \X (1..MaxRevision))

Numbers == 1..MaxRevision
Slots == Names \X Numbers

Files == {"backup", "diff", "access", "actor"}
Links == {"linkb", "linkd", "linka"}
Kinds == Files \union Links

(* What generate_diff leads to: which of them depends on the contents.       *)
Payloads == {"diff", "whole"}

(* What a call still has to do; "done", "failed" and "crashed" are its ends. *)
Ended == {"done", "failed", "crashed"}
Holding == {"allocate", "mkdir", "branch", "rollback", "tag", "commit", "abort"}
             \union Kinds
Stages == {"start", "open", "lock"} \union Holding \union Ended

VARIABLES
  lock,      \* the process holding the flock of .bedit-publication.lock
  record,    \* record files and index links, by kind and slot
  tag,       \* tag files, by slot: the revision the user meant to tag
  indexed,   \* keys whose index directory dirs/<key> exists
  branch,    \* content of dirs/<key>/.branch: who wrote it last
  pc,        \* the stage of each process
  payload,   \* "diff": baseline and diff; "whole": the represented content
  slot,      \* the slot a process works on
  created,   \* a publisher's records, to unlink if it fails
  shown,     \* the revision a tagger selected
  met        \* processes that were handed an error by a fault (history)

files == <<record, tag, indexed, branch>>
local == <<payload, slot, created, shown>>
vars == <<lock, record, tag, indexed, branch, pc, payload, slot, created, shown, met>>

TypeOK ==
  /\ lock \in Procs \union {None}
  /\ record \in [Kinds -> [Slots -> Publishers \union {None}]]
  /\ tag \in [Slots -> Publishers \union {None}]
  /\ indexed \in SUBSET Keys
  /\ branch \in [Keys -> Publishers \union {None}]
  /\ pc \in [Procs -> Stages]
  /\ payload \in [Publishers -> Payloads]
  /\ slot \in [Procs -> Slots \union {None}]
  /\ created \in [Publishers -> SUBSET Kinds]
  /\ shown \in [Taggers -> Publishers \union {None}]
  /\ met \in SUBSET Procs

Init ==
  /\ lock = None
  /\ record = [k \in Kinds |-> [s \in Slots |-> None]]
  /\ tag = [s \in Slots |-> None]
  /\ indexed = {}
  /\ branch = [key \in Keys |-> None]
  /\ pc = [q \in Procs |-> "start"]
  /\ payload = [p \in Publishers |-> "whole"]
  /\ slot = [q \in Procs |-> None]
  /\ created = [p \in Publishers |-> {}]
  /\ shown = [t \in Taggers |-> None]
  /\ met = {}

Goto(q, from, to) ==
  /\ pc[q] = from
  /\ pc' = [pc EXCEPT ![q] = to]

(* A fault of kind f strikes process q. *)
Meets(q, f) ==
  /\ f \in Faults
  /\ met' = met \union {q}

-----------------------------------------------------------------------------
(* create_revision *)

(* A diff that is not empty is stored beside the baseline; for an empty one, *)
(* or if the diff program fails, the represented content is stored alone.   *)
Prepare(p) ==
  /\ Goto(p, "start", "open")
  /\ \E kind \in Payloads : payload' = [payload EXCEPT ![p] = kind]
  /\ UNCHANGED <<lock, files, slot, created, shown, met>>

(* Repository::open opens or creates the root and its six directories. *)
Open(q) ==
  /\ Goto(q, "open", "lock")
  /\ UNCHANGED <<lock, files, local, met>>

(* Opening the repository, or its lock file, fails: the call returns. *)
OpenFails(q) ==
  /\ \E from \in {"open", "lock"} : Goto(q, from, "failed")
  /\ Meets(q, "write")
  /\ UNCHANGED <<lock, files, local>>

(* Mutant: the lock is a shared one. *)
AcquireShared(q) ==
  /\ lock' = q
  /\ Goto(q, "lock", IF q \in Taggers THEN "tag" ELSE "allocate")
  /\ UNCHANGED <<files, local, met>>

(* RepositoryLock::acquire: flock(LOCK_EX) returns. *)
Acquire(q) ==
  /\ lock = None
  /\ lock' = q
  /\ Goto(q, "lock", IF q \in Taggers THEN "tag" ELSE "allocate")
  /\ UNCHANGED <<files, local, met>>

(* Mutant: only numbers a listing would show are counted. *)
IsHighestListed(name, top) ==
  LET Shown(n) == \A k \in {"access", "backup"} : record[k][<<name, n>>] # None
  IN  /\ top \in 0..MaxRevision
      /\ top > 0 => Shown(top)
      /\ \A n \in Numbers : Shown(n) => n <= top

(* The largest number with an access record, zero if there is none. *)
IsHighest(name, top) ==
  /\ top \in 0..MaxRevision
  /\ top > 0 => record["access"][<<name, top>>] # None
  /\ \A n \in Numbers : record["access"][<<name, n>>] # None => n <= top

(* Mutant: the addition is not checked. *)
AllocateUnchecked(p) ==
  /\ \E top \in 0..MaxRevision :
       /\ IsHighest(NameOf[p], top)
       /\ slot' = [slot EXCEPT ![p] = <<NameOf[p], top + 1>>]
  /\ Goto(p, "allocate", "mkdir")
  /\ UNCHANGED <<lock, files, payload, created, shown, met>>

(* next_revision.  checked_add fails at the largest number. *)
Allocate(p) ==
  /\ \E top \in 0..MaxRevision :
       /\ IsHighest(NameOf[p], top)
       /\ IF top < MaxRevision
          THEN /\ slot' = [slot EXCEPT ![p] = <<NameOf[p], top + 1>>]
               /\ Goto(p, "allocate", "mkdir")
          ELSE /\ slot' = slot
               /\ Goto(p, "allocate", "abort")
  /\ UNCHANGED <<lock, files, payload, created, shown, met>>

(* An access record cannot be read, so no number is allocated. *)
AllocateFails(p) ==
  /\ Goto(p, "allocate", "abort")
  /\ Meets(p, "write")
  /\ UNCHANGED <<lock, files, local>>

-----------------------------------------------------------------------------
(* Repository::publish *)

MakeDirectory(p) ==
  /\ Goto(p, "mkdir", "branch")
  /\ indexed' = indexed \union {KeyOf[NameOf[p]]}
  /\ UNCHANGED <<lock, record, tag, branch, local, met>>

WriteBranch(p) ==
  /\ Goto(p, "branch", "backup")
  /\ branch' = [branch EXCEPT ![KeyOf[NameOf[p]]] = p]
  /\ UNCHANGED <<lock, record, tag, indexed, local, met>>

(* Both come before the part that rolls back: an error returns at once. *)
IndexFails(p) ==
  /\ \/ /\ Goto(p, "mkdir", "abort")
        /\ Meets(p, "write")
        /\ UNCHANGED branch
     \/ /\ Goto(p, "branch", "abort")
        /\ Meets(p, "write")
        /\ UNCHANGED branch
     \/ /\ Goto(p, "branch", "abort")
        /\ Meets(p, "sync")
        /\ branch' = [branch EXCEPT ![KeyOf[NameOf[p]]] = p]
  /\ UNCHANGED <<lock, record, tag, indexed, local>>

(* The records a publisher writes, and the one it writes after kind k. *)
Plan(p) ==
  {"backup", "access", "linkb", "linka"}
    \union (IF payload[p] = "diff" THEN {"diff", "linkd"} ELSE {})
    \union (IF p \in Foreign THEN {"actor"} ELSE {})

(* Mutant: the access record is written before the diff. *)
AfterSwapped(p, k) ==
  CASE k = "backup" -> "access"
    [] k = "access" -> IF payload[p] = "diff" THEN "diff"
                       ELSE IF p \in Foreign THEN "actor" ELSE "linkb"
    [] k = "diff"   -> IF p \in Foreign THEN "actor" ELSE "linkb"
    [] k = "actor"  -> "linkb"
    [] k = "linkb"  -> IF payload[p] = "diff" THEN "linkd" ELSE "linka"
    [] k = "linkd"  -> "linka"
    [] k = "linka"  -> "commit"

After(p, k) ==
  CASE k = "backup" -> IF payload[p] = "diff" THEN "diff" ELSE "access"
    [] k = "diff"   -> "access"
    [] k = "access" -> IF p \in Foreign THEN "actor" ELSE "linkb"
    [] k = "actor"  -> "linkb"
    [] k = "linkb"  -> IF payload[p] = "diff" THEN "linkd" ELSE "linka"
    [] k = "linkd"  -> "linka"
    [] k = "linka"  -> "commit"

Put(k, s, value) == record' = [record EXCEPT ![k] = [@ EXCEPT ![s] = value]]

(* Mutant: the diff is not remembered for the rollback. *)
WriteRecordForgetful(p, k) ==
  /\ Goto(p, k, After(p, k))
  /\ record[k][slot[p]] = None
  /\ Put(k, slot[p], p)
  /\ created' = [created EXCEPT ![p] = @ \union ({k} \intersect (Files \ {"diff"}))]
  /\ UNCHANGED <<lock, tag, indexed, branch, payload, slot, shown, met>>

(* write_noreplace or symlink_noreplace succeeds: the name was free.  Only    *)
(* record files are remembered in created.                                   *)
WriteRecord(p, k) ==
  /\ Goto(p, k, After(p, k))
  /\ record[k][slot[p]] = None
  /\ Put(k, slot[p], p)
  /\ created' = [created EXCEPT ![p] = @ \union ({k} \intersect Files)]
  /\ UNCHANGED <<lock, tag, indexed, branch, payload, slot, shown, met>>

(* Mutant: the lock's guard is dropped before the rollback. *)
StartRollbackUnlocked(p, k) ==
  /\ Goto(p, k, "rollback")
  /\ lock' = None
  /\ created' = [created EXCEPT ![p] = @ \union Links]
  /\ UNCHANGED <<tag, indexed, branch, payload, slot, shown>>

(* Any error rolls back what was created, and all three index links. *)
StartRollback(p, k) ==
  /\ Goto(p, k, "rollback")
  /\ created' = [created EXCEPT ![p] = @ \union Links]
  /\ UNCHANGED <<lock, tag, indexed, branch, payload, slot, shown>>

(* Mutant: a record that exists already counts as written. *)
RecordExistsIgnored(p, k) ==
  /\ Goto(p, k, After(p, k))
  /\ record[k][slot[p]] # None
  /\ UNCHANGED <<lock, files, local, met>>

(* The name is taken: EEXIST. *)
RecordExists(p, k) ==
  /\ StartRollback(p, k)
  /\ record[k][slot[p]] # None
  /\ UNCHANGED <<record, met>>

(* "sync": the file has its final name, and its writer sees an error. *)
WriteFails(p, k) ==
  /\ StartRollback(p, k)
  /\ \/ Meets(p, "write") /\ UNCHANGED record
     \/ Meets(p, "sync") /\ record[k][slot[p]] = None /\ Put(k, slot[p], p)

(* Records are unlinked in the reverse of the order they were created in,    *)
(* then the links a, b and d.                                               *)
UndoRank == [actor |-> 1, access |-> 2, diff |-> 3, backup |-> 4,
             linka |-> 5, linkb |-> 6, linkd |-> 7]

UndoNext(p, k) ==
  /\ k \in created[p]
  /\ \A j \in created[p] : UndoRank[k] <= UndoRank[j]
  /\ created' = [created EXCEPT ![p] = @ \ {k}]

Undo(p, k) ==
  /\ pc[p] = "rollback"
  /\ UndoNext(p, k)
  /\ Put(k, slot[p], None)
  /\ UNCHANGED <<lock, tag, indexed, branch, pc, payload, slot, shown, met>>

UndoFails(p, k) ==
  /\ pc[p] = "rollback"
  /\ UndoNext(p, k)
  /\ Meets(p, "undo")
  /\ UNCHANGED <<lock, files, pc, payload, slot, shown>>

(* Mutant: the error is lost once everything is rolled back. *)
UndoEndsWell(p) ==
  /\ created[p] = {}
  /\ Goto(p, "rollback", "commit")
  /\ UNCHANGED <<lock, files, local, met>>

UndoEnds(p) ==
  /\ created[p] = {}
  /\ Goto(p, "rollback", "abort")
  /\ UNCHANGED <<lock, files, local, met>>

(* RepositoryLock::drop, and the call returns. *)
Release(q) ==
  /\ \/ Goto(q, "commit", "done")
     \/ Goto(q, "abort", "failed")
  /\ lock' = None
  /\ UNCHANGED <<files, local, met>>

-----------------------------------------------------------------------------
(* write_tag *)

(* A revision is listed when its access record and its backup exist. *)
Visible(s) == record["access"][s] # None /\ record["backup"][s] # None

(* The user picks a revision from a listing, taken without the lock. *)
Select(t, s) ==
  /\ Visible(s)
  /\ Goto(t, "start", "open")
  /\ slot' = [slot EXCEPT ![t] = s]
  /\ shown' = [shown EXCEPT ![t] = record["access"][s]]
  /\ UNCHANGED <<lock, files, payload, created, met>>

(* Mutant: the tag goes to the file's newest revision. *)
WriteTagNewest(t) ==
  /\ Goto(t, "tag", "commit")
  /\ \E top \in Numbers :
       /\ IsHighest(slot[t][1], top)
       /\ tag' = [tag EXCEPT ![<<slot[t][1], top>>] = shown[t]]
  /\ UNCHANGED <<lock, record, indexed, branch, local, met>>

(* write_replace: the revision is not looked up again. *)
WriteTag(t) ==
  /\ Goto(t, "tag", "commit")
  /\ tag' = [tag EXCEPT ![slot[t]] = shown[t]]
  /\ UNCHANGED <<lock, record, indexed, branch, local, met>>

TagFails(t) ==
  /\ Goto(t, "tag", "abort")
  /\ \/ Meets(t, "write") /\ UNCHANGED tag
     \/ Meets(t, "sync") /\ tag' = [tag EXCEPT ![slot[t]] = shown[t]]
  /\ UNCHANGED <<lock, record, indexed, branch, local>>

-----------------------------------------------------------------------------
(* Mutant: the lock is a file that its holder has to remove. *)
CrashKeepsLock(q) ==
  /\ pc[q] \notin Ended \union {"start"}
  /\ "crash" \in Faults
  /\ pc' = [pc EXCEPT ![q] = "crashed"]
  /\ UNCHANGED <<lock, files, local, met>>

(* The kernel drops the lock of a process that dies. *)
Crash(q) ==
  /\ pc[q] \notin Ended \union {"start"}
  /\ "crash" \in Faults
  /\ pc' = [pc EXCEPT ![q] = "crashed"]
  /\ lock' = IF lock = q THEN None ELSE lock
  /\ UNCHANGED <<files, local, met>>

(* What the code does of its own accord, and what the environment does. *)
PublishStep(p) ==
  \/ Prepare(p) \/ Allocate(p) \/ MakeDirectory(p) \/ WriteBranch(p) \/ UndoEnds(p)
  \/ \E k \in Kinds : WriteRecord(p, k) \/ RecordExists(p, k) \/ Undo(p, k)

CallStep(q) == Open(q) \/ Acquire(q) \/ Release(q)

TagStep(t) == WriteTag(t) \/ \E s \in Slots : Select(t, s)

Fault ==
  \/ \E q \in Procs : OpenFails(q) \/ Crash(q)
  \/ \E p \in Publishers :
       \/ AllocateFails(p) \/ IndexFails(p)
       \/ \E k \in Kinds : WriteFails(p, k) \/ UndoFails(p, k)
  \/ \E t \in Taggers : TagFails(t)

Next ==
  \/ \E q \in Procs : CallStep(q)
  \/ \E p \in Publishers : PublishStep(p)
  \/ \E t \in Taggers : TagStep(t)
  \/ Fault

Spec == Init /\ [][Next]_vars

(* A call that has begun and is not killed goes on: it is straight-line code *)
(* whose one wait, flock, ends once the lock stays free.                     *)
Running(q) == pc[q] # "start"

Fairness ==
  /\ \A q \in Procs : WF_vars(Running(q) /\ CallStep(q))
  /\ \A p \in Publishers : WF_vars(Running(p) /\ PublishStep(p))
  /\ \A t \in Taggers : WF_vars(Running(t) /\ TagStep(t))

FairSpec == Spec /\ Fairness
-----------------------------------------------------------------------------
(* A backup's content, and what patch makes of it: a diff made against       *)
(* another baseline fails or gives what nobody represented ("mixed").        *)
Content(base) == <<IF payload[base] = "diff" THEN "baseline" ELSE "represented", base>>

Patched(base, diff) ==
  <<IF diff = base /\ payload[base] = "diff" THEN "represented" ELSE "mixed", base>>

(* Store::render, with no other process in between. *)
Render(s) ==
  LET base == record["backup"][s]
      diff == record["diff"][s]
  IN  IF diff = None THEN Content(base) ELSE Patched(base, diff)

(* Concurrent successful writers receive unique monotonic numbers           *)
(* (README.txt:122): a call returns a larger number than every call for the *)
(* same file that has already returned one.                                 *)
Returns(p) == pc[p] # "done" /\ pc'[p] = "done"

NumbersGrow ==
  [][\A p, q \in Publishers :
       Returns(p) /\ pc[q] = "done" /\ NameOf[p] = NameOf[q]
         => slot[p][2] > slot[q][2]]_vars

(* Nothing a later call, failure, rollback or crash does overwrites or       *)
(* removes a record of a revision whose call has returned (README.txt:123).  *)
SuccessIntact ==
  \A p \in Publishers :
    pc[p] = "done" => \A k \in Plan(p) : record[k][slot[p]] = p

(* A revision a call has returned consists of that call's records and of no  *)
(* others: "fully published" (README.txt:121).  A diff or an actor record    *)
(* left over from a failed call would be joined to it by every listing.      *)
FullyPublished ==
  \A p \in Publishers : pc[p] = "done" =>
    \A k \in Files : record[k][slot[p]] = IF k \in Plan(p) THEN p ELSE None

(* A revision is never listed before its content is complete, nor after its  *)
(* rollback or the crash of its writer has left it incomplete.              *)
VisibleRenders ==
  \A s \in Slots : Visible(s) => Render(s) = <<"represented", record["access"][s]>>

(* The revisions listed for a file are numbered 1, 2, ..., k.               *)
NoGaps ==
  \A name \in Names, n \in Numbers :
    n > 1 /\ Visible(<<name, n>>) => Visible(<<name, n - 1>>)

(* A tag stays with the revision the user saw when tagging it, although the  *)
(* choice is made before the lock is taken: only a revision that its writer  *)
(* withdraws meanwhile leaves its tag to the next one of its number.         *)
TagsMatch ==
  \A s \in Slots :
    tag[s] # None /\ Visible(s) =>
      tag[s] = record["access"][s] \/ pc[tag[s]] \in {"failed", "crashed"}

(* A call that is given a number and meets no fault of its own succeeds,    *)
(* whatever happened to other calls: the lock is crash-released             *)
(* (README.txt:121) and a failed call rolls back what it wrote.             *)
NoSpuriousFailure ==
  \A p \in Publishers : pc[p] = "failed" /\ slot[p] # None => p \in met

(* What can make such a call fail is a call that died under the same number, *)
(* and nothing else: a failed call leaves nothing behind.                   *)
FailuresExplained ==
  \A p \in Publishers : pc[p] = "failed" /\ slot[p] # None =>
    p \in met \/ \E q \in Publishers : pc[q] = "crashed" /\ slot[q] = slot[p]

(* Every call that has begun returns or is killed: nobody waits forever for  *)
(* the lock of a process that failed or died.                               *)
EveryCallEnds ==
  \A q \in Procs : Running(q) ~> pc[q] \in Ended

-----------------------------------------------------------------------------
(* The inductive invariant.                                                  *)

(* The lock is held by exactly the process inside the critical section.      *)
LockHeld == \A q \in Procs : lock = q <=> pc[q] \in Holding

Unpublished == {"mkdir", "branch", "backup", "diff", "access"}
Numbered == Kinds \union {"mkdir", "branch", "rollback", "commit"}

(* A publisher is given a number once, under its own name.                   *)
Unnumbered == {"start", "open", "lock", "allocate"}

SlotsNamed ==
  \A p \in Publishers :
    /\ slot[p] # None => slot[p][1] = NameOf[p]
    /\ pc[p] \in Numbered \union {"done"} => slot[p] # None
    /\ pc[p] \in Unnumbered => slot[p] = None

(* Every record a publisher wrote carries its number.                        *)
RecordsOwned ==
  \A k \in Kinds, s \in Slots, p \in Publishers : record[k][s] = p => slot[p] = s

(* While it works, its number is the highest, and only its own access record *)
(* may bear it.                                                             *)
NumberFresh ==
  \A p \in Publishers : pc[p] \in Numbered =>
    /\ \A n \in Numbers : n > slot[p][2] => record["access"][<<NameOf[p], n>>] = None
    /\ record["access"][slot[p]] \in {None, p}
    /\ pc[p] \in Unpublished => record["access"][slot[p]] = None

(* The records before the one it is about to write exist and are its own.    *)
Position == [backup |-> 1, diff |-> 2, access |-> 3, actor |-> 4, linkb |-> 5,
             linkd |-> 6, linka |-> 7, commit |-> 8, done |-> 9]

RecordsInOrder ==
  \A p \in Publishers : pc[p] \in Kinds \union {"commit", "done"} =>
    \A k \in Plan(p) : Position[k] < Position[pc[p]] => record[k][slot[p]] = p

IInv ==
  TypeOK /\ LockHeld /\ SlotsNamed /\ RecordsOwned /\ NumberFresh /\ RecordsInOrder

-----------------------------------------------------------------------------
(* The history the repository presents, and the calls that have returned.    *)
Listed == [s \in Slots |-> IF Visible(s) THEN record["access"][s] ELSE None]

Log == INSTANCE RevisionLog
         WITH history <- Listed, reported <- {p \in Publishers : pc[p] = "done"}

(* The repository implements the append-only log of RevisionLog.            *)
ImplementsLog == Log!Spec
=============================================================================
