---------------------------- MODULE ListingProofs ----------------------------
(* Proofs about Listing.  A reader's steps leave the repository alone, so     *)
(* that what is proved of Publication holds beside a reader.  What a reader   *)
(* has put together is then right for a reason that does not depend on when   *)
(* it read what: the records of a call that has returned never change, and a  *)
(* record that is gone belonged to a call that withdrew it.                   *)
EXTENDS Listing, RevisionProofs

-----------------------------------------------------------------------------
(* The index, as the writers leave it: a .branch file names a call of that    *)
(* key, and the directory of a call past its creation is there.              *)
Key(p) == KeyOf[NameOf[p]]

IndexInv ==
  /\ \A key \in Keys : branch[key] # None => Key(branch[key]) = key
  /\ \A p \in Publishers :
       pc[p] \in Kinds \union {"branch", "rollback", "commit", "done"} => Key(p) \in indexed

(* What holds of the repository under clean faults.                          *)
Sound == IInv /\ TagInv /\ PlanInv /\ CleanInv /\ FullyPublished /\ SuccessIntact /\ IndexInv

(* Stages in the middle of one row.                                          *)
Midway == {"backup", "tag", "actor", "diff"}

(* Per stage, the types of what the next step reads.                         *)
StageTypes ==
  /\ stage = "ready" => \A s \in Slots : rows[s] = None
  /\ stage \in RowStages => pending \subseteq Slots
  /\ stage \in Midway => at \in Slots /\ row \in Rows
  /\ stage \in {"patch", "rendered"} => at \in Slots /\ rows[at] # None /\ row = rows[at]
  /\ stage = "patch" => base \in Publishers /\ row.diff
  /\ stage \in {"keys", "entries", "links"} => pending \subseteq Keys
  /\ stage \in {"entries", "links"} => at \in Keys /\ dir \in Dirs
  /\ stage = "links" =>
       \A s \in Slots, k \in Links : <<s, k>> \in links => KeyOf[s[1]] = at
  /\ stage = "files" =>
       \A s \in Slots, k \in Kept :
         <<s, k>> \in links => rows[s] # None /\ (k = "diff" => rows[s].diff)

(* The types of the reader's variables.                                      *)
ReaderTyped == ListingType /\ StageTypes

-----------------------------------------------------------------------------
(* The calls that had returned when the reader began have returned.          *)
BeganDone == \A p \in began : pc[p] = "done"

(* Each of them is still to be read, is being read or has a row.             *)
Covered ==
  \A p \in began :
    /\ stage \in RowStages =>
         \/ slot[p] \in pending
         \/ stage \in Midway /\ at = slot[p]
         \/ rows[slot[p]] # None
    /\ stage \in LaterStages => rows[slot[p]] # None

(* The row that is being read, and those that were, show what was published. *)
MidwayRight ==
  \A p \in began : stage \in Midway /\ at = slot[p] =>
    row.writer = p /\ (stage = "diff" => row.actor = Actor(p))

RowsRight ==
  \A p \in began : rows[slot[p]] # None =>
    /\ rows[slot[p]].writer = p
    /\ rows[slot[p]].actor = Actor(p)
    /\ rows[slot[p]].diff <=> payload[p] = "diff"

(* What CompletedListed rests on.                                            *)
RowsInv == BeganDone /\ Covered /\ MidwayRight /\ RowsRight

-----------------------------------------------------------------------------
(* A slot that was listed, is being read or has a row was some call's.       *)
PendingHad ==
  stage \in RowStages => \A s \in pending : \E w \in Publishers : Was(w, s)

MidwayHad == stage \in Midway => Was(row.writer, at)

RowsHad == \A s \in Slots : rows[s] # None => Was(rows[s].writer, s)

(* A row whose revision is still its writer's tells rightly if it has a diff. *)
DiffTold ==
  \A s \in Slots : rows[s] # None /\ record["access"][s] = rows[s].writer =>
    (rows[s].diff <=> payload[rows[s].writer] = "diff")

(* The backup a render is about to patch is the one of the row's writer.      *)
BaseRight == stage = "patch" /\ record["access"][at] = row.writer => base = row.writer

(* The reader failed on the index, or on a slot whose call has withdrawn it   *)
(* and will not write it again.                                              *)
FailedHad ==
  stage = "failed" =>
    \/ at \in Keys
    \/ at \in Slots /\ \E w \in Publishers : Was(w, at) /\ record["access"][at] # w

(* What RenderedRight and RowsReadable rest on.                              *)
HadInv ==
  PendingHad /\ MidwayHad /\ RowsHad /\ DiffTold /\ BaseRight /\ RenderedRight /\ FailedHad

-----------------------------------------------------------------------------
(* Files of different directories do not share a directory key: Bedit's own   *)
(* .branch file of a key names one directory.                                *)
OneDirPerKey == \A p, q \in Publishers : Key(p) = Key(q) => DirOf[p] = DirOf[q]

(* The link, or file, of kind k that p published, as an item.                *)
ItemOf(p, k) == [slot |-> slot[p], kind |-> k, dir |-> DirOf[p]]

(* Whether the reader has it, or is about to read it.                        *)
Reached(p, kinds) ==
  \A k \in kinds \intersect Plan(p) : <<slot[p], k>> \in links \/ ItemOf(p, k) \in items

Has(p, kinds) == \A k \in kinds \intersect Plan(p) : ItemOf(p, k) \in items

(* The keys of those calls are still to be read, are being read, or were.    *)
KeysCovered ==
  \A p \in began :
    /\ stage \in {"keys", "entries", "links"} =>
         \/ Key(p) \in pending
         \/ stage = "entries" /\ at = Key(p)
         \/ stage = "links" /\ at = Key(p) /\ Reached(p, Links)
         \/ Has(p, Links)
    /\ stage = "printed" => Has(p, Links)

(* The directory that is being read, and the items that were, are placed      *)
(* where the files are.                                                      *)
KeyPlaced ==
  stage \in {"entries", "links"} => \A p \in Publishers : Key(p) = at => dir = DirOf[p]

ItemsPlaced ==
  /\ stage \in RowStages \union {"listed"} => items = {}
  /\ stage \in {"keys", "entries", "links", "printed"} =>
       \A i \in items, p \in began : i.slot = slot[p] => i.dir = DirOf[p]

(* A search misses none of their files.                                      *)
FilesCovered ==
  \A p \in began : /\ stage = "files" => Reached(p, Kept)
                   /\ stage = "searched" => Has(p, Kept)

(* What CompletedPrinted rests on.                                           *)
ItemsInv == KeysCovered /\ KeyPlaced /\ ItemsPlaced /\ FilesCovered

-----------------------------------------------------------------------------
(* A call leaves the stage of its index directory by creating it, or fails.  *)
LEMMA OnlyMakeDirectory ==
  ASSUME TypeOK, [Next]_vars, NEW p \in Publishers, pc[p] = "mkdir", pc'[p] = "branch"
  PROVE  MakeDirectory(p)
<1> USE DEF Goto, Procs
<1>0. pc \in [Procs -> Stages] /\ payload \in [Publishers -> Payloads] /\ p \in Procs
  BY DEF TypeOK
<1>1. ASSUME NEW q \in Procs, CallStep(q) \/ OpenFails(q) \/ Crash(q) PROVE FALSE
  BY <1>0, <1>1 DEF CallStep, Open, Acquire, Release, OpenFails, Crash
<1>2. ASSUME NEW t \in Taggers, TagStep(t) \/ TagFails(t) PROVE FALSE
  BY <1>0, <1>2 DEF TagStep, WriteTag, Select, TagFails
<1>3. ASSUME NEW q \in Publishers, Allocate(q) PROVE FALSE
  <2>1. \E to \in {"mkdir", "abort"} : Goto(q, "allocate", to)
    BY <1>3 DEF Allocate
  <2> QED
    BY <1>0, <2>1
<1>4. ASSUME NEW q \in Publishers,
             Prepare(q) \/ WriteBranch(q) \/ UndoEnds(q) \/ AllocateFails(q) \/ IndexFails(q)
      PROVE  FALSE
  BY <1>0, <1>4 DEF Prepare, WriteBranch, UndoEnds, AllocateFails, IndexFails
<1>5. ASSUME NEW q \in Publishers, NEW k \in Kinds, RecordStep(q, k) PROVE FALSE
  <2>1. \/ pc' = pc
        \/ pc[q] = k /\ \E to \in {After(q, k), "rollback"} : pc' = [pc EXCEPT ![q] = to]
    BY <1>5 DEF RecordStep, WriteRecord, RecordExists, WriteFails, StartRollback, Undo, UndoFails
  <2> QED
    BY <1>0, <2>1 DEF Kinds, Files, Links
<1>6. ASSUME NEW q \in Publishers, MakeDirectory(q) PROVE MakeDirectory(p)
  BY <1>0, <1>6 DEF MakeDirectory
<1>7. ~ UNCHANGED vars
  BY DEF vars
<1> HIDE DEF Goto, Procs
<1> QED
  BY <1>1, <1>2, <1>3, <1>4, <1>5, <1>6, <1>7 DEF Next, PublishStep, Fault, RecordStep

-----------------------------------------------------------------------------
(* A step keeps IndexInv: index directories stay, and a .branch file is       *)
(* written by calls of its key only, after the directory was made.           *)
LEMMA IndexStep == ASSUME IInv, IndexInv, [Next]_vars PROVE IndexInv'
<1> USE ConstantsAssumption DEF IndexInv, Key, Procs
<1>0. /\ pc \in [Procs -> Stages] /\ payload \in [Publishers -> Payloads]
      /\ branch \in [Keys -> Publishers \union {None}] /\ indexed \in SUBSET Keys
  BY DEF IInv, TypeOK
<1>1. \/ UNCHANGED <<indexed, branch>>
      \/ \E p \in Publishers : MakeDirectory(p) \/ WriteBranch(p) \/ IndexFails(p)
  <2>1. CASE UNCHANGED vars
    BY <2>1 DEF vars
  <2>2. ASSUME NEW q \in Procs, CallStep(q) \/ OpenFails(q) \/ Crash(q)
        PROVE  UNCHANGED <<indexed, branch>>
    BY <2>2 DEF CallStep, Open, Acquire, Release, OpenFails, Crash, files
  <2>3. ASSUME NEW t \in Taggers, TagStep(t) \/ TagFails(t)
        PROVE  UNCHANGED <<indexed, branch>>
    BY <2>3 DEF TagStep, WriteTag, Select, TagFails, files
  <2>4. ASSUME NEW p \in Publishers, Prepare(p) \/ Allocate(p) \/ UndoEnds(p) \/ AllocateFails(p)
        PROVE  UNCHANGED <<indexed, branch>>
    BY <2>4 DEF Prepare, Allocate, UndoEnds, AllocateFails, files
  <2>5. ASSUME NEW p \in Publishers, NEW k \in Kinds, RecordStep(p, k)
        PROVE  UNCHANGED <<indexed, branch>>
    BY <2>5 DEF RecordStep, WriteRecord, RecordExists, WriteFails, StartRollback, Undo, UndoFails,
                files
  <2> QED
    BY <2>1, <2>2, <2>3, <2>4, <2>5 DEF Next, PublishStep, Fault, RecordStep
<1> DEFINE Inside == Kinds \union {"branch", "rollback", "commit", "done"}
<1>2. ASSUME NEW p \in Publishers, pc'[p] \in Inside, pc[p] \notin Inside
      PROVE  Key(p) \in indexed'
  <2>1. pc[p] = "mkdir" /\ pc'[p] = "branch"
    <3>1. CASE Recording
      <4>1. PICK q \in Publishers, k \in Kinds : RecordStep(q, k)
        BY <3>1 DEF Recording
      <4>2. pc[q] \in Inside /\ (q # p => pc'[p] = pc[p])
        BY <4>1, Recorded
      <4> QED
        BY <1>2, <4>2
    <3>2. CASE Calm
      BY <1>2, <3>2 DEF Calm, Moves, Unnumbered, Kinds, Files, Links
    <3> QED
      BY <3>1, <3>2, CallKinds DEF IInv
  <2>2. MakeDirectory(p)
    BY <2>1, <1>0, OnlyMakeDirectory DEF IInv
  <2> QED
    BY <2>2 DEF MakeDirectory
<1>3. indexed \subseteq indexed'
  BY <1>1 DEF MakeDirectory, WriteBranch, IndexFails
<1>4. ASSUME NEW key \in Keys, branch'[key] # None PROVE Key(branch'[key]) = key
  <2>1. branch'[key] = branch[key] \/ (branch'[key] \in Publishers /\ Key(branch'[key]) = key)
    BY <1>0, <1>1 DEF MakeDirectory, WriteBranch, IndexFails
  <2> QED
    BY <1>4, <2>1
<1> QED
  BY <1>2, <1>3, <1>4

(* The index is as IndexInv says, whatever fails.                            *)
THEOREM IndexInvariance == Spec => []IndexInv
<1>1. Init => IndexInv
  BY ConstantsAssumption DEF Init, IndexInv, Procs, Kinds, Files, Links
<1>2. IInv /\ IndexInv /\ [Next]_vars => IndexInv'
  BY IndexStep
<1> QED
  BY <1>1, <1>2, Invariance, PTL DEF Spec

-----------------------------------------------------------------------------
(* A call that has returned stays as it is.                                  *)
LEMMA DoneStays ==
  ASSUME IInv, [Next]_vars, NEW p \in Publishers, pc[p] = "done"
  PROVE  pc'[p] = "done" /\ slot'[p] = slot[p] /\ payload'[p] = payload[p]
<1>1. CASE Recording
  <2>1. PICK q \in Publishers, k \in Kinds : RecordStep(q, k)
    BY <1>1 DEF Recording
  <2>2. q # p
    BY <2>1, Recorded DEF Kinds, Files, Links
  <2> QED
    BY <2>1, <2>2, Recorded
<1>2. CASE Calm
  BY <1>2 DEF Calm, Moves, Unnumbered
<1> QED
  BY <1>1, <1>2, CallKinds DEF IInv

(* A call that had a slot keeps its payload, and does not write its access    *)
(* record again.                                                             *)
LEMMA HadStays ==
  ASSUME IInv, [Next]_vars, NEW s \in Slots, NEW w \in Publishers, Was(w, s)
  PROVE  /\ Was(w, s)'
         /\ payload'[w] = payload[w]
         /\ record'["access"][s] = w => record["access"][s] = w
<1>1. Was(w, s)'
  BY LateStays DEF IInv
<1>2. payload'[w] = payload[w]
  BY CallKinds, Recorded DEF Recording, Calm, IInv, Was, Late
<1>3. ASSUME record'["access"][s] = w PROVE record["access"][s] = w
  <2>1. RecordEffect
    BY StepEffects DEF IInv, Effects
  <2>2. "access" \in Kinds /\ w # None
    BY ConstantsAssumption DEF Procs, Kinds, Files
  <2> QED
    BY <1>3, <2>1, <2>2 DEF RecordEffect, Was, Late
<1> QED
  BY <1>1, <1>2, <1>3

(* What a slot's access record shows of the call that had it: if it is not    *)
(* that call's, the call has withdrawn its revision, or died.                *)
LEMMA Withdrawn ==
  ASSUME IInv, NEW s \in Slots, NEW w \in Publishers, Was(w, s), record["access"][s] # w
  PROVE  \/ pc[w] \in {"rollback", "abort", "failed"}
         \/ pc[w] = "crashed"
<1>1. pc[w] \in {"actor", "linkb", "linkd", "linka", "commit", "done"} =>
        record["access"][s] = w
  BY DEF IInv, RecordsInOrder, Was, Plan, Position, Kinds, Files, Links
<1> QED
  BY <1>1 DEF Was, Late

(* What the records of a call that has returned are.                         *)
LEMMA Published ==
  ASSUME Sound, NEW p \in Publishers, pc[p] = "done"
  PROVE  /\ slot[p] \in Slots /\ slot[p][1] = NameOf[p] /\ Key(p) \in indexed
         /\ \A k \in Plan(p) : record[k][slot[p]] = p
         /\ record["access"][slot[p]] = p /\ record["backup"][slot[p]] = p
         /\ record["actor"][slot[p]] = Actor(p)
         /\ record["diff"][slot[p]] # None <=> payload[p] = "diff"
<1> USE DEF Sound
<1>0. p # None /\ p \in Procs /\ {"access", "backup", "actor", "diff"} \subseteq Files
  BY ConstantsAssumption DEF Procs, Files
<1>1. slot[p] \in Slots /\ slot[p][1] = NameOf[p]
  BY <1>0 DEF IInv, TypeOK, SlotsNamed
<1>2. Key(p) \in indexed
  BY DEF IndexInv
<1>3. \A k \in Plan(p) : record[k][slot[p]] = p
  BY DEF SuccessIntact
<1>4. \A k \in Files : record[k][slot[p]] = IF k \in Plan(p) THEN p ELSE None
  BY DEF FullyPublished
<1>5. {"access", "backup"} \subseteq Plan(p)
  BY DEF Plan
<1>6. "actor" \in Plan(p) <=> p \in Foreign
  BY DEF Plan
<1>7. "diff" \in Plan(p) <=> payload[p] = "diff"
  BY DEF Plan
<1> HIDE DEF Sound
<1>8. record["actor"][slot[p]] = Actor(p)
  BY <1>0, <1>4, <1>6 DEF Actor
<1> QED
  BY <1>0, <1>1, <1>2, <1>3, <1>4, <1>5, <1>7, <1>8

-----------------------------------------------------------------------------
(* What the reader puts into a row.                                          *)
LEMMA NewRow ==
  ASSUME NEW p \in Publishers
  PROVE  [Blank EXCEPT !.writer = p] \in Rows /\ [Blank EXCEPT !.writer = p].writer = p
BY DEF Blank, Rows, Writers

(* What it adds to one leaves the other columns alone.                       *)
LEMMA RowFields ==
  ASSUME NEW r \in Rows, NEW v \in Writers, NEW b \in BOOLEAN
  PROVE  /\ [r EXCEPT !.tag = v] \in Rows
         /\ [r EXCEPT !.tag = v].writer = r.writer
         /\ [r EXCEPT !.actor = v] \in Rows
         /\ [r EXCEPT !.actor = v].writer = r.writer /\ [r EXCEPT !.actor = v].actor = v
         /\ [r EXCEPT !.diff = b] \in Rows
         /\ [r EXCEPT !.diff = b].writer = r.writer /\ [r EXCEPT !.diff = b].actor = r.actor
         /\ [r EXCEPT !.diff = b].diff = b
BY DEF Rows

(* The files that a search reads are those of rows.                          *)
LEMMA FilesOfRows ==
  ASSUME NEW s \in Slots, NEW k
  PROVE  <<s, k>> \in UNION {FilesOf(r) : r \in Slots} <=>
           rows[s] # None /\ (k = "backup" \/ (k = "diff" /\ rows[s].diff))
<1>1. ASSUME NEW r \in Slots
      PROVE  <<s, k>> \in FilesOf(r) <=>
               r = s /\ rows[s] # None /\ (k = "backup" \/ (k = "diff" /\ rows[s].diff))
  BY DEF FilesOf, Kept
<1>2. <<s, k>> \in UNION {FilesOf(r) : r \in Slots} <=> \E r \in Slots : <<s, k>> \in FilesOf(r)
  OBVIOUS
<1> QED
  BY <1>1, <1>2

-----------------------------------------------------------------------------
(* A reader's step keeps the reader's types.                                 *)
LEMMA ReaderTypedStep == ASSUME TypeOK, ReaderTyped, ReaderStep PROVE ReaderTyped'
<1> USE ConstantsAssumption, DirAssumption, RowsAssumption
    DEF ReaderTyped, ListingType, Continue, RowStages, LaterStages, rowVars, renderVars,
        indexVars
<1>0. /\ \A k \in Kinds, s \in Slots : record[k][s] \in Publishers \union {None}
      /\ \A key \in Keys : branch[key] \in Publishers \union {None}
      /\ \A s \in Slots : tag[s] \in Publishers \union {None}
      /\ indexed \subseteq Keys /\ Files \subseteq Kinds /\ Links \subseteq Kinds
      /\ Kept \subseteq Kinds
  BY DEF TypeOK, Kinds, Files, Links, Kept
<1>1. ASSUME ListAccess PROVE ReaderTyped'
  <2>1. ListingType'
    BY <1>0, <1>1 DEF ListAccess, StageTypes, Midway
  <2>2. StageTypes'
    BY <1>0, <1>1 DEF ListAccess, StageTypes, Midway
  <2> QED
    BY <2>1, <2>2
<1>2. ASSUME FindBackup PROVE ReaderTyped'
  <2>1. ListingType'
    BY <1>0, <1>2 DEF FindBackup, StageTypes, Midway
  <2>2. StageTypes'
    BY <1>0, <1>2 DEF FindBackup, StageTypes, Midway
  <2> QED
    BY <2>1, <2>2
<1>3. ASSUME ReadTag PROVE ReaderTyped'
  <2>1. row' \in Rows /\ UNCHANGED <<pending, at, rows, renderVars, indexVars, began>>
    BY <1>0, <1>3, RowFields DEF ReadTag, StageTypes, Midway, Writers
  <2>2. stage = "tag" /\ stage' = "actor"
    BY <1>3 DEF ReadTag
  <2>3. ListingType'
    BY <2>1, <2>2
  <2>4. StageTypes'
    BY <2>1, <2>2 DEF StageTypes, Midway
  <2> QED
    BY <2>3, <2>4
<1>4. ASSUME ReadActor PROVE ReaderTyped'
  <2>1. row' \in Rows /\ UNCHANGED <<pending, at, rows, renderVars, indexVars, began>>
    BY <1>0, <1>4, RowFields DEF ReadActor, StageTypes, Midway, Writers, Files
  <2>2. stage = "actor" /\ stage' = "diff"
    BY <1>4 DEF ReadActor
  <2>3. ListingType'
    BY <2>1, <2>2
  <2>4. StageTypes'
    BY <2>1, <2>2 DEF StageTypes, Midway
  <2> QED
    BY <2>3, <2>4
<1>5. ASSUME FindDiff PROVE ReaderTyped'
  <2>1. rows' = [rows EXCEPT ![at] = [row EXCEPT !.diff = record["diff"][at] # None]]
    BY <1>5 DEF FindDiff
  <2>2. [row EXCEPT !.diff = record["diff"][at] # None] \in Rows
    BY <1>5, RowFields DEF FindDiff, StageTypes, Midway, Writers
  <2>3. rows' \in [Slots -> Rows \union {None}]
    BY <2>1, <2>2
  <2>4. ListingType'
    BY <1>5, <2>3 DEF FindDiff
  <2>5. StageTypes'
    BY <1>0, <1>5 DEF FindDiff, StageTypes, Midway
  <2> QED
    BY <2>4, <2>5
<1>6. ASSUME EndRows PROVE ReaderTyped'
  <2>1. ListingType'
    BY <1>0, <1>6 DEF EndRows, StageTypes, Midway
  <2>2. StageTypes'
    BY <1>0, <1>6 DEF EndRows, StageTypes, Midway
  <2> QED
    BY <2>1, <2>2
<1>7. ASSUME Patch PROVE ReaderTyped'
  <2>1. base \in Publishers /\ stage' \in {"failed", "rendered"}
    BY <1>7 DEF Patch, StageTypes
  <2>2. \A q : Patched(base, q) \in {"baseline", "represented", "mixed"} \X Publishers
    BY <2>1 DEF Patched
  <2>3. output' \in ({"baseline", "represented", "mixed"} \X Publishers) \union {None}
    BY <1>7, <2>2 DEF Patch
  <2>4. UNCHANGED <<pending, rowVars, base, indexVars, began>>
    BY <1>7 DEF Patch
  <2>5. ListingType'
    BY <2>1, <2>3, <2>4
  <2>6. StageTypes'
    BY <1>0, <1>7 DEF Patch, StageTypes, Midway
  <2> QED
    BY <2>5, <2>6
<1>8. ASSUME ListKeys PROVE ReaderTyped'
  <2>1. ListingType'
    BY <1>0, <1>8 DEF ListKeys, StageTypes, Midway
  <2>2. StageTypes'
    BY <1>0, <1>8 DEF ListKeys, StageTypes, Midway
  <2> QED
    BY <2>1, <2>2
<1>9. ASSUME ListLinks PROVE ReaderTyped'
  <2>1. ListingType'
    BY <1>0, <1>9 DEF ListLinks, StageTypes, Midway
  <2>2. StageTypes'
    BY <1>0, <1>9 DEF ListLinks, StageTypes, Midway
  <2> QED
    BY <2>1, <2>2
<1>10. ASSUME EndLinks PROVE ReaderTyped'
  <2>1. ListingType'
    BY <1>0, <1>10 DEF EndLinks, StageTypes, Midway
  <2>2. StageTypes'
    BY <1>0, <1>10 DEF EndLinks, StageTypes, Midway
  <2> QED
    BY <2>1, <2>2
<1>11. ASSUME EndKeys PROVE ReaderTyped'
  <2>1. ListingType'
    BY <1>0, <1>11 DEF EndKeys, StageTypes, Midway
  <2>2. StageTypes'
    BY <1>0, <1>11 DEF EndKeys, StageTypes, Midway
  <2> QED
    BY <2>1, <2>2
<1>12. ASSUME Search PROVE ReaderTyped'
  <2>1. links' = UNION {FilesOf(r) : r \in Slots} /\ stage' = "files"
    BY <1>12 DEF Search
  <2>2. \A r \in Slots : FilesOf(r) \subseteq Slots \X Kept
    BY DEF FilesOf, Kept
  <2>3. links' \subseteq Slots \X Kept
    BY <2>1, <2>2
  <2>4. UNCHANGED <<pending, rowVars, renderVars, dir, items, began>>
    BY <1>12 DEF Search
  <2>5. links' \subseteq Slots \X (Links \union Kept)
    BY <2>3
  <2>6. ListingType'
    BY <2>1, <2>4, <2>5
  <2>7. StageTypes'
    BY <2>1, <2>4, FilesOfRows DEF StageTypes, Midway
  <2> QED
    BY <2>6, <2>7
<1>13. ASSUME EndFiles PROVE ReaderTyped'
  <2>1. ListingType'
    BY <1>0, <1>13 DEF EndFiles, StageTypes, Midway
  <2>2. StageTypes'
    BY <1>0, <1>13 DEF EndFiles, StageTypes, Midway
  <2> QED
    BY <2>1, <2>2
<1>14. ASSUME NEW s \in Slots, ReadAccess(s) PROVE ReaderTyped'
  <2>1. UNCHANGED <<rows, renderVars, indexVars, began>> /\ pending' \subseteq pending
    BY <1>14 DEF ReadAccess
  <2>2. at' = s /\ stage = "rows"
    BY <1>14 DEF ReadAccess
  <2>3. \/ stage' = "backup" /\ row' \in Rows
        \/ stage' = "failed" /\ row' = row
    BY <1>0, <1>14, NewRow DEF ReadAccess, Files
  <2>4. ListingType'
    BY <2>1, <2>2, <2>3
  <2>5. StageTypes'
    BY <2>1, <2>2, <2>3 DEF StageTypes, Midway
  <2> QED
    BY <2>4, <2>5
<1>15. ASSUME NEW s \in Slots, ReadBackup(s) PROVE ReaderTyped'
  <2> DEFINE found == record["backup"][s]
             whole == found # None /\ ~ rows[s].diff
  <2>1. UNCHANGED <<pending, rows, indexVars, began>> /\ stage = "listed" /\ rows[s] # None
    BY <1>15 DEF ReadBackup
  <2>2. at' = s /\ row' = rows[s] /\ base' = found /\ row' \in Rows
    BY <1>15 DEF ReadBackup
  <2>3. found \in Publishers \union {None}
    BY <1>0 DEF Files
  <2>4. \/ found = None /\ stage' = "failed"
        \/ whole /\ stage' = "rendered"
        \/ found # None /\ rows[s].diff /\ stage' = "patch"
    BY <1>15 DEF ReadBackup
  <2>5. output' = IF whole THEN Content(found) ELSE None
    BY <1>15 DEF ReadBackup
  <2>6. found # None => Content(found) \in {"baseline", "represented", "mixed"} \X Publishers
    BY <2>3 DEF Content
  <2>7. output' \in ({"baseline", "represented", "mixed"} \X Publishers) \union {None}
    BY <2>5, <2>6
  <2>8. ListingType'
    BY <2>1, <2>2, <2>3, <2>4, <2>7 DEF Writers
  <2>9. StageTypes'
    BY <2>1, <2>2, <2>3, <2>4 DEF StageTypes, Midway
  <2> QED
    BY <2>8, <2>9
<1>16. ASSUME NEW key \in Keys, ReadBranch(key) PROVE ReaderTyped'
  <2>1. ListingType'
    BY <1>0, <1>16 DEF ReadBranch, StageTypes, Midway
  <2>2. StageTypes'
    BY <1>0, <1>16 DEF ReadBranch, StageTypes, Midway
  <2> QED
    BY <2>1, <2>2
<1>17. ASSUME NEW s \in Slots, NEW k \in Links, ReadLink(s, k) PROVE ReaderTyped'
  <2>1. ListingType'
    BY <1>0, <1>17 DEF ReadLink, StageTypes, Midway
  <2>2. StageTypes'
    BY <1>0, <1>17 DEF ReadLink, StageTypes, Midway
  <2> QED
    BY <2>1, <2>2
<1>18. ASSUME NEW s \in Slots, NEW k \in Kept, ReadFile(s, k) PROVE ReaderTyped'
  <2>1. rows[s] \in Rows
    BY <1>18 DEF ReadFile, StageTypes
  <2>2. DirOf[rows[s].writer] \in Dirs
    BY <2>1 DEF Rows
  <2>3. [slot |-> s, kind |-> k, dir |-> DirOf[rows[s].writer]]
          \in [slot : Slots, kind : Links \union Kept, dir : Dirs]
    BY <2>2
  <2>4. ListingType'
    BY <1>18, <2>3 DEF ReadFile
  <2>5. StageTypes'
    BY <1>0, <1>18 DEF ReadFile, StageTypes, Midway
  <2> QED
    BY <2>4, <2>5
<1>19. ASSUME NEW s \in Slots, NEW k \in Kept, Get(s, k) PROVE ReaderTyped'
  <2>1. ListingType'
    BY <1>0, <1>19 DEF Get, StageTypes, Midway
  <2>2. StageTypes'
    BY <1>0, <1>19 DEF Get, StageTypes, Midway
  <2> QED
    BY <2>1, <2>2
<1> HIDE ConstantsAssumption, DirAssumption, RowsAssumption
    DEF ReaderTyped, ListingType, Continue, RowStages, LaterStages, rowVars, renderVars,
        indexVars
<1> QED
  BY <1>1, <1>2, <1>3, <1>4, <1>5, <1>6, <1>7, <1>8, <1>9, <1>10, <1>11,
     <1>12, <1>13, <1>14, <1>15, <1>16, <1>17, <1>18, <1>19
  DEF ReaderStep

-----------------------------------------------------------------------------
(* What comes after the rows leaves them alone.                              *)
Aside ==
  /\ UNCHANGED <<rows, began>>
  /\ stage \in LaterStages /\ stage' \in LaterStages \union {"failed"}

(* A reader's step works on the rows, or comes after them.                    *)
LEMMA ReaderKinds ==
  ASSUME ReaderStep
  PROVE  \/ ListAccess \/ FindBackup \/ ReadTag \/ ReadActor \/ FindDiff \/ EndRows
         \/ \E s \in Slots : ReadAccess(s)
         \/ Aside
<1> USE DEF Aside, LaterStages, Continue, rowVars, indexVars
<1>1. ASSUME NEW s \in Slots, ReadBackup(s) PROVE Aside
  BY <1>1 DEF ReadBackup
<1>2. ASSUME Patch PROVE Aside
  BY <1>2 DEF Patch
<1>3. ASSUME ListKeys \/ ListLinks \/ EndLinks \/ EndKeys \/ Search \/ EndFiles PROVE Aside
  BY <1>3 DEF ListKeys, ListLinks, EndLinks, EndKeys, Search, EndFiles
<1>4. ASSUME NEW key \in Keys, ReadBranch(key) PROVE Aside
  BY <1>4 DEF ReadBranch
<1>5. ASSUME NEW s \in Slots, NEW k, ReadLink(s, k) \/ ReadFile(s, k) \/ Get(s, k) PROVE Aside
  BY <1>5 DEF ReadLink, ReadFile, Get
<1> QED
  BY <1>1, <1>2, <1>3, <1>4, <1>5 DEF ReaderStep

(* Writers leave RowsInv alone, for the calls it is about have returned.      *)
LEMMA RowsBeside ==
  ASSUME IInv, ReaderTyped, RowsInv, [Next]_vars, UNCHANGED reader
  PROVE  RowsInv'
<1>1. UNCHANGED <<stage, pending, at, row, rows, began>> /\ began \subseteq Publishers
  BY DEF reader, rowVars, ReaderTyped, ListingType
<1>2. \A p \in began : /\ pc[p] = "done" /\ pc'[p] = "done"
                       /\ slot'[p] = slot[p] /\ payload'[p] = payload[p]
  BY <1>1, DoneStays DEF RowsInv, BeganDone
<1>3. BeganDone'
  BY <1>1, <1>2 DEF BeganDone
<1>4. Covered'
  BY <1>1, <1>2 DEF RowsInv, Covered
<1>5. MidwayRight'
  BY <1>1, <1>2 DEF RowsInv, MidwayRight
<1>6. RowsRight'
  BY <1>1, <1>2 DEF RowsInv, RowsRight
<1> QED
  BY <1>3, <1>4, <1>5, <1>6 DEF RowsInv

(* A reader's step keeps RowsInv.                                            *)
LEMMA RowsStep ==
  ASSUME Sound, ReaderTyped, RowsInv, ReaderStep, UNCHANGED vars
  PROVE  RowsInv'
<1> USE DEF Continue, RowStages, LaterStages, Midway, renderVars, indexVars, rowVars
<1>0. /\ pc' = pc /\ slot' = slot /\ payload' = payload
      /\ began \subseteq Publishers /\ BeganDone /\ Covered /\ MidwayRight /\ RowsRight
      /\ stage \in Midway => at \in Slots /\ row \in Rows
      /\ rows \in [Slots -> Rows \union {None}]
  BY DEF vars, ReaderTyped, ListingType, StageTypes, RowsInv
<1>1. \A p \in began :
        /\ slot[p] \in Slots
        /\ record["access"][slot[p]] = p /\ record["backup"][slot[p]] = p
        /\ record["actor"][slot[p]] = Actor(p)
        /\ record["diff"][slot[p]] # None <=> payload[p] = "diff"
        /\ p # None
  BY <1>0, Published, ConstantsAssumption DEF BeganDone, Procs
<1>2. CASE ListAccess
  <2>1. /\ stage' = "rows" /\ rows' = rows
        /\ pending' = {s \in Slots : record["access"][s] # None}
        /\ began' = {p \in Publishers : pc[p] = "done"}
        /\ \A s \in Slots : rows[s] = None
    BY <1>2 DEF ListAccess, ReaderTyped, StageTypes
  <2>2. \A p \in began' : /\ slot[p] \in Slots /\ record["access"][slot[p]] = p /\ p # None
                          /\ pc[p] = "done"
    BY <2>1, Published, ConstantsAssumption DEF Procs
  <2>3. BeganDone'
    BY <1>0, <2>2 DEF BeganDone
  <2>4. Covered'
    BY <1>0, <2>1, <2>2 DEF Covered
  <2>5. MidwayRight'
    BY <2>1 DEF MidwayRight
  <2>6. RowsRight'
    BY <1>0, <2>1, <2>2 DEF RowsRight
  <2> QED
    BY <2>3, <2>4, <2>5, <2>6 DEF RowsInv
<1>3. ASSUME NEW s \in Slots, ReadAccess(s) PROVE RowsInv'
  <2>1. UNCHANGED <<rows, began>> /\ stage = "rows" /\ pending' = pending \ {s} /\ at' = s
    BY <1>3 DEF ReadAccess
  <2>2. \/ stage' = "backup" /\ record["access"][s] \in Publishers
                             /\ row'.writer = record["access"][s]
        \/ stage' = "failed"
    <3>1. record["access"][s] \in Publishers \union {None}
      BY DEF Sound, IInv, TypeOK, Kinds, Files
    <3>2. CASE record["access"][s] # None
      BY <1>3, <3>1, <3>2, NewRow DEF ReadAccess
    <3>3. CASE record["access"][s] = None
      BY <1>3, <3>3 DEF ReadAccess
    <3> QED
      BY <3>2, <3>3
  <2>3. BeganDone'
    BY <1>0, <2>1 DEF BeganDone
  <2>4. Covered'
    BY <1>0, <2>1, <2>2 DEF Covered
  <2>5. MidwayRight'
    BY <1>0, <1>1, <2>1, <2>2 DEF MidwayRight
  <2>6. RowsRight'
    BY <1>0, <2>1 DEF RowsRight
  <2> QED
    BY <2>3, <2>4, <2>5, <2>6 DEF RowsInv
<1>4. CASE FindBackup
  <2>1. UNCHANGED <<rows, began, pending, at, row>> /\ stage = "backup"
    BY <1>4 DEF FindBackup
  <2>2. stage' = IF record["backup"][at] # None THEN "tag" ELSE "rows"
    BY <1>4 DEF FindBackup
  <2>3. BeganDone'
    BY <1>0, <2>1 DEF BeganDone
  <2>4. Covered'
    BY <1>0, <1>1, <2>1, <2>2 DEF Covered
  <2>5. MidwayRight'
    BY <1>0, <2>1, <2>2 DEF MidwayRight
  <2>6. RowsRight'
    BY <1>0, <2>1 DEF RowsRight
  <2> QED
    BY <2>3, <2>4, <2>5, <2>6 DEF RowsInv
<1>5. CASE ReadTag
  <2>1. UNCHANGED <<rows, began, pending, at>> /\ stage = "tag" /\ stage' = "actor"
    BY <1>5 DEF ReadTag
  <2>2. row'.writer = row.writer
    BY <1>0, <1>5, <2>1, RowFields DEF ReadTag, Sound, IInv, TypeOK, Writers
  <2>3. BeganDone'
    BY <1>0, <2>1 DEF BeganDone
  <2>4. Covered'
    BY <1>0, <2>1 DEF Covered
  <2>5. MidwayRight'
    BY <1>0, <2>1, <2>2 DEF MidwayRight
  <2>6. RowsRight'
    BY <1>0, <2>1 DEF RowsRight
  <2> QED
    BY <2>3, <2>4, <2>5, <2>6 DEF RowsInv
<1>6. CASE ReadActor
  <2>1. UNCHANGED <<rows, began, pending, at>> /\ stage = "actor" /\ stage' = "diff"
    BY <1>6 DEF ReadActor
  <2>2. row'.writer = row.writer /\ row'.actor = record["actor"][at]
    BY <1>0, <1>6, <2>1, RowFields DEF ReadActor, Sound, IInv, TypeOK, Writers, Kinds, Files
  <2>3. BeganDone'
    BY <1>0, <2>1 DEF BeganDone
  <2>4. Covered'
    BY <1>0, <2>1 DEF Covered
  <2>5. MidwayRight'
    BY <1>0, <1>1, <2>1, <2>2 DEF MidwayRight
  <2>6. RowsRight'
    BY <1>0, <2>1 DEF RowsRight
  <2> QED
    BY <2>3, <2>4, <2>5, <2>6 DEF RowsInv
<1>7. CASE FindDiff
  <2>1. UNCHANGED <<began, pending, at>> /\ stage = "diff" /\ stage' = "rows"
    BY <1>7 DEF FindDiff
  <2> DEFINE new == [row EXCEPT !.diff = record["diff"][at] # None]
  <2>2. rows' = [rows EXCEPT ![at] = new]
    BY <1>7 DEF FindDiff
  <2>3. /\ new.writer = row.writer /\ new.actor = row.actor /\ new \in Rows
        /\ new.diff = (record["diff"][at] # None)
    BY <1>0, <2>1, RowFields, ConstantsAssumption DEF Writers
  <2>4. BeganDone'
    BY <1>0, <2>1 DEF BeganDone
  <2> HIDE DEF new
  <2>5. \A s \in Slots : rows'[s] = IF s = at THEN new ELSE rows[s]
    BY <1>0, <2>1, <2>2
  <2>6. Covered'
    BY <1>0, <1>1, <2>1, <2>3, <2>5, RowsAssumption DEF Covered
  <2>7. MidwayRight'
    BY <2>1 DEF MidwayRight
  <2>8. RowsRight'
    <3> SUFFICES ASSUME NEW p \in began, rows'[slot[p]] # None
                 PROVE  /\ rows'[slot[p]].writer = p /\ rows'[slot[p]].actor = Actor(p)
                        /\ rows'[slot[p]].diff <=> payload[p] = "diff"
      BY <1>0, <2>1 DEF RowsRight, Actor
    <3>1. CASE slot[p] = at
      <4>1. rows'[slot[p]] = new
        BY <1>1, <2>5, <3>1
      <4>2. row.writer = p /\ row.actor = Actor(p)
        BY <1>0, <2>1, <3>1 DEF MidwayRight
      <4>3. new.diff <=> payload[p] = "diff"
        BY <1>1, <2>3, <3>1
      <4> QED
        BY <2>3, <4>1, <4>2, <4>3
    <3>2. CASE slot[p] # at
      <4>1. rows'[slot[p]] = rows[slot[p]]
        BY <1>1, <2>5, <3>2
      <4> QED
        BY <1>0, <4>1 DEF RowsRight
    <3> QED
      BY <3>1, <3>2
  <2> QED
    BY <2>4, <2>6, <2>7, <2>8 DEF RowsInv
<1>8. CASE EndRows
  <2>1. /\ UNCHANGED <<began, pending, rows>> /\ pending = {}
        /\ stage = "rows" /\ stage' = "listed"
    BY <1>8 DEF EndRows
  <2>2. BeganDone' /\ Covered' /\ MidwayRight' /\ RowsRight'
    BY <1>0, <2>1 DEF BeganDone, Covered, MidwayRight, RowsRight
  <2> QED
    BY <2>2 DEF RowsInv
<1>9. CASE Aside
  <2>1. BeganDone' /\ Covered' /\ MidwayRight' /\ RowsRight'
    BY <1>0, <1>9 DEF Aside, BeganDone, Covered, MidwayRight, RowsRight
  <2> QED
    BY <2>1 DEF RowsInv
<1> QED
  BY <1>2, <1>3, <1>4, <1>5, <1>6, <1>7, <1>8, <1>9, ReaderKinds

-----------------------------------------------------------------------------
(* While a row's revision is its writer's, its backup is, and its diff if the *)
(* row tells of one.                                                         *)
LEMMA StillThere ==
  ASSUME Sound, RowsHad, DiffTold, NEW s \in Slots, rows[s] # None,
         record["access"][s] = rows[s].writer
  PROVE  /\ rows[s].writer \in Publishers /\ rows[s].writer # None
         /\ record["backup"][s] = rows[s].writer
         /\ rows[s].diff <=> payload[rows[s].writer] = "diff"
         /\ rows[s].diff => record["diff"][s] = rows[s].writer
<1> DEFINE w == rows[s].writer
<1>1. w \in Publishers /\ w # None /\ {"access", "diff"} \subseteq Files
  BY ConstantsAssumption DEF RowsHad, Was, Procs, Files
<1>2. rows[s].diff <=> payload[w] = "diff"
  BY DEF DiffTold
<1>3. record["backup"][s] = w
  BY <1>1 DEF Sound, CleanInv, Backed
<1>4. payload[w] = "diff" => record["diff"][s] = w
  BY <1>1 DEF Sound, CleanInv, DiffFirst
<1> QED
  BY <1>1, <1>2, <1>3, <1>4

(* So a file that a row names is gone only after its writer withdrew it.      *)
LEMMA GoneHad ==
  ASSUME Sound, RowsHad, DiffTold, NEW s \in Slots, rows[s] # None,
         \/ record["backup"][s] = None
         \/ rows[s].diff /\ record["diff"][s] = None
  PROVE  \E w \in Publishers : Was(w, s) /\ record["access"][s] # w
<1>1. Was(rows[s].writer, s) /\ rows[s].writer \in Publishers
  BY DEF RowsHad, Was
<1>2. record["access"][s] # rows[s].writer
  BY StillThere
<1> QED
  BY <1>1, <1>2

(* Writers leave HadInv alone: a call keeps the slot it had, and writes an    *)
(* access record once at most.                                               *)
LEMMA HadBeside ==
  ASSUME IInv, ReaderTyped, HadInv, [Next]_vars, UNCHANGED reader
  PROVE  HadInv'
<1> USE DEF HadInv
<1>0. /\ UNCHANGED <<stage, pending, at, row, rows, base, output>>
      /\ stage \in RowStages => pending \subseteq Slots
      /\ stage \in Midway => at \in Slots
      /\ stage \in {"patch", "rendered"} => at \in Slots /\ rows[at] # None /\ row = rows[at]
  BY DEF reader, rowVars, renderVars, ReaderTyped, StageTypes
<1>1. \A s \in Slots, w \in Publishers : Was(w, s) =>
        /\ Was(w, s)'
        /\ payload'[w] = payload[w]
        /\ record'["access"][s] = w => record["access"][s] = w
  BY HadStays
<1>2. \A w, s : Was(w, s) => w \in Publishers
  BY DEF Was
<1>3. PendingHad'
  BY <1>0, <1>1 DEF PendingHad
<1>4. MidwayHad'
  <2>1. stage \in Midway => Was(row.writer, at) /\ row.writer \in Publishers
    BY <1>2 DEF MidwayHad
  <2> QED
    BY <1>0, <1>1, <2>1 DEF MidwayHad, Was
<1>5. RowsHad'
  <2>1. \A s \in Slots : rows[s] # None =>
          Was(rows[s].writer, s) /\ rows[s].writer \in Publishers
    BY <1>2 DEF RowsHad
  <2> QED
    BY <1>0, <1>1, <2>1 DEF RowsHad, Was
<1>6. \A s \in Slots : rows[s] # None =>
        /\ payload'[rows[s].writer] = payload[rows[s].writer]
        /\ record'["access"][s] = rows[s].writer => record["access"][s] = rows[s].writer
  BY <1>1, <1>2 DEF RowsHad
<1>7. DiffTold'
  BY <1>0, <1>6 DEF DiffTold
<1>8. BaseRight'
  BY <1>0, <1>6 DEF BaseRight
<1>9. RenderedRight'
  BY <1>0, <1>6 DEF RenderedRight
<1>10. FailedHad'
  <2> SUFFICES ASSUME stage = "failed", at \notin Keys
               PROVE  FailedHad'
    BY <1>0 DEF FailedHad
  <2>1. PICK w \in Publishers : at \in Slots /\ Was(w, at) /\ record["access"][at] # w
    BY DEF FailedHad
  <2>2. Was(w, at)' /\ record'["access"][at] # w
    BY <1>0, <1>1, <2>1 DEF Was
  <2> QED
    BY <1>0, <2>1, <2>2 DEF FailedHad
<1> QED
  BY <1>3, <1>4, <1>5, <1>7, <1>8, <1>9, <1>10

(* A reader's step keeps what is said of rows.                               *)
LEMMA HadRowsStep ==
  ASSUME Sound, ReaderTyped, HadInv, ReaderStep, UNCHANGED vars
  PROVE  PendingHad' /\ MidwayHad' /\ RowsHad' /\ DiffTold'
<1> USE DEF Continue, RowStages, LaterStages, Midway, renderVars, indexVars, rowVars
<1>0. /\ pc' = pc /\ slot' = slot /\ payload' = payload /\ record' = record
      /\ PendingHad /\ MidwayHad /\ RowsHad /\ DiffTold
      /\ stage \in RowStages => pending \subseteq Slots
      /\ stage \in Midway => at \in Slots /\ row \in Rows
      /\ rows \in [Slots -> Rows \union {None}]
  BY DEF vars, ReaderTyped, ListingType, StageTypes, HadInv
<1>1. \A w, s : Was(w, s)' <=> Was(w, s)
  BY <1>0 DEF Was
<1>2. \A s \in Slots : record["access"][s] # None =>
        /\ record["access"][s] \in Publishers
        /\ Was(record["access"][s], s)
  BY AccessLate DEF Sound, IInv, TagInv, Was
<1>3. CASE ListAccess
  <2>1. /\ stage' = "rows" /\ rows' = rows
        /\ pending' = {s \in Slots : record["access"][s] # None}
    BY <1>3 DEF ListAccess
  <2>2. PendingHad'
    BY <1>1, <1>2, <2>1 DEF PendingHad
  <2> QED
    BY <1>0, <1>1, <2>1, <2>2 DEF MidwayHad, RowsHad, DiffTold
<1>4. ASSUME NEW s \in Slots, ReadAccess(s)
      PROVE  PendingHad' /\ MidwayHad' /\ RowsHad' /\ DiffTold'
  <2>1. rows' = rows /\ stage = "rows" /\ pending' = pending \ {s} /\ at' = s
    BY <1>4 DEF ReadAccess
  <2>2. \/ stage' = "backup" /\ Was(row'.writer, s)
        \/ stage' = "failed"
    <3>1. CASE record["access"][s] # None
      BY <1>2, <1>4, <3>1, NewRow DEF ReadAccess
    <3>2. CASE record["access"][s] = None
      BY <1>4, <3>2 DEF ReadAccess
    <3> QED
      BY <3>1, <3>2
  <2>3. PendingHad'
    BY <1>0, <1>1, <2>1, <2>2 DEF PendingHad
  <2>4. MidwayHad'
    BY <1>1, <2>1, <2>2 DEF MidwayHad
  <2> QED
    BY <1>0, <1>1, <2>1, <2>3, <2>4 DEF RowsHad, DiffTold
<1>5. CASE FindBackup \/ ReadTag \/ ReadActor
  <2>1. /\ rows' = rows /\ pending' = pending /\ at' = at /\ stage \in Midway
        /\ stage' \in RowStages
    BY <1>5 DEF FindBackup, ReadTag, ReadActor
  <2>2. row'.writer = row.writer
    <3>1. CASE FindBackup
      BY <3>1 DEF FindBackup
    <3>2. CASE ReadTag
      BY <1>0, <3>2, RowFields DEF ReadTag, Sound, IInv, TypeOK, Writers
    <3>3. CASE ReadActor
      BY <1>0, <3>3, RowFields DEF ReadActor, Sound, IInv, TypeOK, Writers, Kinds, Files
    <3> QED
      BY <1>5, <3>1, <3>2, <3>3
  <2>3. PendingHad'
    BY <1>0, <1>1, <2>1 DEF PendingHad
  <2>4. MidwayHad'
    BY <1>0, <1>1, <2>1, <2>2 DEF MidwayHad
  <2> QED
    BY <1>0, <1>1, <2>1, <2>3, <2>4 DEF RowsHad, DiffTold
<1>6. CASE FindDiff
  <2>1. pending' = pending /\ at' = at /\ stage = "diff" /\ stage' = "rows"
    BY <1>6 DEF FindDiff
  <2> DEFINE new == [row EXCEPT !.diff = record["diff"][at] # None]
  <2>2. rows' = [rows EXCEPT ![at] = new]
    BY <1>6 DEF FindDiff
  <2>3. new.writer = row.writer /\ new.diff = (record["diff"][at] # None)
    BY <1>0, <2>1, RowFields, ConstantsAssumption DEF Writers
  <2> HIDE DEF new
  <2>4. \A s \in Slots : rows'[s] = IF s = at THEN new ELSE rows[s]
    BY <1>0, <2>1, <2>2
  <2>5. Was(row.writer, at) /\ at \in Slots /\ row.writer \in Publishers
    BY <1>0, <2>1 DEF MidwayHad, Was
  <2>6. PendingHad'
    BY <1>0, <1>1, <2>1 DEF PendingHad
  <2>7. MidwayHad'
    BY <2>1 DEF MidwayHad
  <2>8. RowsHad'
    BY <1>0, <1>1, <2>3, <2>4, <2>5 DEF RowsHad
  <2>9. ASSUME record["access"][at] = row.writer
        PROVE  record["diff"][at] # None <=> payload[row.writer] = "diff"
    <3>1. row.writer # None /\ {"access", "diff"} \subseteq Files /\ Files \subseteq Kinds
      BY <2>5, ConstantsAssumption DEF Procs, Files, Kinds
    <3>2. record["backup"][at] = row.writer
      BY <2>5, <2>9, <3>1 DEF Sound, CleanInv, Backed
    <3>3. record["diff"][at] \in {None, row.writer}
      BY <2>5, <3>1, <3>2 DEF Sound, CleanInv, Backed
    <3>4. record["diff"][at] = row.writer => payload[row.writer] = "diff"
      BY <2>5, <3>1 DEF Sound, PlanInv, RecordsPlanned, Plan
    <3>5. payload[row.writer] = "diff" => record["diff"][at] = row.writer
      BY <2>5, <2>9 DEF Sound, CleanInv, DiffFirst
    <3> QED
      BY <3>1, <3>3, <3>4, <3>5
  <2>10. DiffTold'
    <3> SUFFICES ASSUME NEW s \in Slots, rows'[s] # None,
                        record["access"][s] = rows'[s].writer
                 PROVE  rows'[s].diff <=> payload[rows'[s].writer] = "diff"
      BY <1>0 DEF DiffTold
    <3>1. CASE s = at
      BY <2>3, <2>4, <2>9, <3>1
    <3>2. CASE s # at
      <4>1. rows'[s] = rows[s]
        BY <2>4, <3>2
      <4> QED
        BY <1>0, <4>1 DEF DiffTold
    <3> QED
      BY <3>1, <3>2
  <2> QED
    BY <2>6, <2>7, <2>8, <2>10
<1>7. CASE EndRows \/ Aside
  <2>1. rows' = rows /\ stage' \in LaterStages \union {"failed"}
    BY <1>7 DEF EndRows, Aside
  <2> QED
    BY <1>0, <1>1, <2>1 DEF PendingHad, MidwayHad, RowsHad, DiffTold
<1> QED
  BY <1>3, <1>4, <1>5, <1>6, <1>7, ReaderKinds

(* The steps after which a reader renders or has failed.                     *)
LEMMA ReaderEnds ==
  ASSUME ReaderStep, stage' \in {"patch", "rendered", "failed"}
  PROVE  \/ \E s \in Slots : ReadAccess(s) \/ ReadBackup(s)
         \/ Patch
         \/ \E key \in Keys : ReadBranch(key)
         \/ \E s \in Slots, k \in Links : ReadLink(s, k)
         \/ \E s \in Slots, k \in Kept : ReadFile(s, k) \/ Get(s, k)
BY DEF ReaderStep, Continue, ListAccess, FindBackup, ReadTag, ReadActor, FindDiff, EndRows,
       ListKeys, ListLinks, EndLinks, EndKeys, Search, EndFiles

(* A reader's step keeps what is said of what it renders, and of its failure. *)
LEMMA HadEndsStep ==
  ASSUME Sound, ReaderTyped, HadInv, ReaderStep, UNCHANGED vars
  PROVE  BaseRight' /\ RenderedRight' /\ FailedHad'
<1> USE DEF Continue, renderVars, indexVars, rowVars
<1>0. /\ pc' = pc /\ slot' = slot /\ payload' = payload /\ record' = record
      /\ PendingHad /\ RowsHad /\ DiffTold /\ BaseRight
      /\ stage \in RowStages => pending \subseteq Slots
      /\ stage \in {"patch", "rendered"} => at \in Slots /\ rows[at] # None /\ row = rows[at]
      /\ stage = "patch" => row.diff
  BY DEF vars, ReaderTyped, ListingType, StageTypes, HadInv
<1>1. \A w, s : Was(w, s)' <=> Was(w, s)
  BY <1>0 DEF Was
<1>2. CASE stage' \notin {"patch", "rendered", "failed"}
  BY <1>2 DEF BaseRight, RenderedRight, FailedHad
<1>3. ASSUME NEW s \in Slots, ReadAccess(s) PROVE BaseRight' /\ RenderedRight' /\ FailedHad'
  <2>1. stage = "rows" /\ s \in pending /\ at' = s /\ stage' \in {"backup", "failed"}
    BY <1>3 DEF ReadAccess
  <2>2. stage' = "failed" => record["access"][s] = None
    BY <1>3 DEF ReadAccess
  <2>3. PICK w \in Publishers : Was(w, s)
    BY <1>0, <2>1 DEF PendingHad, RowStages
  <2>4. w # None
    BY ConstantsAssumption DEF Procs
  <2>5. FailedHad'
    BY <1>0, <1>1, <2>1, <2>2, <2>3, <2>4 DEF FailedHad
  <2> QED
    BY <2>1, <2>5 DEF BaseRight, RenderedRight
<1>4. ASSUME NEW s \in Slots, ReadBackup(s) PROVE BaseRight' /\ RenderedRight' /\ FailedHad'
  <2> DEFINE found == record["backup"][s]
             whole == found # None /\ ~ rows[s].diff
  <2>1. at' = s /\ row' = rows[s] /\ base' = found /\ rows[s] # None
    BY <1>4 DEF ReadBackup
  <2>2. \/ found = None /\ stage' = "failed"
        \/ whole /\ stage' = "rendered"
        \/ found # None /\ rows[s].diff /\ stage' = "patch"
    BY <1>4 DEF ReadBackup
  <2>3. whole => output' = Content(found)
    BY <1>4 DEF ReadBackup
  <2>4. record["access"][s] = rows[s].writer =>
          /\ found = rows[s].writer
          /\ rows[s].diff <=> payload[rows[s].writer] = "diff"
    BY <1>0, <2>1, StillThere
  <2>5. BaseRight'
    BY <1>0, <2>1, <2>2, <2>4 DEF BaseRight
  <2>6. RenderedRight'
    BY <1>0, <2>1, <2>2, <2>3, <2>4 DEF RenderedRight, Content
  <2>7. found = None => \E w \in Publishers : Was(w, s) /\ record["access"][s] # w
    BY <1>0, <2>1, GoneHad
  <2>8. FailedHad'
    BY <1>0, <1>1, <2>1, <2>2, <2>7 DEF FailedHad
  <2> QED
    BY <2>5, <2>6, <2>8
<1>5. CASE Patch
  <2> DEFINE diff == record["diff"][at]
  <2>1. /\ stage = "patch" /\ at' = at /\ row' = row
        /\ stage' = IF diff = None THEN "failed" ELSE "rendered"
        /\ output' = IF diff = None THEN None ELSE Patched(base, diff)
    BY <1>5 DEF Patch
  <2>2. at \in Slots /\ rows[at] # None /\ row = rows[at] /\ row.diff
    BY <1>0, <2>1
  <2>3. record["access"][at] = row.writer =>
          /\ base = row.writer /\ diff = row.writer /\ payload[row.writer] = "diff"
    BY <1>0, <2>1, <2>2, StillThere DEF BaseRight
  <2>4. RenderedRight'
    BY <1>0, <2>1, <2>3 DEF RenderedRight, Patched
  <2>5. diff = None => \E w \in Publishers : Was(w, at) /\ record["access"][at] # w
    BY <1>0, <2>2, GoneHad
  <2>6. FailedHad'
    BY <1>0, <1>1, <2>1, <2>2, <2>5 DEF FailedHad
  <2> QED
    BY <2>1, <2>4, <2>6 DEF BaseRight
<1>6. ASSUME NEW key \in Keys, ReadBranch(key)
      PROVE  BaseRight' /\ RenderedRight' /\ FailedHad'
  BY <1>6 DEF ReadBranch, BaseRight, RenderedRight, FailedHad
<1>7. ASSUME NEW s \in Slots, NEW k \in Links, ReadLink(s, k)
      PROVE  BaseRight' /\ RenderedRight' /\ FailedHad'
  <2>1. at' = at /\ at \in Keys /\ stage' \in {"links", "failed"}
    BY <1>7 DEF ReadLink, ReaderTyped, StageTypes
  <2> QED
    BY <2>1 DEF BaseRight, RenderedRight, FailedHad
<1>8. ASSUME NEW s \in Slots, NEW k \in Kept, ReadFile(s, k) \/ Get(s, k)
      PROVE  BaseRight' /\ RenderedRight' /\ FailedHad'
  <2>1. /\ at' = s /\ stage' \in {"files", "got", "failed"}
        /\ stage' = "failed" => record[k][s] = None
    BY <1>8 DEF ReadFile, Get
  <2>2. rows[s] # None /\ (k = "diff" => rows[s].diff)
    <3>1. CASE ReadFile(s, k)
      BY <3>1 DEF ReadFile, ReaderTyped, StageTypes
    <3>2. CASE Get(s, k)
      BY <3>2 DEF Get, FilesOf, Kept
    <3> QED
      BY <1>8, <3>1, <3>2
  <2>3. record[k][s] = None => \E w \in Publishers : Was(w, s) /\ record["access"][s] # w
    BY <1>0, <2>2, GoneHad DEF Kept
  <2>4. FailedHad'
    BY <1>0, <1>1, <2>1, <2>3 DEF FailedHad
  <2> QED
    BY <2>1, <2>4 DEF BaseRight, RenderedRight
<1> QED
  BY <1>2, <1>3, <1>4, <1>5, <1>6, <1>7, <1>8, ReaderEnds

-----------------------------------------------------------------------------
(* Writers leave ItemsInv alone.                                             *)
LEMMA ItemsBeside ==
  ASSUME IInv, ReaderTyped, BeganDone, ItemsInv, [Next]_vars, UNCHANGED reader
  PROVE  ItemsInv'
<1>1. /\ UNCHANGED <<stage, pending, at, dir, links, items, began>> /\ began \subseteq Publishers
      /\ KeysCovered /\ KeyPlaced /\ ItemsPlaced /\ FilesCovered
  BY DEF reader, rowVars, indexVars, ReaderTyped, ListingType, ItemsInv
<1>2. \A p \in began : slot'[p] = slot[p] /\ payload'[p] = payload[p]
  BY <1>1, DoneStays DEF BeganDone
<1>3. \A p \in began : Plan(p)' = Plan(p) /\ \A k : ItemOf(p, k)' = ItemOf(p, k)
  BY <1>2 DEF Plan, ItemOf
<1>4. \A p \in began : /\ Reached(p, Links)' <=> Reached(p, Links)
                       /\ Reached(p, Kept)' <=> Reached(p, Kept)
                       /\ Has(p, Links)' <=> Has(p, Links)
                       /\ Has(p, Kept)' <=> Has(p, Kept)
  BY <1>1, <1>2, <1>3 DEF Reached, Has, Links, Kept
<1>5. KeysCovered'
  BY <1>1, <1>4 DEF KeysCovered, Key
<1>6. KeyPlaced'
  BY <1>1 DEF KeyPlaced, Key
<1>7. ItemsPlaced'
  BY <1>1, <1>2 DEF ItemsPlaced
<1>8. FilesCovered'
  BY <1>1, <1>4 DEF FilesCovered
<1> QED
  BY <1>5, <1>6, <1>7, <1>8 DEF ItemsInv

(* Reading one of the links or files: what was to be read is read.           *)
LEMMA ReadOne ==
  ASSUME UNCHANGED vars, NEW p, NEW kinds, NEW s, NEW k, NEW d,
         Reached(p, kinds), links' = links \ {<<s, k>>},
         items' = items \union {[slot |-> s, kind |-> k, dir |-> d]},
         s = slot[p] => d = DirOf[p]
  PROVE  Reached(p, kinds)'
<1>1. slot' = slot /\ Plan(p)' = Plan(p)
  BY DEF vars, Plan
<1>2. \A j : ItemOf(p, j)' = ItemOf(p, j)
  BY <1>1 DEF ItemOf
<1>3. ASSUME NEW j \in kinds, j \in Plan(p)
      PROVE  <<slot[p], j>> \in links' \/ ItemOf(p, j) \in items'
  <2>1. <<slot[p], j>> \in links \/ ItemOf(p, j) \in items
    BY <1>3 DEF Reached
  <2>2. CASE slot[p] = s /\ j = k
    BY <2>2 DEF ItemOf
  <2> QED
    BY <2>1, <2>2
<1> QED
  BY <1>1, <1>2, <1>3 DEF Reached

(* A reader's step that is about no item.                                    *)
Itemless ==
  /\ items' = items
  /\ stage' \in RowStages \union {"listed", "patch", "rendered", "got", "failed"}
  /\ stage' \in RowStages \union {"listed"} => stage \in RowStages

(* A reader's step reads the index or the files, or is about no item.         *)
LEMMA ItemKinds ==
  ASSUME ReaderStep
  PROVE  \/ ListKeys \/ ListLinks \/ EndLinks \/ EndKeys \/ Search \/ EndFiles
         \/ \E key \in Keys : ReadBranch(key)
         \/ \E s \in Slots, k \in Links : ReadLink(s, k)
         \/ \E s \in Slots, k \in Kept : ReadFile(s, k)
         \/ Itemless
<1> USE DEF Itemless, RowStages, Continue, indexVars
<1>1. CASE ListAccess \/ FindBackup \/ ReadTag \/ ReadActor \/ FindDiff \/ EndRows
  BY <1>1 DEF ListAccess, FindBackup, ReadTag, ReadActor, FindDiff, EndRows
<1>2. ASSUME NEW s \in Slots, ReadAccess(s) \/ ReadBackup(s) PROVE Itemless
  BY <1>2 DEF ReadAccess, ReadBackup
<1>3. CASE Patch
  BY <1>3 DEF Patch
<1>4. ASSUME NEW s \in Slots, NEW k \in Kept, Get(s, k) PROVE Itemless
  BY <1>4 DEF Get
<1> QED
  BY <1>1, <1>2, <1>3, <1>4 DEF ReaderStep

(* A reader's step keeps ItemsInv.                                           *)
LEMMA ItemsStep ==
  ASSUME OneDirPerKey, Sound, ReaderTyped, RowsInv, ItemsInv, ReaderStep, UNCHANGED vars
  PROVE  ItemsInv'
<1> USE DEF Continue, RowStages, rowVars, renderVars, indexVars
<1>0. /\ slot' = slot /\ payload' = payload /\ record' = record
      /\ began \subseteq Publishers
      /\ KeysCovered /\ KeyPlaced /\ ItemsPlaced /\ FilesCovered
  BY DEF vars, ReaderTyped, ListingType, ItemsInv
<1>1. \A p : Plan(p)' = Plan(p) /\ \A k : ItemOf(p, k)' = ItemOf(p, k)
  BY <1>0 DEF Plan, ItemOf
<1>2. \A p \in began :
        /\ slot[p] \in Slots /\ KeyOf[slot[p][1]] = Key(p) /\ Key(p) \in indexed
        /\ p # None /\ \A k \in Plan(p) : record[k][slot[p]] = p
  BY <1>0, Published, ConstantsAssumption DEF RowsInv, BeganDone, Key, Procs
<1>3. CASE Itemless
  BY <1>0, <1>3 DEF Itemless, ItemsInv, KeysCovered, KeyPlaced, ItemsPlaced, FilesCovered
<1>4. CASE ListKeys
  <2>1. /\ stage = "listed" /\ stage' = "keys" /\ pending' = indexed
        /\ items' = items /\ began' = began
    BY <1>4 DEF ListKeys
  <2>2. KeysCovered'
    BY <1>2, <2>1 DEF KeysCovered, Key
  <2>3. KeyPlaced' /\ ItemsPlaced' /\ FilesCovered'
    BY <1>0, <2>1 DEF KeyPlaced, ItemsPlaced, FilesCovered
  <2> QED
    BY <2>2, <2>3 DEF ItemsInv
<1>5. ASSUME NEW key \in Keys, ReadBranch(key) PROVE ItemsInv'
  <2>1. /\ stage = "keys" /\ pending' = pending \ {key} /\ at' = key
        /\ links' = links /\ items' = items /\ began' = began
        /\ \/ stage' = "entries" /\ branch[key] # None /\ dir' = DirOf[branch[key]]
           \/ stage' = "failed"
    BY <1>5 DEF ReadBranch
  <2>2. \A p : Has(p, Links)' <=> Has(p, Links)
    BY <1>1, <2>1 DEF Has, Links
  <2>3. KeysCovered'
    BY <1>0, <2>1, <2>2 DEF KeysCovered, Key
  <2>4. branch[key] # None => branch[key] \in Publishers /\ Key(branch[key]) = key
    BY DEF Sound, IndexInv, IInv, TypeOK
  <2>5. KeyPlaced'
    BY <2>1, <2>4 DEF KeyPlaced, OneDirPerKey, Key
  <2>6. ItemsPlaced' /\ FilesCovered'
    BY <1>0, <2>1 DEF ItemsPlaced, FilesCovered
  <2> QED
    BY <2>3, <2>5, <2>6 DEF ItemsInv
<1>6. CASE ListLinks
  <2>1. /\ stage = "entries" /\ stage' = "links"
        /\ UNCHANGED <<pending, at, dir, items, began>>
        /\ links' = {l \in Slots \X Links : KeyOf[l[1][1]] = at /\ record[l[2]][l[1]] # None}
    BY <1>6 DEF ListLinks
  <2>2. \A p : Has(p, Links)' <=> Has(p, Links)
    BY <1>1, <2>1 DEF Has, Links
  <2>3. ASSUME NEW p \in began, at = Key(p) PROVE Reached(p, Links)'
    <3>1. ASSUME NEW k \in Links, k \in Plan(p) PROVE <<slot[p], k>> \in links'
      <4>1. <<slot[p], k>> \in Slots \X Links /\ record[k][slot[p]] # None
        BY <1>2, <3>1
      <4>2. KeyOf[slot[p][1]] = at
        BY <1>2, <2>3
      <4> DEFINE l == <<slot[p], k>>
      <4>3. l[1] = slot[p] /\ l[2] = k
        OBVIOUS
      <4> QED
        BY <2>1, <4>1, <4>2, <4>3
    <3> QED
      BY <1>0, <1>1, <3>1 DEF Reached, Links
  <2>4. KeysCovered'
    BY <1>0, <2>1, <2>2, <2>3 DEF KeysCovered, Key
  <2>5. KeyPlaced' /\ ItemsPlaced' /\ FilesCovered'
    BY <1>0, <2>1 DEF KeyPlaced, ItemsPlaced, FilesCovered, Key
  <2> QED
    BY <2>4, <2>5 DEF ItemsInv
<1>7. ASSUME NEW s \in Slots, NEW k \in Links, ReadLink(s, k) PROVE ItemsInv'
  <2>1. /\ stage = "links" /\ <<s, k>> \in links /\ links' = links \ {<<s, k>>}
        /\ UNCHANGED <<pending, at, dir, began>>
        /\ \/ stage' = "failed" /\ items' = items
           \/ stage' = "links"
              /\ items' = items \union {[slot |-> s, kind |-> k, dir |-> dir]}
    BY <1>7 DEF ReadLink
  <2>2. KeyOf[s[1]] = at
    BY <2>1 DEF ReaderTyped, StageTypes
  <2>3. \A p \in began : s = slot[p] => dir = DirOf[p]
    BY <1>0, <1>2, <2>1, <2>2 DEF KeyPlaced
  <2>4. CASE stage' = "failed"
    BY <2>4 DEF ItemsInv, KeysCovered, KeyPlaced, ItemsPlaced, FilesCovered
  <2>5. CASE /\ stage' = "links"
             /\ items' = items \union {[slot |-> s, kind |-> k, dir |-> dir]}
    <3>1. \A p \in began : Reached(p, Links) => Reached(p, Links)'
      BY <2>1, <2>3, <2>5, ReadOne
    <3>2. \A p \in began : Has(p, Links) => Has(p, Links)'
      BY <1>1, <2>5 DEF Has, Links
    <3>3. KeysCovered'
      BY <1>0, <2>1, <2>5, <3>1, <3>2 DEF KeysCovered, Key
    <3>4. ItemsPlaced'
      BY <1>0, <2>1, <2>3, <2>5 DEF ItemsPlaced
    <3>5. KeyPlaced' /\ FilesCovered'
      BY <1>0, <2>1, <2>5 DEF KeyPlaced, FilesCovered, Key
    <3> QED
      BY <3>3, <3>4, <3>5 DEF ItemsInv
  <2> QED
    BY <2>1, <2>4, <2>5
<1>8. CASE EndLinks \/ EndKeys
  <2>1. /\ UNCHANGED <<pending, at, dir, links, items, began>>
        /\ \/ stage = "links" /\ links = {} /\ stage' = "keys"
           \/ stage = "keys" /\ pending = {} /\ stage' = "printed"
    BY <1>8 DEF EndLinks, EndKeys
  <2>2. \A p : Has(p, Links)' <=> Has(p, Links)
    BY <1>1, <2>1 DEF Has, Links
  <2>3. \A p : links = {} /\ Reached(p, Links) => Has(p, Links)
    BY DEF Has, Reached
  <2>4. KeysCovered'
    BY <1>0, <2>1, <2>2, <2>3 DEF KeysCovered, Key
  <2>5. KeyPlaced' /\ ItemsPlaced' /\ FilesCovered'
    BY <1>0, <2>1 DEF KeyPlaced, ItemsPlaced, FilesCovered
  <2> QED
    BY <2>4, <2>5 DEF ItemsInv
<1>9. CASE Search
  <2>1. /\ stage = "listed" /\ stage' = "files" /\ UNCHANGED <<items, began>>
        /\ links' = UNION {FilesOf(s) : s \in Slots}
    BY <1>9 DEF Search
  <2>2. ASSUME NEW p \in began PROVE Reached(p, Kept)'
    <3>1. rows[slot[p]] # None /\ (rows[slot[p]].diff <=> payload[p] = "diff")
      BY <2>1 DEF RowsInv, Covered, RowsRight, LaterStages
    <3>2. "diff" \in Plan(p) => payload[p] = "diff"
      BY DEF Plan
    <3>3. \A k \in Kept : k \in Plan(p) => <<slot[p], k>> \in links'
      BY <1>2, <2>1, <3>1, <3>2, FilesOfRows DEF Kept
    <3> QED
      BY <1>0, <1>1, <3>3 DEF Reached, Kept
  <2>3. FilesCovered'
    BY <2>1, <2>2 DEF FilesCovered
  <2>4. KeysCovered' /\ KeyPlaced' /\ ItemsPlaced'
    BY <2>1 DEF KeysCovered, KeyPlaced, ItemsPlaced
  <2> QED
    BY <2>3, <2>4 DEF ItemsInv
<1>10. ASSUME NEW s \in Slots, NEW k \in Kept, ReadFile(s, k) PROVE ItemsInv'
  <2> DEFINE d == DirOf[rows[s].writer]
  <2>1. /\ stage = "files" /\ <<s, k>> \in links /\ links' = links \ {<<s, k>>}
        /\ began' = began
        /\ \/ stage' = "failed" /\ items' = items
           \/ stage' = "files" /\ items' = items \union {[slot |-> s, kind |-> k, dir |-> d]}
    BY <1>10 DEF ReadFile
  <2>2. rows[s] # None
    BY <2>1 DEF ReaderTyped, StageTypes
  <2>3. \A p \in began : s = slot[p] => d = DirOf[p]
    BY <2>2 DEF RowsInv, RowsRight
  <2> HIDE DEF d
  <2>4. stage' = "files" => \A p \in began : Reached(p, Kept) => Reached(p, Kept)'
    BY <2>1, <2>3, ReadOne
  <2>5. FilesCovered'
    BY <1>0, <2>1, <2>4 DEF FilesCovered
  <2>6. KeysCovered' /\ KeyPlaced' /\ ItemsPlaced'
    BY <2>1 DEF KeysCovered, KeyPlaced, ItemsPlaced
  <2> QED
    BY <2>5, <2>6 DEF ItemsInv
<1>11. CASE EndFiles
  <2>1. /\ stage = "files" /\ links = {} /\ stage' = "searched"
        /\ UNCHANGED <<links, items, began>>
    BY <1>11 DEF EndFiles
  <2>2. \A p \in began : Has(p, Kept)
    BY <1>0, <2>1 DEF FilesCovered, Reached, Has
  <2>3. \A p \in began : Has(p, Kept)'
    BY <1>1, <2>1, <2>2 DEF Has, Kept
  <2>4. FilesCovered'
    BY <2>1, <2>3 DEF FilesCovered
  <2>5. KeysCovered' /\ KeyPlaced' /\ ItemsPlaced'
    BY <2>1 DEF KeysCovered, KeyPlaced, ItemsPlaced
  <2> QED
    BY <2>4, <2>5 DEF ItemsInv
<1> QED
  BY <1>3, <1>4, <1>5, <1>6, <1>7, <1>8, <1>9, <1>10, <1>11, ItemKinds

-----------------------------------------------------------------------------
(* A reader changes nothing in the repository: every behaviour with a reader  *)
(* is one of Publication, and its theorems hold.                             *)
THEOREM ReadersChangeNothing == ListingSpec => Spec
<1>1. ListingInit => Init
  BY DEF ListingInit
<1>2. [ListingNext]_<<vars, reader>> => [Next]_vars
  BY DEF ListingNext
<1> QED
  BY <1>1, <1>2, PTL DEF ListingSpec, Spec

(* A step is one of the writers or one of the reader.                        *)
LEMMA ListingSteps ==
  ASSUME [ListingNext]_<<vars, reader>>
  PROVE  \/ [Next]_vars /\ UNCHANGED reader
         \/ ReaderStep /\ UNCHANGED vars
BY DEF ListingNext

(* The reader's variables keep their types.                                  *)
THEOREM ReaderTypeInvariance == ListingSpec => []ReaderTyped
<1>1. ListingInit => ReaderTyped
  BY DEF ListingInit, ReaderTyped, ListingType, StageTypes, RowStages, LaterStages, Midway, Writers
<1>2. TypeOK /\ ReaderTyped /\ [ListingNext]_<<vars, reader>> => ReaderTyped'
  <2> SUFFICES ASSUME TypeOK, ReaderTyped, [ListingNext]_<<vars, reader>> PROVE ReaderTyped'
    OBVIOUS
  <2>1. CASE UNCHANGED reader
    BY <2>1 DEF reader, rowVars, renderVars, indexVars, ReaderTyped, ListingType, StageTypes
  <2> QED
    BY <2>1, ListingSteps, ReaderTypedStep
<1> QED
  BY <1>1, <1>2, ReadersChangeNothing, TypeCorrect, PTL DEF ListingSpec

(* Listing's type invariant.                                                 *)
THEOREM ListingTyped == ListingSpec => []ListingType
<1>1. ReaderTyped => ListingType
  BY DEF ReaderTyped
<1> QED
  BY <1>1, ReaderTypeInvariance, PTL

(* What the repository is beside a reader, under clean faults.               *)
THEOREM SoundInvariance == ASSUME CleanFaults PROVE ListingSpec => []Sound
<1>1. IInv /\ TagInv /\ PlanInv /\ CleanInv /\ FullyPublished /\ SuccessIntact /\ IndexInv => Sound
  BY DEF Sound
<1> QED
  BY <1>1, ReadersChangeNothing, Invariance, TagInvariance, PlanInvariance, CleanInvariance,
     SuccessIsFull, PublishedStays, IndexInvariance, PTL

(* What a reader has put together of returned calls is right.                *)
THEOREM RowsInvariance == ASSUME CleanFaults PROVE ListingSpec => []RowsInv
<1>1. ListingInit => RowsInv
  BY DEF ListingInit, RowsInv, BeganDone, Covered, MidwayRight, RowsRight
<1>2. Sound /\ ReaderTyped /\ RowsInv /\ [ListingNext]_<<vars, reader>> => RowsInv'
  BY ListingSteps, RowsBeside, RowsStep DEF Sound
<1> QED
  BY <1>1, <1>2, SoundInvariance, ReaderTypeInvariance, PTL DEF ListingSpec

(* What it has put together of any call was that call's.                     *)
THEOREM HadInvariance == ASSUME CleanFaults PROVE ListingSpec => []HadInv
<1>1. ListingInit => HadInv
  BY DEF ListingInit, HadInv, PendingHad, MidwayHad, RowsHad, DiffTold, BaseRight, RenderedRight,
         FailedHad, Midway
<1>2. Sound /\ ReaderTyped /\ HadInv /\ [ListingNext]_<<vars, reader>> => HadInv'
  <2> SUFFICES ASSUME Sound, ReaderTyped, HadInv, [ListingNext]_<<vars, reader>> PROVE HadInv'
    OBVIOUS
  <2>1. CASE [Next]_vars /\ UNCHANGED reader
    BY <2>1, HadBeside DEF Sound
  <2>2. CASE ReaderStep /\ UNCHANGED vars
    BY <2>2, HadRowsStep, HadEndsStep DEF HadInv
  <2> QED
    BY <2>1, <2>2, ListingSteps
<1> QED
  BY <1>1, <1>2, SoundInvariance, ReaderTypeInvariance, PTL DEF ListingSpec

(* If no two directories share a key, its items are placed where the files    *)
(* are, and it misses none.                                                  *)
THEOREM ItemsInvariance == ASSUME CleanFaults, OneDirPerKey PROVE ListingSpec => []ItemsInv
<1>1. ListingInit => ItemsInv
  BY DEF ListingInit, ItemsInv, KeysCovered, KeyPlaced, ItemsPlaced, FilesCovered
<1>2. Sound /\ ReaderTyped /\ RowsInv /\ ItemsInv /\ [ListingNext]_<<vars, reader>> => ItemsInv'
  <2> SUFFICES ASSUME Sound, ReaderTyped, RowsInv, ItemsInv, [ListingNext]_<<vars, reader>>
               PROVE  ItemsInv'
    OBVIOUS
  <2>1. CASE [Next]_vars /\ UNCHANGED reader
    BY <2>1, ItemsBeside DEF Sound, RowsInv
  <2>2. CASE ReaderStep /\ UNCHANGED vars
    BY <2>2, ItemsStep
  <2> QED
    BY <2>1, <2>2, ListingSteps
<1> QED
  BY <1>1, <1>2, SoundInvariance, ReaderTypeInvariance, RowsInvariance, PTL DEF ListingSpec

-----------------------------------------------------------------------------
(* A revision whose call had returned when a listing began is in it, with     *)
(* its writer, its actor and whether it has a diff, whatever other calls      *)
(* write, withdraw or leave behind while the reader goes from file to file.  *)
THEOREM CompletedAreListed == ASSUME CleanFaults PROVE ListingSpec => []CompletedListed
<1>1. Sound /\ ReaderTyped /\ RowsInv => CompletedListed
  <2> SUFFICES ASSUME Sound, ReaderTyped, RowsInv, stage \in LaterStages, NEW p \in began
               PROVE  /\ slot[p] \in history(NameOf[p]) /\ DirOf[p] \in where_cmd(NameOf[p])
                      /\ rows[slot[p]].writer = p /\ rows[slot[p]].actor = Actor(p)
                      /\ rows[slot[p]].diff = (payload[p] = "diff")
    BY DEF CompletedListed
  <2>1. slot[p] \in Slots /\ slot[p][1] = NameOf[p]
    BY Published DEF ReaderTyped, ListingType, RowsInv, BeganDone
  <2>2. rows[slot[p]] # None
    BY DEF RowsInv, Covered
  <2>3. /\ rows[slot[p]].writer = p /\ rows[slot[p]].actor = Actor(p)
        /\ rows[slot[p]].diff <=> payload[p] = "diff"
    BY <2>2 DEF RowsInv, RowsRight
  <2>4. rows[slot[p]].diff \in BOOLEAN
    BY <2>1, <2>2 DEF ReaderTyped, ListingType, Rows
  <2>5. slot[p] \in history(NameOf[p])
    BY <2>1, <2>2 DEF history
  <2>6. DirOf[p] \in where_cmd(NameOf[p])
    BY <2>3, <2>5 DEF where_cmd
  <2>7. rows[slot[p]].diff = (payload[p] = "diff")
    BY <2>3, <2>4
  <2> QED
    BY <2>3, <2>5, <2>6, <2>7
<1> QED
  BY <1>1, SoundInvariance, ReaderTypeInvariance, RowsInvariance, PTL

(* If no two directories share a key, the index shows every artifact of such  *)
(* a revision under the directory of its file and with its actor, and a       *)
(* search that ends has read its backup and its diff.                        *)
THEOREM CompletedArePrinted ==
  ASSUME CleanFaults, OneDirPerKey PROVE ListingSpec => []CompletedPrinted
<1>1. Sound /\ ReaderTyped /\ RowsInv /\ ItemsInv => CompletedPrinted
  <2> SUFFICES ASSUME Sound, ReaderTyped, RowsInv, ItemsInv, NEW p \in began
               PROVE  /\ stage = "printed" =>
                           /\ \A k \in Links \intersect Plan(p), scope \in {"*", DirOf[p]} :
                                [slot |-> slot[p], kind |-> k, user |-> Actor(p)]
                                  \in listing(scope)
                           /\ \A line \in listing("*") :
                                line.slot = slot[p] => line.user = Actor(p)
                      /\ stage = "searched" =>
                           \A k \in Kept \intersect Plan(p) :
                             [slot |-> slot[p], kind |-> k, dir |-> DirOf[p]] \in items
    BY DEF CompletedPrinted
  <2>1. ASSUME stage = "searched", NEW k \in Kept \intersect Plan(p)
        PROVE  [slot |-> slot[p], kind |-> k, dir |-> DirOf[p]] \in items
    BY <2>1 DEF ItemsInv, FilesCovered, Has, ItemOf
  <2>2. ASSUME stage = "printed", NEW i \in items, i.slot = slot[p] PROVE User(i) = Actor(p)
    <3>1. i.dir = DirOf[p]
      BY <2>2 DEF ItemsInv, ItemsPlaced
    <3>2. slot[p] \in Slots /\ rows[slot[p]] # None
      BY <2>2, Published
      DEF ReaderTyped, ListingType, RowsInv, BeganDone, Covered, LaterStages
    <3>3. rows[slot[p]].writer = p /\ rows[slot[p]].actor = Actor(p)
      BY <3>2 DEF RowsInv, RowsRight
    <3>4. RowFor(i) = rows[slot[p]]
      BY <2>2, <3>1, <3>2, <3>3 DEF RowFor
    <3> QED
      BY <3>2, <3>3, <3>4 DEF User
  <2>3. ASSUME stage = "printed", NEW k \in Links \intersect Plan(p),
               NEW scope \in {"*", DirOf[p]}
        PROVE  [slot |-> slot[p], kind |-> k, user |-> Actor(p)] \in listing(scope)
    <3>1. ItemOf(p, k) \in items
      BY <2>3 DEF ItemsInv, KeysCovered, Has
    <3>2. /\ ItemOf(p, k).slot = slot[p] /\ ItemOf(p, k).kind = k
          /\ ItemOf(p, k).dir = DirOf[p]
      BY DEF ItemOf
    <3>3. User(ItemOf(p, k)) = Actor(p)
      BY <2>2, <2>3, <3>1, <3>2
    <3>4. ItemOf(p, k) \in {i \in items : scope \in {"*", i.dir}}
      BY <2>3, <3>1, <3>2
    <3> QED
      BY <3>2, <3>3, <3>4 DEF listing
  <2>4. ASSUME stage = "printed", NEW line \in listing("*"), line.slot = slot[p]
        PROVE  line.user = Actor(p)
    <3>1. PICK i \in items : line = [slot |-> i.slot, kind |-> i.kind, user |-> User(i)]
      BY DEF listing
    <3> QED
      BY <2>2, <2>4, <3>1
  <2> QED
    BY <2>1, <2>3, <2>4
<1> QED
  BY <1>1, SoundInvariance, ReaderTypeInvariance, RowsInvariance, ItemsInvariance, PTL

(* What a reader renders for a row is what the row's writer represented,      *)
(* unless the revision has been withdrawn since.                             *)
THEOREM RendersAreRight == ASSUME CleanFaults PROVE ListingSpec => []RenderedRight
<1>1. HadInv => RenderedRight
  BY DEF HadInv
<1> QED
  BY <1>1, HadInvariance, PTL

(* A listing, a render or a search fails only on the index or on a revision   *)
(* that its writer withdraws, has withdrawn, or died withdrawing.            *)
THEOREM RowsStayReadable == ASSUME CleanFaults PROVE ListingSpec => []RowsReadable
<1>1. Sound /\ HadInv => RowsReadable
  <2> SUFFICES ASSUME Sound, HadInv, stage = "failed", at \notin Keys
               PROVE  \E p \in Publishers :
                        slot[p] = at /\ \/ pc[p] \in {"rollback", "abort", "failed"}
                                        \/ pc[p] = "crashed" /\ record["access"][at] # p
    BY DEF RowsReadable
  <2>1. PICK w \in Publishers : at \in Slots /\ Was(w, at) /\ record["access"][at] # w
    BY DEF HadInv, FailedHad
  <2>2. pc[w] \in {"rollback", "abort", "failed"} \/ pc[w] = "crashed"
    BY <2>1, Withdrawn DEF Sound
  <2> QED
    BY <2>1, <2>2 DEF Was
<1> QED
  BY <1>1, SoundInvariance, HadInvariance, PTL
=============================================================================
