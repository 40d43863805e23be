---------------------------- MODULE RevisionProofs ----------------------------
(* More proofs about Publication: tags stay with the revision their user saw; *)
(* what is listed is complete, and numbered without gaps; a call fails only   *)
(* for a reason of its own; and the repository implements RevisionLog.        *)
EXTENDS PublicationProofs

(* Crashes, and operations that fail and leave nothing behind: no fsync      *)
(* that fails after its operation took effect, and no unlink that fails in   *)
(* a rollback.                                                               *)
CleanFaults == Faults \subseteq {"crash", "write"}

-----------------------------------------------------------------------------
(* How one call may go from stage to stage in a step that touches no         *)
(* record.                                                                   *)
Moves(p) ==
  \/ pc'[p] = pc[p]
  \/ pc[p] \in Unnumbered /\ pc'[p] \in Unnumbered \union {"mkdir", "failed"}
  \/ pc[p] = "allocate" /\ pc'[p] = "abort"
  \/ pc[p] \in {"mkdir", "branch"} /\ pc'[p] = "abort" /\ p \in met'
  \/ pc[p] = "mkdir" /\ pc'[p] = "branch"
  \/ pc[p] = "branch" /\ pc'[p] = "backup"
  \/ pc[p] = "rollback" /\ created[p] = {} /\ pc'[p] = "abort"
  \/ pc[p] = "commit" /\ pc'[p] = "done"
  \/ pc[p] = "abort" /\ pc'[p] = "failed"
  \/ pc[p] # "done" /\ pc'[p] = "crashed"

(* The steps that work on one record of kind k.                              *)
RecordStep(p, k) ==
  \/ WriteRecord(p, k) \/ RecordExists(p, k) \/ WriteFails(p, k)
  \/ Undo(p, k) \/ UndoFails(p, k)

(* Some call works on a record.                                              *)
Recording == \E p \in Publishers, k \in Kinds : RecordStep(p, k)

(* A step that touches no record, and what it may do to each call.           *)
Calm ==
  /\ UNCHANGED <<record, created>>
  /\ met \subseteq met'
  /\ \A p \in Publishers : /\ Moves(p)
                           /\ payload'[p] = payload[p] \/ pc[p] = "start"
                           /\ slot'[p] = slot[p] \/ pc[p] = "allocate"

(* Every step works on one record, or is calm.                               *)
LEMMA CallKinds ==
  ASSUME TypeOK, [Next]_vars
  PROVE  Recording \/ Calm
<1> USE ConstantsAssumption DEF Procs, Goto, Meets, Calm
<1>0. /\ pc \in [Procs -> Stages] /\ slot \in [Procs -> Slots \union {None}]
      /\ payload \in [Publishers -> Payloads]
  BY DEF TypeOK
<1>1. ASSUME NEW q \in Procs, CallStep(q) PROVE Calm
  BY <1>0, <1>1 DEF CallStep, Open, Acquire, Release, local, files, Moves, Unnumbered
<1>2. ASSUME NEW p \in Publishers, Prepare(p) PROVE Calm
  BY <1>0, <1>2 DEF Prepare, files, Moves, Unnumbered
<1>3. ASSUME NEW p \in Publishers, Allocate(p) PROVE Calm
  <2>1. \E to \in {"mkdir", "abort"} : Goto(p, "allocate", to)
    BY <1>3 DEF Allocate
  <2>2. UNCHANGED <<record, created, met, payload>>
    BY <1>3 DEF Allocate, files
  <2>3. \A q \in Publishers : q # p => slot'[q] = slot[q]
    BY <1>0, <1>3 DEF Allocate
  <2> QED
    BY <1>0, <2>1, <2>2, <2>3 DEF Moves, Unnumbered
<1>4. ASSUME NEW p \in Publishers, MakeDirectory(p) \/ WriteBranch(p) \/ UndoEnds(p)
      PROVE  Calm
  BY <1>0, <1>4 DEF MakeDirectory, WriteBranch, UndoEnds, local, files, Moves
<1>8. ASSUME NEW t \in Taggers, TagStep(t) \/ TagFails(t) PROVE Calm
  <2>1. UNCHANGED <<record, created, payload>> /\ met \subseteq met'
    BY <1>8 DEF TagStep, WriteTag, TagFails, Select, local, files
  <2>2. \A p \in Publishers : pc'[p] = pc[p] /\ slot'[p] = slot[p]
    BY <1>0, <1>8 DEF TagStep, WriteTag, TagFails, Select, local, files
  <2> QED
    BY <2>1, <2>2 DEF Moves
<1>9. ASSUME NEW q \in Procs, OpenFails(q) \/ Crash(q) PROVE Calm
  BY <1>0, <1>9 DEF OpenFails, Crash, local, files, Moves, Unnumbered, Ended
<1>10. ASSUME NEW p \in Publishers, AllocateFails(p) \/ IndexFails(p) PROVE Calm
  BY <1>0, <1>10 DEF AllocateFails, IndexFails, local, files, Moves
<1>11. CASE UNCHANGED vars
  BY <1>11 DEF vars, Moves
<1> HIDE ConstantsAssumption DEF Goto, Meets, Calm
<1> QED
  BY <1>1, <1>2, <1>3, <1>4, <1>8, <1>9, <1>10, <1>11
  DEF Next, PublishStep, Fault, Recording, RecordStep

(* The call that works on a record holds the lock and has a number;          *)
(* payloads and numbers stay, and so do all other calls.                     *)
LEMMA Recorded ==
  ASSUME IInv, NEW p \in Publishers, NEW k \in Kinds, RecordStep(p, k)
  PROVE  /\ lock = p /\ slot[p] \in Slots /\ pc[p] \in Kinds \union {"rollback"}
         /\ UNCHANGED <<payload, slot>>
         /\ \A q \in Publishers : q # p => pc'[q] = pc[q] /\ created'[q] = created[q]
<1>0. /\ pc \in [Procs -> Stages] /\ slot \in [Procs -> Slots \union {None}]
      /\ created \in [Publishers -> SUBSET Kinds] /\ p \in Procs
  BY DEF IInv, TypeOK, Procs
<1>1. pc[p] \in Kinds \union {"rollback"}
  BY DEF RecordStep, WriteRecord, RecordExists, WriteFails, StartRollback, Undo, UndoFails, Goto
<1>2. lock = p /\ slot[p] \in Slots
  BY <1>0, <1>1 DEF IInv, LockHeld, SlotsNamed, Numbered, Holding
<1>3. UNCHANGED <<payload, slot>>
  BY DEF RecordStep, WriteRecord, RecordExists, WriteFails, StartRollback, Undo, UndoFails
<1>4. \A q \in Publishers : q # p => pc'[q] = pc[q] /\ created'[q] = created[q]
  <2>1. CASE WriteRecord(p, k)
    BY <1>0, <2>1 DEF WriteRecord, Goto, Procs
  <2>2. CASE RecordExists(p, k) \/ WriteFails(p, k)
    BY <1>0, <2>2 DEF RecordExists, WriteFails, StartRollback, Goto, Procs
  <2>3. CASE Undo(p, k) \/ UndoFails(p, k)
    BY <1>0, <2>3 DEF Undo, UndoFails, UndoNext
  <2> QED
    BY <2>1, <2>2, <2>3 DEF RecordStep
<1> QED
  BY <1>1, <1>2, <1>3, <1>4

(* A call that has died stays as it is.                                      *)
LEMMA CrashedStays ==
  ASSUME IInv, [Next]_vars, NEW q \in Publishers, pc[q] = "crashed"
  PROVE  pc'[q] = "crashed" /\ slot'[q] = slot[q]
<1>1. slot'[q] = slot[q]
  BY StepEffects DEF IInv, Effects, SlotEffect
<1>2. CASE Recording
  <2>1. PICK p \in Publishers, k \in Kinds : RecordStep(p, k)
    BY <1>2 DEF Recording
  <2> QED
    BY <1>1, <2>1, Recorded DEF Kinds, Files, Links
<1>3. CASE Calm
  BY <1>1, <1>3 DEF Calm, Moves, Unnumbered
<1> QED
  BY <1>2, <1>3, CallKinds DEF IInv

-----------------------------------------------------------------------------
(* The stages of a call whose access record has been written, or will not    *)
(* be.                                                                       *)
Late == {"actor", "linkb", "linkd", "linka", "rollback", "commit", "abort", "done",
         "failed", "crashed"}

(* The call p had slot s, and is past the stage of the access record.        *)
Was(p, s) == p \in Publishers /\ slot[p] = s /\ pc[p] \in Late

(* Publishers never enter the stage of taggers.                              *)
Roles == \A p \in Publishers : pc[p] # "tag"

(* What a tagger has been shown, and what a tag file names, is a call that   *)
(* had that slot.                                                            *)
TagsOwned ==
  /\ \A t \in Taggers : shown[t] # None => Was(shown[t], slot[t])
  /\ \A s \in Slots : tag[s] # None => Was(tag[s], s)

(* A call that gives up, and still holds the lock, leaves no access record   *)
(* of another call under its number.                                         *)
AbortFresh ==
  \A p \in Publishers :
    pc[p] = "abort" /\ slot[p] # None => record["access"][slot[p]] \in {None, p}

(* What the theorem about tags rests on.                                     *)
TagInv == Roles /\ TagsOwned /\ AbortFresh

(* A step keeps Roles.                                                       *)
LEMMA RolesStep == TypeOK /\ Roles /\ [Next]_vars => Roles'
<1> SUFFICES ASSUME TypeOK, Roles, [Next]_vars, NEW p \in Publishers PROVE pc'[p] # "tag"
  BY DEF Roles
<1>0. pc \in [Procs -> Stages] /\ p \in Procs /\ payload \in [Publishers -> Payloads]
  BY DEF TypeOK, Procs
<1>1. CASE Recording
  <2>1. PICK q \in Publishers, k \in Kinds : RecordStep(q, k)
    BY <1>1 DEF Recording
  <2>2. After(q, k) # "tag"
    BY <1>0, AfterNext DEF Kinds, Files, Links
  <2> QED
    BY <1>0, <2>1, <2>2
    DEF Roles, RecordStep, WriteRecord, RecordExists, WriteFails, StartRollback, Undo, UndoFails,
        Goto
<1>2. CASE Calm
  BY <1>2 DEF Calm, Moves, Roles, Unnumbered
<1> QED
  BY <1>1, <1>2, CallKinds

(* A call that had a slot keeps it, and never goes back.                     *)
LEMMA LateStays ==
  ASSUME TypeOK, LockHeld, SlotsNamed, [Next]_vars, NEW p, NEW s, Was(p, s)
  PROVE  Was(p, s)'
<1>0. p \in Publishers /\ p \in Procs /\ pc[p] \in Late /\ slot[p] = s
  BY DEF Was, Procs
<1>1. pc \in [Procs -> Stages] /\ payload \in [Publishers -> Payloads]
  BY DEF TypeOK
<1>2. slot'[p] = slot[p]
  <2>1. SlotEffect
    BY StepEffects DEF Effects
  <2> QED
    BY <1>0, <2>1 DEF SlotEffect, Late
<1>3. CASE Recording
  <2>1. PICK q \in Publishers, k \in Kinds : RecordStep(q, k)
    BY <1>3 DEF Recording
  <2>2. After(q, k) \in Late \/ k \in {"backup", "diff"}
    BY <1>1, AfterNext DEF Late, Kinds, Files, Links, Unpublished
  <2>3. CASE WriteRecord(q, k)
    BY <1>0, <1>1, <1>2, <2>2, <2>3 DEF WriteRecord, Goto, Was, Late
  <2>4. CASE RecordExists(q, k) \/ WriteFails(q, k)
    BY <1>0, <1>1, <1>2, <2>4 DEF RecordExists, WriteFails, StartRollback, Goto, Was, Late
  <2>5. CASE Undo(q, k) \/ UndoFails(q, k)
    BY <1>0, <1>1, <1>2, <2>5 DEF Undo, UndoFails, Was
  <2> QED
    BY <2>1, <2>3, <2>4, <2>5 DEF RecordStep
<1>4. CASE Moves(p)
  BY <1>0, <1>2, <1>4 DEF Moves, Was, Late, Unnumbered
<1> QED
  BY <1>0, <1>3, <1>4, CallKinds DEF Calm

(* An access record was written by a call that had its slot.                 *)
LEMMA AccessLate ==
  ASSUME TypeOK, LockHeld, SlotsNamed, RecordsOwned, NumberFresh, Roles, NEW s \in Slots,
         record["access"][s] # None
  PROVE  Was(record["access"][s], s)
<1> DEFINE p == record["access"][s]
<1>1. p \in Publishers /\ p \in Procs /\ slot[p] = s
  BY DEF TypeOK, RecordsOwned, Procs, Kinds, Files
<1>2. pc[p] \notin Unpublished
  BY <1>1, ConstantsAssumption DEF NumberFresh, Numbered, Unpublished, Kinds, Files, Links
<1>3. pc[p] \notin Unnumbered
  BY <1>1, ConstantsAssumption DEF SlotsNamed, Slots, Numbers
<1>4. pc[p] \in Stages
  BY <1>1 DEF TypeOK
<1>5. pc[p] # "tag"
  BY <1>1 DEF Roles
<1> QED
  BY <1>1, <1>2, <1>3, <1>4, <1>5
  DEF Was, Late, Stages, Holding, Ended, Kinds, Files, Links, Unpublished, Unnumbered

(* What a step does to taggers and tags: a tagger selects a listed           *)
(* revision, or a tag is given to what its tagger was shown.                 *)
Tagging ==
  /\ \A t \in Taggers :
       \/ shown'[t] = shown[t] /\ slot'[t] = slot[t]
       \/ \E s \in Slots : Visible(s) /\ slot'[t] = s /\ shown'[t] = record["access"][s]
  /\ \A s \in Slots :
       \/ tag'[s] = tag[s]
       \/ \E t \in Taggers : slot[t] = s /\ tag'[s] = shown[t]

(* Every step has these effects on tags and no others.                       *)
LEMMA TagEffects == TypeOK /\ [Next]_vars => Tagging
<1> SUFFICES ASSUME TypeOK, [Next]_vars PROVE Tagging
  OBVIOUS
<1> USE DEF Tagging
<1>0. /\ slot \in [Procs -> Slots \union {None}]
      /\ shown \in [Taggers -> Publishers \union {None}]
      /\ tag \in [Slots -> Publishers \union {None}]
  BY DEF TypeOK
<1>1. CASE UNCHANGED <<tag, shown, slot>>
  BY <1>1
<1>2. ASSUME NEW p \in Publishers, Allocate(p) PROVE Tagging
  <2>1. UNCHANGED <<tag, shown>>
    BY <1>2 DEF Allocate, files
  <2>2. \A t \in Taggers : slot'[t] = slot[t]
    BY <1>0, <1>2, ConstantsAssumption DEF Allocate, Procs
  <2> QED
    BY <2>1, <2>2
<1>3. ASSUME NEW t \in Taggers, NEW s \in Slots, Select(t, s) PROVE Tagging
  BY <1>0, <1>3 DEF Select, files, Procs
<1>4. ASSUME NEW t \in Taggers, WriteTag(t) \/ TagFails(t) PROVE Tagging
  BY <1>0, <1>4 DEF WriteTag, TagFails, local
<1>5. ASSUME NEW p \in Publishers, NEW k \in Kinds, RecordStep(p, k)
      PROVE  UNCHANGED <<tag, shown, slot>>
  BY <1>5 DEF RecordStep, WriteRecord, RecordExists, WriteFails, StartRollback, Undo, UndoFails,
              files
<1>6. ASSUME NEW p \in Publishers,
             \/ Prepare(p) \/ MakeDirectory(p) \/ WriteBranch(p) \/ UndoEnds(p)
             \/ AllocateFails(p) \/ IndexFails(p)
      PROVE  UNCHANGED <<tag, shown, slot>>
  BY <1>6 DEF Prepare, MakeDirectory, WriteBranch, UndoEnds, AllocateFails, IndexFails, files, local
<1>7. ASSUME NEW q \in Procs, CallStep(q) \/ OpenFails(q) \/ Crash(q)
      PROVE  UNCHANGED <<tag, shown, slot>>
  BY <1>7 DEF CallStep, Open, Acquire, Release, OpenFails, Crash, files, local
<1>8. CASE UNCHANGED vars
  BY <1>1, <1>8 DEF vars
<1> HIDE DEF Tagging
<1> QED
  BY <1>1, <1>2, <1>3, <1>4, <1>5, <1>6, <1>7, <1>8
  DEF Next, PublishStep, TagStep, Fault, RecordStep

(* A step keeps TagsOwned.                                                   *)
LEMMA TagsOwnedStep ==
  ASSUME IInv, Roles, TagsOwned, [Next]_vars
  PROVE  TagsOwned'
<1>1. \A p, s : Was(p, s) => Was(p, s)'
  BY LateStays DEF IInv
<1>2. \A s \in Slots : record["access"][s] # None => Was(record["access"][s], s)
  BY AccessLate DEF IInv
<1>3. ASSUME NEW t \in Taggers, shown'[t] # None PROVE Was(shown[t], slot[t])'
  <2>1. Was(shown'[t], slot'[t])
    BY <1>2, <1>3, TagEffects DEF IInv, Tagging, TagsOwned, Visible
  <2> QED
    BY <1>1, <2>1 DEF Was
<1>4. ASSUME NEW s \in Slots, tag'[s] # None PROVE Was(tag[s], s)'
  <2>1. Was(tag'[s], s)
    BY <1>4, TagEffects DEF IInv, Tagging, TagsOwned
  <2> QED
    BY <1>1, <2>1 DEF Was
<1> QED
  BY <1>3, <1>4 DEF TagsOwned

(* A step keeps AbortFresh: a call gives up while its number is fresh, and   *)
(* nobody else writes as long as it holds the lock.                          *)
LEMMA AbortFreshStep ==
  ASSUME IInv, AbortFresh, [Next]_vars
  PROVE  AbortFresh'
<1>0. SUFFICES ASSUME NEW p \in Publishers, pc'[p] = "abort", slot'[p] # None
               PROVE  record'["access"][slot'[p]] \in {None, p}
  BY DEF AbortFresh
<1>a. TypeOK /\ SlotsNamed /\ LockHeld /\ NumberFresh
  BY DEF IInv
<1>b. pc \in [Procs -> Stages] /\ p \in Procs /\ payload \in [Publishers -> Payloads]
  BY <1>a DEF TypeOK, Procs
<1>1. RecordEffect /\ SlotEffect
  BY <1>a, StepEffects DEF Effects
<1>2. slot'[p] = slot[p]
  BY <1>0, <1>1 DEF SlotEffect
<1>3. CASE pc[p] = "abort"
  <2>1. \A q \in Publishers : pc[q] \in Kinds \union {"rollback"} => lock # q
    BY <1>a, <1>3 DEF LockHeld, Procs, Holding, Kinds, Files, Links
  <2>2. UNCHANGED record
    BY <1>1, <2>1 DEF RecordEffect
  <2> QED
    BY <1>0, <1>2, <1>3, <2>2 DEF AbortFresh
<1>4. CASE pc[p] # "abort" /\ Recording
  <2>1. PICK q \in Publishers, k \in Kinds : RecordStep(q, k)
    BY <1>4 DEF Recording
  <2>2. After(q, k) # "abort"
    BY <1>b, AfterNext DEF Kinds, Files, Links
  <2> QED
    BY <1>0, <1>b, <1>4, <2>1, <2>2
    DEF RecordStep, WriteRecord, RecordExists, WriteFails, StartRollback, Undo, UndoFails, Goto
<1>5. CASE pc[p] # "abort" /\ Calm
  <2>1. Moves(p) /\ UNCHANGED record
    BY <1>5 DEF Calm
  <2>2. pc[p] \in {"allocate", "mkdir", "branch", "rollback"}
    BY <1>0, <1>5, <2>1 DEF Moves, Unnumbered
  <2>3. pc[p] # "allocate"
    BY <1>0, <1>2, <1>a DEF SlotsNamed, Unnumbered
  <2> QED
    BY <1>2, <1>a, <2>1, <2>2, <2>3 DEF NumberFresh, Numbered
<1> QED
  BY <1>a, <1>3, <1>4, <1>5, CallKinds

(* This part of the invariant holds whatever fails.                          *)
THEOREM TagInvariance == Spec => []TagInv
<1>1. Init => TagInv
  BY ConstantsAssumption
  DEF Init, TagInv, Roles, TagsOwned, AbortFresh, Procs
<1>2. IInv /\ TagInv /\ [Next]_vars => TagInv'
  BY RolesStep, TagsOwnedStep, AbortFreshStep DEF TagInv, IInv
<1> QED
  BY <1>1, <1>2, Invariance, PTL DEF Spec

(* A tag stays with the revision its user saw, unless the writer of that     *)
(* revision failed or died: select and write are separated by the wait for   *)
(* the lock, and any call may have run in between.                           *)
THEOREM TagsStayRight == Spec => []TagsMatch
<1>1. IInv /\ TagInv => TagsMatch
  <2> SUFFICES ASSUME IInv, TagInv, NEW s \in Slots, tag[s] # None, Visible(s),
                      tag[s] # record["access"][s]
               PROVE  pc[tag[s]] \in {"failed", "crashed"}
    BY DEF TagsMatch
  <2> DEFINE q == tag[s]
  <2>1. q \in Publishers /\ slot[q] = s /\ pc[q] \in Late /\ s # None
    BY ConstantsAssumption DEF TagInv, TagsOwned, Was, Slots, Numbers
  <2>2. record["access"][s] \notin {None, q}
    BY DEF Visible
  <2>3. pc[q] \notin {"actor", "linkb", "linkd", "linka", "commit", "done"}
    BY <2>1, <2>2 DEF IInv, RecordsInOrder, Plan, Position, Kinds, Files, Links
  <2>4. pc[q] # "rollback"
    BY <2>1, <2>2 DEF IInv, NumberFresh, Numbered
  <2>5. pc[q] # "abort"
    BY <2>1, <2>2 DEF TagInv, AbortFresh
  <2> QED
    BY <2>1, <2>3, <2>4, <2>5 DEF Late
<1> QED
  BY <1>1, Invariance, TagInvariance, PTL

-----------------------------------------------------------------------------
(* The record that follows kind k is in the plan; it is not the first one,   *)
(* and what is not before it is after k.                                     *)
LEMMA AfterPlan ==
  ASSUME NEW p \in Publishers, NEW k \in Kinds, payload \in [Publishers -> Payloads]
  PROVE  /\ After(p, k) \in Plan(p) \union {"commit"}
         /\ After(p, k) # "backup"
         /\ \A j \in Kinds : Position[j] >= Position[After(p, k)] => Position[j] > Position[k]
<1> USE DEF Kinds, Files, Links, Plan, Position
<1>1. k = "backup" => After(p, k) = IF payload[p] = "diff" THEN "diff" ELSE "access"
  BY DEF After
<1>2. k = "diff" => After(p, k) = "access"
  BY DEF After
<1>3. k = "access" => After(p, k) = IF p \in Foreign THEN "actor" ELSE "linkb"
  BY DEF After
<1>4. k = "actor" => After(p, k) = "linkb"
  BY DEF After
<1>5. k = "linkb" => After(p, k) = IF payload[p] = "diff" THEN "linkd" ELSE "linka"
  BY DEF After
<1>6. k = "linkd" => After(p, k) = "linka"
  BY DEF After
<1>7. k = "linka" => After(p, k) = "commit"
  BY DEF After
<1> QED
  BY <1>1, <1>2, <1>3, <1>4, <1>5, <1>6, <1>7

(* The record a call is about to write is in its plan.                       *)
StagesPlanned == \A p \in Publishers : pc[p] \in Kinds => pc[p] \in Plan(p)

(* No call writes a record that is not in its plan.                          *)
RecordsPlanned ==
  \A p \in Publishers, k \in Kinds, s \in Slots : record[k][s] = p => k \in Plan(p)

(* What is written is in the plan of its writer.                             *)
PlanInv == StagesPlanned /\ RecordsPlanned

(* A step keeps StagesPlanned.                                               *)
LEMMA StagesPlannedStep == IInv /\ StagesPlanned /\ [Next]_vars => StagesPlanned'
<1> SUFFICES ASSUME IInv, StagesPlanned, [Next]_vars, NEW p \in Publishers, pc'[p] \in Kinds
             PROVE  pc'[p] \in Plan(p)'
  BY DEF StagesPlanned
<1>1. PcEffect
  BY StepEffects DEF Effects, IInv
<1>2. payload'[p] = payload[p]
  BY <1>1 DEF PcEffect
<1>3. pc[p] \in Kinds => After(p, pc[p]) \in Plan(p) \union {"commit"}
  BY AfterPlan DEF IInv, TypeOK
<1>4. pc'[p] \in Plan(p)
  BY <1>1, <1>3 DEF PcEffect, StagesPlanned, Plan, Kinds, Files, Links
<1> QED
  BY <1>2, <1>4 DEF Plan

(* A step keeps RecordsPlanned.                                              *)
LEMMA RecordsPlannedStep ==
  IInv /\ StagesPlanned /\ RecordsPlanned /\ [Next]_vars => RecordsPlanned'
<1> SUFFICES ASSUME IInv, StagesPlanned, RecordsPlanned, [Next]_vars,
                    NEW p \in Publishers, NEW k \in Kinds, NEW s \in Slots, record'[k][s] = p
             PROVE  k \in Plan(p)'
  BY DEF RecordsPlanned
<1>0. None \notin Publishers
  BY ConstantsAssumption DEF Procs
<1>1. RecordEffect
  BY StepEffects DEF Effects, IInv
<1>2. k \in Plan(p) /\ slot[p] = s
  BY <1>0, <1>1 DEF RecordEffect, RecordsPlanned, StagesPlanned, IInv, RecordsOwned
<1>3. payload'[p] = payload[p]
  <2>1. pc[p] # "start"
    BY <1>2, ConstantsAssumption DEF IInv, SlotsNamed, Unnumbered, Slots, Numbers
  <2> QED
    BY <2>1, CallKinds, Recorded DEF IInv, Recording, Calm
<1> QED
  BY <1>2, <1>3 DEF Plan

(* This part of the invariant holds whatever fails.                          *)
THEOREM PlanInvariance == Spec => []PlanInv
<1>1. Init => PlanInv
  BY ConstantsAssumption
  DEF Init, PlanInv, StagesPlanned, RecordsPlanned, Procs, Kinds, Files, Links
<1>2. IInv /\ PlanInv /\ [Next]_vars => PlanInv'
  BY StagesPlannedStep, RecordsPlannedStep DEF PlanInv
<1> QED
  BY <1>1, <1>2, Invariance, PTL DEF Spec

-----------------------------------------------------------------------------
(* A record of kind k is there that p wrote.                                 *)
Wrote(p, k) == \E s \in Slots : record[k][s] = p

(* Stages at which a call has no record.                                     *)
Early == Unnumbered \union {"mkdir", "branch", "backup", "abort", "failed"}

(* Tracked, for one call.                                                    *)
TrackedBy(p) ==
  /\ pc[p] \notin {"done", "crashed"} => \A k \in Files : k \in created[p] <=> Wrote(p, k)
  /\ pc[p] = "rollback" => \A k \in Links : Wrote(p, k) => k \in created[p]
  /\ pc[p] \in Early => \A k \in Kinds : ~ Wrote(p, k)
  /\ pc[p] \in Kinds => \A k \in Kinds : Position[k] >= Position[pc[p]] => ~ Wrote(p, k)

(* What created holds: until a call has ended well or died, its record       *)
(* files are those there are of it; in the rollback its links are among      *)
(* what is to be unlinked; there is nothing of it before the first write,    *)
(* nor after it has failed; and it has written nothing that comes later in   *)
(* its plan.                                                                 *)
Tracked == \A p \in Publishers : TrackedBy(p)

(* A record file belongs to the call that wrote the backup of its slot.      *)
Backed ==
  \A k \in Files, s \in Slots : record[k][s] # None => record["backup"][s] = record[k][s]

(* The access record of a call with a diff comes after the diff.             *)
DiffFirst ==
  \A p \in Publishers, s \in Slots :
    record["access"][s] = p /\ payload[p] = "diff" => record["diff"][s] = p

(* Explained, for one call.                                                  *)
ExplainedBy(p) ==
  pc[p] \in {"rollback", "abort", "failed"} /\ slot[p] # None =>
    p \in met \/ \E q \in Publishers : pc[q] = "crashed" /\ slot[q] = slot[p]

(* A call that rolls back, gives up or has failed met a fault of its own,    *)
(* or shares its number with a call that died.                               *)
Explained == \A p \in Publishers : ExplainedBy(p)

(* What holds under clean faults.                                            *)
CleanInv == Tracked /\ Backed /\ DiffFirst /\ Explained

(* What the write of a record does.                                          *)
LEMMA Writing ==
  ASSUME IInv, NEW p \in Publishers, NEW k \in Kinds, WriteRecord(p, k)
  PROVE  /\ pc[p] = k /\ pc'[p] = After(p, k) /\ record[k][slot[p]] = None
         /\ created'[p] = created[p] \union ({k} \intersect Files)
         /\ \A j \in Kinds, s \in Slots :
              record'[j][s] = IF j = k /\ s = slot[p] THEN p ELSE record[j][s]
<1>0. /\ pc \in [Procs -> Stages] /\ created \in [Publishers -> SUBSET Kinds] /\ p \in Procs
      /\ record \in [Kinds -> [Slots -> Publishers \union {None}]]
  BY DEF IInv, TypeOK, Procs
<1>1. slot[p] \in Slots
  BY Recorded DEF RecordStep
<1>2. Put(k, slot[p], p)
  BY DEF WriteRecord
<1>3. \A j \in Kinds, s \in Slots :
        record'[j][s] = IF j = k /\ s = slot[p] THEN p ELSE record[j][s]
  BY <1>0, <1>1, <1>2, PutEffect
<1> QED
  BY <1>0, <1>3 DEF WriteRecord, Goto

(* What one unlink of a rollback does.                                       *)
LEMMA Undoing ==
  ASSUME IInv, NEW p \in Publishers, NEW k \in Kinds, Undo(p, k)
  PROVE  /\ pc[p] = "rollback" /\ pc'[p] = "rollback"
         /\ k \in created[p] /\ \A j \in created[p] : UndoRank[k] <= UndoRank[j]
         /\ created'[p] = created[p] \ {k}
         /\ \A j \in Kinds, s \in Slots :
              record'[j][s] = IF j = k /\ s = slot[p] THEN None ELSE record[j][s]
<1>0. /\ created \in [Publishers -> SUBSET Kinds]
      /\ record \in [Kinds -> [Slots -> Publishers \union {None}]]
  BY DEF IInv, TypeOK
<1>1. slot[p] \in Slots
  BY Recorded DEF RecordStep
<1>2. Put(k, slot[p], None)
  BY DEF Undo
<1>3. \A j \in Kinds, s \in Slots :
        record'[j][s] = IF j = k /\ s = slot[p] THEN None ELSE record[j][s]
  BY <1>0, <1>1, <1>2, PutEffect
<1> QED
  BY <1>0, <1>3 DEF Undo, UndoNext

(* A call finds a record in place, or cannot write it.                       *)
GivesUp(p, k) == RecordExists(p, k) \/ WriteFails(p, k)

(* Under clean faults a call that cannot write a record leaves nothing of    *)
(* it behind.                                                                *)
LEMMA GivingUp ==
  ASSUME IInv, CleanFaults, NEW p \in Publishers, NEW k \in Kinds, GivesUp(p, k)
  PROVE  /\ pc[p] = k /\ pc'[p] = "rollback" /\ UNCHANGED record
         /\ created'[p] = created[p] \union Links
         /\ p \in met' \/ record[k][slot[p]] # None
<1>0. /\ pc \in [Procs -> Stages] /\ created \in [Publishers -> SUBSET Kinds] /\ p \in Procs
  BY DEF IInv, TypeOK, Procs
<1> QED
  BY <1>0 DEF GivesUp, RecordExists, WriteFails, StartRollback, Goto, Meets, CleanFaults

(* Under clean faults these are the steps that work on a record.             *)
LEMMA CleanSteps ==
  ASSUME CleanFaults, NEW p \in Publishers, NEW k \in Kinds, RecordStep(p, k)
  PROVE  WriteRecord(p, k) \/ GivesUp(p, k) \/ Undo(p, k)
BY DEF RecordStep, UndoFails, Meets, CleanFaults, GivesUp

(* The record files created holds are those of the call's own slot.          *)
LEMMA TrackedOwns ==
  ASSUME IInv, Tracked, NEW p \in Publishers, pc[p] \notin {"done", "crashed"},
         NEW k \in Files
  PROVE  k \in created[p] <=> slot[p] \in Slots /\ record[k][slot[p]] = p
BY DEF Tracked, TrackedBy, Wrote, IInv, RecordsOwned, Kinds

(* A step keeps Tracked.  A rollback may remove a link of a call that died   *)
(* under the same number, but no record file that is not its own.            *)
LEMMA TrackedStep ==
  ASSUME CleanFaults, IInv, Tracked, [Next]_vars
  PROVE  Tracked'
<1> SUFFICES ASSUME NEW p \in Publishers PROVE TrackedBy(p)'
  BY DEF Tracked, TrackedBy, Early
<1>0. TrackedBy(p) /\ p # None
  BY ConstantsAssumption DEF Tracked, TrackedBy, Early, Procs
<1>a. Files \subseteq Kinds /\ Links \subseteq Kinds /\ pc[p] \in Stages
  BY DEF Kinds, IInv, TypeOK, Procs
<1>1. ASSUME NEW q \in Publishers, NEW k \in Kinds, WriteRecord(q, k), q = p
      PROVE  TrackedBy(p)'
  <2>1. /\ pc[p] = k /\ pc'[p] = After(p, k)
        /\ created'[p] = created[p] \union ({k} \intersect Files)
        /\ \A j \in Kinds, s \in Slots :
             record'[j][s] = IF j = k /\ s = slot[p] THEN p ELSE record[j][s]
    BY <1>1, Writing
  <2>2. slot[p] \in Slots
    BY <1>1, Recorded DEF RecordStep
  <2>3. \A j \in Kinds : Wrote(p, j)' <=> Wrote(p, j) \/ j = k
    BY <2>1, <2>2 DEF Wrote
  <2>4. /\ After(p, k) \in Kinds \union {"commit"} /\ After(p, k) # "backup"
        /\ \A j \in Kinds : Position[j] >= Position[After(p, k)] => Position[j] > Position[k]
    BY AfterPlan, AfterNext DEF IInv, TypeOK
  <2>5. pc[p] \notin {"done", "crashed"}
    BY <2>1 DEF Kinds, Files, Links
  <2>6. \A j \in Files : j \in created'[p] <=> Wrote(p, j)'
    BY <1>0, <1>a, <2>1, <2>3, <2>5 DEF TrackedBy
  <2>7. pc'[p] \notin Early /\ pc'[p] # "rollback"
    BY <2>1, <2>4 DEF Early, Unnumbered, Kinds, Files, Links
  <2>8. \A j \in Kinds : Position[j] \in 1..9
    BY DEF Position, Kinds, Files, Links
  <2>9. \A j \in Kinds : Position[j] > Position[k] => Position[j] >= Position[k] /\ j # k
    BY <2>8
  <2>10. pc'[p] \in Kinds =>
           \A j \in Kinds : Position[j] >= Position[pc'[p]] => ~ Wrote(p, j)'
    BY <1>0, <2>1, <2>3, <2>4, <2>9 DEF TrackedBy
  <2> QED
    BY <2>6, <2>7, <2>10 DEF TrackedBy
<1>2. ASSUME NEW q \in Publishers, NEW k \in Kinds, GivesUp(q, k), q = p
      PROVE  TrackedBy(p)'
  <2>1. /\ pc[p] = k /\ pc'[p] = "rollback" /\ UNCHANGED record
        /\ created'[p] = created[p] \union Links
    BY <1>2, GivingUp
  <2>2. \A j \in Kinds : Wrote(p, j)' <=> Wrote(p, j)
    BY <2>1 DEF Wrote
  <2>3. \A j \in Files : j \notin Links
    BY DEF Files, Links
  <2>4. pc[p] \notin {"done", "crashed"}
    BY <2>1 DEF Kinds, Files, Links
  <2> QED
    BY <1>0, <1>a, <2>1, <2>2, <2>3, <2>4 DEF TrackedBy, Early, Unnumbered, Kinds, Files, Links
<1>3. ASSUME NEW q \in Publishers, NEW k \in Kinds, Undo(q, k), q = p
      PROVE  TrackedBy(p)'
  <2>1. /\ pc[p] = "rollback" /\ pc'[p] = "rollback"
        /\ created'[p] = created[p] \ {k}
        /\ \A j \in Kinds, s \in Slots :
             record'[j][s] = IF j = k /\ s = slot[p] THEN None ELSE record[j][s]
    BY <1>3, Undoing
  <2>2. \A j \in Kinds : Wrote(p, j)' <=> Wrote(p, j) /\ j # k
    BY <1>0, <2>1 DEF Wrote, IInv, RecordsOwned
  <2> QED
    BY <1>0, <1>a, <2>1, <2>2 DEF TrackedBy, Early, Unnumbered, Kinds, Files, Links
<1>4. ASSUME NEW q \in Publishers, NEW k \in Kinds, RecordStep(q, k), q # p
      PROVE  TrackedBy(p)'
  <2>1. pc'[p] = pc[p] /\ created'[p] = created[p] /\ slot[q] \in Slots
    BY <1>4, Recorded
  <2>2. CASE WriteRecord(q, k)
    <3>1. \A j \in Kinds : Wrote(p, j)' <=> Wrote(p, j)
      BY <1>0, <1>4, <2>2, Writing DEF Wrote
    <3> QED
      BY <1>0, <1>a, <2>1, <3>1 DEF TrackedBy
  <2>3. CASE GivesUp(q, k)
    <3>1. UNCHANGED record
      BY <2>3, GivingUp
    <3>2. \A j \in Kinds : Wrote(p, j)' <=> Wrote(p, j)
      BY <3>1 DEF Wrote
    <3> QED
      BY <1>0, <1>a, <2>1, <3>2 DEF TrackedBy
  <2>4. CASE Undo(q, k)
    <3>1. /\ pc[q] = "rollback" /\ k \in created[q]
          /\ \A j \in Kinds, s \in Slots :
               record'[j][s] = IF j = k /\ s = slot[q] THEN None ELSE record[j][s]
      BY <2>4, Undoing
    <3>2. \A j \in Kinds : Wrote(p, j)' => Wrote(p, j)
      BY <1>0, <3>1 DEF Wrote
    <3>3. k \in Files => record[k][slot[q]] = q
      BY <3>1, TrackedOwns
    <3>4. \A j \in Files : Wrote(p, j) => Wrote(p, j)'
      BY <1>0, <1>4, <1>a, <3>1, <3>3 DEF Wrote
    <3> QED
      BY <1>0, <1>a, <2>1, <3>2, <3>4 DEF TrackedBy
  <2> QED
    BY <1>4, <2>2, <2>3, <2>4, CleanSteps
<1>5. CASE Calm
  <2>1. Moves(p) /\ UNCHANGED <<record, created>>
    BY <1>5 DEF Calm
  <2>2. \A j \in Kinds : Wrote(p, j)' <=> Wrote(p, j)
    BY <2>1 DEF Wrote
  <2>3. pc'[p] \notin {"done", "crashed"} => pc[p] \notin {"done", "crashed"}
    BY <2>1 DEF Moves, Unnumbered
  <2>4. pc'[p] = "rollback" => pc[p] = "rollback"
    BY <2>1 DEF Moves, Unnumbered
  <2>5. pc'[p] \in Kinds => pc[p] = pc'[p] \/ (pc'[p] = "backup" /\ pc[p] = "branch")
    BY <2>1 DEF Moves, Unnumbered, Kinds, Files, Links
  <2>6. pc'[p] \in Early => pc[p] \in Early \/ (pc[p] = "rollback" /\ created[p] = {})
    BY <2>1 DEF Moves, Unnumbered, Early
  <2>7. pc[p] = "rollback" /\ created[p] = {} => \A j \in Kinds : ~ Wrote(p, j)
    BY <1>0 DEF TrackedBy, Kinds
  <2>8. pc'[p] \in Early => \A j \in Kinds : ~ Wrote(p, j)'
    BY <1>0, <2>2, <2>6, <2>7 DEF TrackedBy
  <2>9. "branch" \in Early
    BY DEF Early
  <2>10. pc'[p] \in Kinds =>
           \A j \in Kinds : Position[j] >= Position[pc'[p]] => ~ Wrote(p, j)'
    BY <1>0, <2>2, <2>5, <2>9 DEF TrackedBy
  <2> QED
    BY <1>0, <1>a, <2>1, <2>2, <2>3, <2>4, <2>8, <2>10 DEF TrackedBy
<1>6. CASE Recording
  <2>1. PICK q \in Publishers, k \in Kinds : RecordStep(q, k)
    BY <1>6 DEF Recording
  <2> QED
    BY <1>1, <1>2, <1>3, <1>4, <2>1, CleanSteps
<1> QED
  BY <1>5, <1>6, CallKinds DEF IInv

(* A step keeps Backed: the backup is the first record to be written and     *)
(* the last one to be unlinked.                                              *)
LEMMA BackedStep ==
  ASSUME CleanFaults, IInv, Tracked, Backed, [Next]_vars
  PROVE  Backed'
<1> SUFFICES ASSUME NEW j \in Files, NEW s \in Slots, record'[j][s] # None
             PROVE  record'["backup"][s] = record'[j][s]
  BY DEF Backed
<1>a. j \in Kinds /\ "backup" \in Files /\ "backup" \in Kinds
  BY DEF Kinds, Files
<1>1. ASSUME NEW p \in Publishers, NEW k \in Kinds, WriteRecord(p, k)
      PROVE  record'["backup"][s] = record'[j][s]
  <2>1. /\ pc[p] = k /\ record[k][slot[p]] = None
        /\ \A i \in Kinds, r \in Slots :
             record'[i][r] = IF i = k /\ r = slot[p] THEN p ELSE record[i][r]
    BY <1>1, Writing
  <2>2. CASE s = slot[p] /\ k = "backup"
    <3>1. record[j][s] = None
      BY <1>a, <2>1, <2>2 DEF Backed
    <3> QED
      BY <1>a, <2>1, <2>2, <3>1
  <2>3. CASE s = slot[p] /\ k # "backup" /\ j = k
    <3>1. "backup" \in Plan(p) /\ Position["backup"] < Position[k]
      BY <2>3 DEF Plan, Position, Kinds, Files, Links
    <3>2. record["backup"][slot[p]] = p
      BY <2>1, <3>1 DEF IInv, RecordsInOrder
    <3> QED
      BY <1>a, <2>1, <2>3, <3>2
  <2>4. CASE s # slot[p] \/ (k # "backup" /\ j # k)
    BY <1>a, <2>1, <2>4 DEF Backed
  <2> QED
    BY <2>2, <2>3, <2>4
<1>2. ASSUME NEW p \in Publishers, NEW k \in Kinds, Undo(p, k)
      PROVE  record'["backup"][s] = record'[j][s]
  <2>1. /\ pc[p] = "rollback" /\ k \in created[p]
        /\ \A i \in created[p] : UndoRank[k] <= UndoRank[i]
        /\ \A i \in Kinds, r \in Slots :
             record'[i][r] = IF i = k /\ r = slot[p] THEN None ELSE record[i][r]
    BY <1>2, Undoing
  <2>2. ASSUME s = slot[p], k = "backup" PROVE FALSE
    <3>1. record["backup"][slot[p]] = p
      BY <1>a, <2>1, <2>2, TrackedOwns
    <3>2. record[j][s] # None
      BY <1>a, <2>1
    <3>3. j \in created[p]
      BY <2>1, <2>2, <3>1, <3>2, TrackedOwns DEF Backed
    <3>4. UndoRank["backup"] <= UndoRank[j]
      BY <2>1, <2>2, <3>3
    <3>5. j = "backup"
      BY <3>4 DEF UndoRank, Files
    <3> QED
      BY <1>a, <2>1, <2>2, <3>5
  <2> QED
    BY <1>a, <2>1, <2>2 DEF Backed
<1>3. CASE Recording
  <2>1. PICK p \in Publishers, k \in Kinds : RecordStep(p, k)
    BY <1>3 DEF Recording
  <2>2. CASE GivesUp(p, k)
    BY <2>2, GivingUp DEF Backed
  <2> QED
    BY <1>1, <1>2, <2>1, <2>2, CleanSteps
<1>4. CASE Calm
  BY <1>4 DEF Calm, Backed
<1> QED
  BY <1>3, <1>4, CallKinds DEF IInv

(* A step keeps DiffFirst: the diff is written before the access record and  *)
(* unlinked after it.                                                        *)
LEMMA DiffFirstStep ==
  ASSUME CleanFaults, IInv, Tracked, DiffFirst, [Next]_vars
  PROVE  DiffFirst'
<1> SUFFICES ASSUME NEW p \in Publishers, NEW s \in Slots,
                    record'["access"][s] = p, payload'[p] = "diff"
             PROVE  record'["diff"][s] = p
  BY DEF DiffFirst
<1>a. "access" \in Files /\ "diff" \in Files /\ Files \subseteq Kinds /\ p # None
  BY ConstantsAssumption DEF Kinds, Files, Procs
<1>b. ASSUME record["access"][s] = p PROVE payload'[p] = payload[p] /\ slot[p] = s
  <2>1. slot[p] = s
    BY <1>a, <1>b DEF IInv, RecordsOwned
  <2>2. pc[p] # "start"
    BY <2>1, ConstantsAssumption DEF IInv, SlotsNamed, Unnumbered, Slots, Numbers
  <2> QED
    BY <2>1, <2>2, CallKinds, Recorded DEF IInv, Recording, Calm
<1>1. ASSUME NEW q \in Publishers, NEW k \in Kinds, WriteRecord(q, k)
      PROVE  record'["diff"][s] = p
  <2>1. /\ pc[q] = k /\ record[k][slot[q]] = None
        /\ \A i \in Kinds, r \in Slots :
             record'[i][r] = IF i = k /\ r = slot[q] THEN q ELSE record[i][r]
    BY <1>1, Writing
  <2>2. CASE s = slot[q] /\ k = "access"
    <3>1. q = p /\ payload[p] = "diff"
      BY <1>1, <1>a, <2>1, <2>2, Recorded DEF RecordStep
    <3>2. "diff" \in Plan(p) /\ Position["diff"] < Position["access"]
      BY <3>1 DEF Plan, Position
    <3>3. record["diff"][slot[p]] = p
      BY <1>a, <2>1, <2>2, <3>1, <3>2 DEF IInv, RecordsInOrder
    <3> QED
      BY <1>a, <2>1, <2>2, <3>1, <3>3
  <2>3. CASE ~ (s = slot[q] /\ k = "access")
    <3>1. record["access"][s] = p
      BY <1>a, <2>1, <2>3
    <3>2. record["diff"][s] = p
      BY <1>b, <3>1 DEF DiffFirst
    <3> QED
      BY <1>a, <2>1, <3>2
  <2> QED
    BY <2>2, <2>3
<1>2. ASSUME NEW q \in Publishers, NEW k \in Kinds, Undo(q, k)
      PROVE  record'["diff"][s] = p
  <2>1. /\ pc[q] = "rollback" /\ k \in created[q]
        /\ \A i \in created[q] : UndoRank[k] <= UndoRank[i]
        /\ \A i \in Kinds, r \in Slots :
             record'[i][r] = IF i = k /\ r = slot[q] THEN None ELSE record[i][r]
    BY <1>2, Undoing
  <2>2. record["access"][s] = p
    BY <1>a, <2>1
  <2>3. record["diff"][s] = p
    BY <1>b, <2>2 DEF DiffFirst
  <2>4. ASSUME s = slot[q], k = "diff" PROVE FALSE
    <3>1. q = p
      BY <1>a, <2>1, <2>3, <2>4, TrackedOwns
    <3>2. "access" \in created[q]
      BY <1>a, <2>1, <2>2, <2>4, <3>1, TrackedOwns
    <3> QED
      BY <2>1, <2>4, <3>2 DEF UndoRank
  <2> QED
    BY <1>a, <2>1, <2>3, <2>4
<1>3. CASE Recording
  <2>1. PICK q \in Publishers, k \in Kinds : RecordStep(q, k)
    BY <1>3 DEF Recording
  <2>2. CASE GivesUp(q, k)
    BY <1>b, <2>2, GivingUp DEF DiffFirst
  <2> QED
    BY <1>1, <1>2, <2>1, <2>2, CleanSteps
<1>4. CASE Calm
  BY <1>4, <1>b DEF Calm, DiffFirst
<1> QED
  BY <1>3, <1>4, CallKinds DEF IInv

(* A record that is in a call's way was left by a call that died under the   *)
(* same number.                                                              *)
LEMMA TakenByCrashed ==
  ASSUME IInv, Roles, Tracked, NEW p \in Publishers, NEW k \in Kinds, pc[p] = k,
         record[k][slot[p]] # None
  PROVE  \E q \in Publishers : pc[q] = "crashed" /\ slot[q] = slot[p]
<1>1. p \in Procs /\ lock = p /\ slot[p] \in Slots
  BY DEF IInv, TypeOK, LockHeld, SlotsNamed, Procs, Holding, Numbered
<1> DEFINE q == record[k][slot[p]]
<1>2. q \in Publishers /\ q \in Procs /\ slot[q] = slot[p]
  BY <1>1 DEF IInv, TypeOK, RecordsOwned, Procs
<1>3. q # p
  <2>1. Position[k] >= Position[k]
    BY DEF Position, Kinds, Files, Links
  <2> QED
    BY <1>1, <2>1 DEF Tracked, TrackedBy, Wrote
<1>4. pc[q] \notin Holding
  BY <1>1, <1>2, <1>3 DEF IInv, LockHeld
<1>5. pc[q] \notin Unnumbered \union {"failed"}
  BY <1>1, <1>2 DEF Tracked, TrackedBy, Early, Wrote
<1>6. pc[q] # "done"
  BY <1>2, OtherNumber, ConstantsAssumption DEF IInv, Numbered
<1>7. pc[q] = "crashed"
  BY <1>2, <1>4, <1>5, <1>6 DEF IInv, TypeOK, Stages, Ended, Unnumbered
<1> QED
  BY <1>2, <1>7

(* A step keeps Explained.                                                   *)
LEMMA ExplainedStep ==
  ASSUME CleanFaults, IInv, Roles, Tracked, Explained, [Next]_vars
  PROVE  Explained'
<1> SUFFICES ASSUME NEW p \in Publishers PROVE ExplainedBy(p)'
  BY DEF Explained, ExplainedBy
<1>0. ExplainedBy(p)
  BY DEF Explained, ExplainedBy
<1>1. ASSUME \E q \in Publishers : pc[q] = "crashed" /\ slot[q] = slot[p],
             slot'[p] = slot[p]
      PROVE  ExplainedBy(p)'
  BY <1>1, CrashedStays DEF ExplainedBy
<1>2. ASSUME NEW q \in Publishers, NEW k \in Kinds, RecordStep(q, k) PROVE ExplainedBy(p)'
  <2>1. slot'[p] = slot[p] /\ (q # p => pc'[p] = pc[p])
    BY <1>2, Recorded
  <2>2. met \subseteq met'
    BY <1>2 DEF RecordStep, WriteRecord, RecordExists, WriteFails, Undo, UndoFails, Meets
  <2>3. CASE pc'[p] = pc[p]
    BY <1>0, <1>1, <2>1, <2>2, <2>3 DEF ExplainedBy
  <2>4. CASE q = p /\ WriteRecord(q, k)
    <3>1. pc'[p] = After(p, k) /\ After(p, k) \in Kinds \union {"commit"}
      BY <2>4, Writing, AfterNext DEF IInv, TypeOK
    <3> QED
      BY <3>1 DEF ExplainedBy, Kinds, Files, Links
  <2>5. CASE q = p /\ GivesUp(q, k)
    <3>1. pc[p] = k /\ (p \in met' \/ record[k][slot[p]] # None)
      BY <2>5, GivingUp
    <3> QED
      BY <1>1, <2>1, <3>1, TakenByCrashed DEF ExplainedBy
  <2>6. CASE q = p /\ Undo(q, k)
    BY <2>3, <2>6, Undoing
  <2> QED
    BY <1>2, <2>1, <2>3, <2>4, <2>5, <2>6, CleanSteps
<1>3. CASE Calm
  <2>1. Moves(p) /\ met \subseteq met'
    BY <1>3 DEF Calm
  <2>2. ASSUME pc[p] \in Unnumbered, pc'[p] # pc[p], pc'[p] # "mkdir"
        PROVE  slot'[p] = None
    BY <2>2, StepEffects DEF IInv, Effects, SlotEffect, SlotsNamed
  <2>3. CASE pc'[p] \notin {"rollback", "abort", "failed"}
    BY <2>3 DEF ExplainedBy
  <2>4. CASE pc'[p] \in {"rollback", "abort", "failed"}
    <3>1. \/ pc[p] \in Unnumbered /\ pc'[p] # pc[p] /\ pc'[p] # "mkdir"
          \/ p \in met'
          \/ pc[p] \in {"rollback", "abort", "failed"}
      BY <2>1, <2>4 DEF Moves, Unnumbered
    <3>2. CASE pc[p] \in {"rollback", "abort", "failed"}
      <4>1. slot'[p] = slot[p]
        BY <1>3, <3>2 DEF Calm
      <4> QED
        BY <1>0, <1>1, <2>1, <3>2, <4>1 DEF ExplainedBy
    <3> QED
      BY <2>2, <3>1, <3>2 DEF ExplainedBy
  <2> QED
    BY <2>3, <2>4
<1> QED
  BY <1>2, <1>3, CallKinds DEF IInv, Recording

(* This part of the invariant holds under clean faults.                      *)
THEOREM CleanInvariance == ASSUME CleanFaults PROVE Spec => []CleanInv
<1>1. Init => CleanInv
  BY ConstantsAssumption
  DEF Init, CleanInv, Tracked, TrackedBy, Wrote, Backed, DiffFirst, Explained, ExplainedBy, Procs,
      Kinds, Files, Links
<1>2. IInv /\ TagInv /\ CleanInv /\ [Next]_vars => CleanInv'
  BY TrackedStep, BackedStep, DiffFirstStep, ExplainedStep DEF CleanInv, TagInv
<1> QED
  BY <1>1, <1>2, Invariance, TagInvariance, PTL DEF Spec

(* Under clean faults a call that was given a number fails only if it met a  *)
(* fault itself, or shares its number with a call that died: failed calls    *)
(* leave nothing behind.                                                     *)
THEOREM FailuresAreExplained == ASSUME CleanFaults PROVE Spec => []FailuresExplained
<1>1. CleanInv => FailuresExplained
  BY DEF CleanInv, Explained, ExplainedBy, FailuresExplained
<1> QED
  BY <1>1, CleanInvariance, PTL

(* Under clean faults a revision a call has returned consists of that        *)
(* call's record files and of no others.                                     *)
THEOREM SuccessIsFull == ASSUME CleanFaults PROVE Spec => []FullyPublished
<1>1. IInv /\ PlanInv /\ CleanInv => FullyPublished
  <2> SUFFICES ASSUME IInv, PlanInv, CleanInv, NEW p \in Publishers, pc[p] = "done",
                      NEW k \in Files
               PROVE  record[k][slot[p]] = IF k \in Plan(p) THEN p ELSE None
    BY DEF FullyPublished
  <2>1. slot[p] \in Slots /\ p \in Procs /\ k \in Kinds /\ "backup" \in Kinds
    BY DEF IInv, TypeOK, SlotsNamed, Procs, Kinds, Files
  <2>2. \A j \in Plan(p) : record[j][slot[p]] = p
    BY DEF IInv, RecordsInOrder, Plan, Position
  <2>3. record["backup"][slot[p]] = p
    BY <2>2 DEF Plan
  <2>4. ASSUME record[k][slot[p]] # None PROVE k \in Plan(p)
    <3>1. record[k][slot[p]] = p
      BY <2>1, <2>3, <2>4 DEF CleanInv, Backed
    <3> QED
      BY <2>1, <3>1 DEF PlanInv, RecordsPlanned
  <2> QED
    BY <2>2, <2>4
<1> QED
  BY <1>1, Invariance, PlanInvariance, CleanInvariance, PTL

(* Under clean faults every listed revision renders to what its writer       *)
(* represented, whatever calls are in the middle of publishing, rolling      *)
(* back or have died.                                                        *)
THEOREM ListedMeansComplete == ASSUME CleanFaults PROVE Spec => []VisibleRenders
<1>1. IInv /\ PlanInv /\ CleanInv => VisibleRenders
  <2> SUFFICES ASSUME IInv, PlanInv, CleanInv, NEW s \in Slots, Visible(s)
               PROVE  Render(s) = <<"represented", record["access"][s]>>
    BY DEF VisibleRenders
  <2> DEFINE p == record["access"][s]
  <2>1. p \in Publishers /\ {"backup", "diff", "access"} \subseteq Files /\ "diff" \in Kinds
    BY DEF Visible, IInv, TypeOK, Kinds, Files
  <2>2. record["backup"][s] = p
    BY <2>1 DEF CleanInv, Backed, Visible
  <2>3. record["diff"][s] \in {None, p}
    BY <2>1, <2>2 DEF CleanInv, Backed
  <2>4. record["diff"][s] = p => payload[p] = "diff"
    BY <2>1 DEF PlanInv, RecordsPlanned, Plan
  <2>5. payload[p] = "diff" => record["diff"][s] = p
    BY <2>1 DEF CleanInv, DiffFirst
  <2>6. p # None
    BY DEF Visible
  <2> QED
    BY <2>2, <2>3, <2>4, <2>5, <2>6 DEF Render, Content, Patched
<1> QED
  BY <1>1, Invariance, PlanInvariance, CleanInvariance, PTL

-----------------------------------------------------------------------------
(* Access records have no gaps: the number before one with an access record  *)
(* has one too, and so has the number before the one a call works under.     *)
Chain ==
  /\ \A name \in Names, n \in Numbers :
       n > 1 /\ record["access"][<<name, n>>] # None => record["access"][<<name, n - 1>>] # None
  /\ \A p \in Publishers : pc[p] \in Numbered /\ slot[p][2] > 1 =>
       record["access"][<<NameOf[p], slot[p][2] - 1>>] # None

(* A call is given the number that follows an access record.                 *)
LEMMA AllocateChain ==
  ASSUME IInv, [Next]_vars, NEW p \in Publishers, slot'[p] # slot[p], slot'[p][2] > 1
  PROVE  record["access"][<<NameOf[p], slot'[p][2] - 1>>] # None
<1>0. slot \in [Procs -> Slots \union {None}] /\ p \in Procs /\ NameOf[p] \in Names
  BY ConstantsAssumption DEF IInv, TypeOK, Procs
<1>1. ~ Recording
  BY Recorded DEF Recording
<1>2. ASSUME NEW q \in Publishers, Allocate(q)
      PROVE  record["access"][<<NameOf[p], slot'[p][2] - 1>>] # None
  <2>1. p = q
    BY <1>0, <1>2 DEF Allocate
  <2>2. PICK top \in 0..MaxRevision :
          /\ top > 0 => record["access"][<<NameOf[p], top>>] # None
          /\ IF top < MaxRevision
             THEN slot' = [slot EXCEPT ![p] = <<NameOf[p], top + 1>>]
             ELSE slot' = slot
    BY <1>2, <2>1 DEF Allocate, IsHighest
  <2>3. slot'[p] = <<NameOf[p], top + 1>>
    BY <1>0, <2>2
  <2>4. slot'[p][2] = top + 1 /\ top + 1 - 1 = top /\ top > 0
    BY <2>3, <2>2, ConstantsAssumption
  <2> QED
    BY <2>2, <2>4
<1>3. ASSUME NEW q \in Publishers,
             \/ Prepare(q) \/ MakeDirectory(q) \/ WriteBranch(q) \/ UndoEnds(q)
             \/ AllocateFails(q) \/ IndexFails(q)
      PROVE  slot' = slot
  BY <1>3 DEF Prepare, MakeDirectory, WriteBranch, UndoEnds, AllocateFails, IndexFails, local
<1>4. ASSUME NEW q \in Procs, CallStep(q) \/ OpenFails(q) \/ Crash(q) PROVE slot' = slot
  BY <1>4 DEF CallStep, Open, Acquire, Release, OpenFails, Crash, local
<1>5. ASSUME NEW t \in Taggers, TagStep(t) \/ TagFails(t) PROVE slot'[p] = slot[p]
  BY <1>0, <1>5, ConstantsAssumption DEF TagStep, WriteTag, TagFails, Select, local
<1>6. CASE UNCHANGED vars
  BY <1>6 DEF vars
<1> QED
  BY <1>1, <1>2, <1>3, <1>4, <1>5, <1>6
  DEF Next, PublishStep, Fault, Recording, RecordStep

(* A step keeps Chain: an access record is removed only by the call that     *)
(* holds the lock, and its number is the highest.                            *)
LEMMA ChainStep ==
  ASSUME IInv, Chain, [Next]_vars
  PROVE  Chain'
<1>1. RecordEffect /\ SlotEffect /\ PcEffect
  BY StepEffects DEF IInv, Effects
<1>2. \A name \in Names, n \in Numbers :
        <<name, n>> \in Slots /\ (n > 1 => n - 1 \in Numbers /\ <<name, n - 1>> \in Slots)
  BY ConstantsAssumption DEF Slots, Numbers
<1>3. "access" \in Kinds /\ None \notin Publishers
  BY ConstantsAssumption DEF Kinds, Files, Procs
<1>4. ASSUME NEW name \in Names, NEW n \in Numbers, n > 1,
             record'["access"][<<name, n>>] # None
      PROVE  record'["access"][<<name, n - 1>>] # None
  <2>1. CASE UNCHANGED record
    BY <1>4, <2>1 DEF Chain
  <2>2. CASE ~ UNCHANGED record
    <3>1. PICK p \in Publishers, k \in Kinds, v \in Publishers \union {None} :
            /\ slot[p] \in Slots
            /\ \/ v = p /\ pc[p] = k /\ record[k][slot[p]] = None
               \/ v = None /\ pc[p] = "rollback"
            /\ \A j \in Kinds, s \in Slots :
                 record'[j][s] = IF j = k /\ s = slot[p] THEN v ELSE record[j][s]
      BY <1>1, <2>2 DEF RecordEffect
    <3>2. pc[p] \in Numbered /\ slot[p] = <<NameOf[p], slot[p][2]>> /\ slot[p][2] \in Numbers
      BY <3>1, ConstantsAssumption DEF IInv, SlotsNamed, Numbered, Slots, Numbers
    <3>3. record["access"][<<name, n - 1>>] # None
      <4>1. CASE record["access"][<<name, n>>] # None
        BY <1>4, <4>1 DEF Chain
      <4>2. CASE record["access"][<<name, n>>] = None
        <5>1. <<name, n>> = slot[p]
          BY <1>2, <1>3, <1>4, <3>1, <4>2
        <5>2. name = NameOf[p] /\ n = slot[p][2]
          BY <3>2, <5>1
        <5> QED
          BY <1>4, <3>2, <5>2 DEF Chain
      <4> QED
        BY <4>1, <4>2
    <3>4. ASSUME slot[p] = <<name, n - 1>>, v = None, k = "access" PROVE FALSE
      <4>1. NameOf[p] = name /\ slot[p][2] = n - 1 /\ n > slot[p][2]
        BY <3>2, <3>4 DEF Numbers
      <4>2. record["access"][<<name, n>>] = None
        BY <3>2, <4>1 DEF IInv, NumberFresh
      <4> QED
        BY <1>2, <1>4, <3>1, <3>4, <4>2
    <3>5. p # None
      BY <1>3
    <3> QED
      BY <1>2, <1>3, <1>4, <3>1, <3>3, <3>4, <3>5
  <2> QED
    BY <2>1, <2>2
<1>5. ASSUME NEW p \in Publishers, pc'[p] \in Numbered, slot'[p][2] > 1
      PROVE  record'["access"][<<NameOf[p], slot'[p][2] - 1>>] # None
  <2>1. CASE slot'[p] # slot[p]
    <3>1. UNCHANGED record
      BY <1>1, <2>1 DEF SlotEffect
    <3> QED
      BY <1>5, <2>1, <3>1, AllocateChain
  <2>2. CASE slot'[p] = slot[p]
    <3>1. pc[p] \in Numbered
      BY <1>1, <1>5, <2>2 DEF PcEffect, IInv, SlotsNamed, Unnumbered
    <3>2. record["access"][<<NameOf[p], slot[p][2] - 1>>] # None
      BY <1>5, <2>2, <3>1 DEF Chain
    <3>3. /\ slot[p] = <<NameOf[p], slot[p][2]>> /\ slot[p][2] \in Numbers
          /\ NameOf[p] \in Names /\ lock = p
      BY <3>1, ConstantsAssumption
      DEF IInv, TypeOK, LockHeld, Holding, Procs, SlotsNamed, Numbered, Slots, Numbers
    <3>4. <<NameOf[p], slot[p][2] - 1>> # slot[p]
      BY <3>3 DEF Numbers
    <3>5. <<NameOf[p], slot[p][2] - 1>> \in Slots
      BY <1>2, <1>5, <2>2, <3>3
    <3>6. record'["access"][<<NameOf[p], slot[p][2] - 1>>]
            = record["access"][<<NameOf[p], slot[p][2] - 1>>]
      BY <1>1, <1>3, <3>3, <3>4, <3>5 DEF RecordEffect
    <3> QED
      BY <2>2, <3>2, <3>6
  <2> QED
    BY <2>1, <2>2
<1> QED
  BY <1>4, <1>5 DEF Chain

(* Access records have no gaps, whatever fails.                              *)
THEOREM ChainInvariance == Spec => []Chain
<1>1. Init => Chain
  BY ConstantsAssumption
  DEF Init, Chain, Procs, Kinds, Files, Links, Slots, Numbers, Numbered
<1>2. IInv /\ Chain /\ [Next]_vars => Chain'
  BY ChainStep
<1> QED
  BY <1>1, <1>2, Invariance, PTL DEF Spec

(* Under clean faults the listed revisions of a file are numbered without    *)
(* gaps.                                                                     *)
THEOREM NumbersHaveNoGaps == ASSUME CleanFaults PROVE Spec => []NoGaps
<1>1. IInv /\ Chain /\ CleanInv => NoGaps
  <2> SUFFICES ASSUME IInv, Chain, CleanInv, NEW name \in Names, NEW n \in Numbers, n > 1,
                      Visible(<<name, n>>)
               PROVE  Visible(<<name, n - 1>>)
    BY DEF NoGaps
  <2>1. record["access"][<<name, n - 1>>] # None
    BY DEF Visible, Chain
  <2>2. <<name, n - 1>> \in Slots /\ "access" \in Files
    BY ConstantsAssumption DEF Slots, Numbers, Files
  <2>3. record["backup"][<<name, n - 1>>] = record["access"][<<name, n - 1>>]
    BY <2>1, <2>2 DEF CleanInv, Backed
  <2> QED
    BY <2>1, <2>3 DEF Visible
<1> QED
  BY <1>1, Invariance, ChainInvariance, CleanInvariance, PTL

-----------------------------------------------------------------------------
(* The calls that have returned.                                             *)
Reported == {p \in Publishers : pc[p] = "done"}

(* One write or unlink of the lock's holder appends its revision to the      *)
(* history, withdraws it, or changes nothing there.                          *)
LEMMA ListedStep ==
  ASSUME IInv, NEW p \in Publishers, NEW k \in Kinds, NEW v, UNCHANGED Reported,
         lock = p, slot[p] \in Slots,
         \/ v = p /\ pc[p] = k /\ record[k][slot[p]] = None
         \/ v = None /\ pc[p] = "rollback",
         \A j \in Kinds, s \in Slots :
           record'[j][s] = IF j = k /\ s = slot[p] THEN v ELSE record[j][s]
  PROVE  UNCHANGED Listed \/ Log!LogNext
<1> DEFINE n == slot[p][2]
<1>1. /\ slot[p] = <<NameOf[p], n>> /\ n \in Numbers /\ pc[p] \in Numbered
      /\ p # None /\ pc[p] # "done" /\ p \in Procs
  BY ConstantsAssumption DEF IInv, SlotsNamed, Numbered, Slots, Numbers, Procs, Kinds, Files, Links
<1>2. /\ \A m \in Numbers : m > n => record["access"][<<NameOf[p], m>>] = None
      /\ record["access"][slot[p]] \in {None, p}
      /\ pc[p] \in Unpublished => record["access"][slot[p]] = None
  BY <1>1 DEF IInv, NumberFresh
<1>a. "access" \in Kinds /\ "backup" \in Kinds /\ Log!Entries = Slots
  BY DEF Kinds, Files, Slots, Numbers, Log!Entries
<1>3. \A s \in Slots : s # slot[p] => (Visible(s)' <=> Visible(s))
                                      /\ record'["access"][s] = record["access"][s]
  BY <1>a DEF Visible
<1>4. Listed' = [Listed EXCEPT ![slot[p]] = Listed'[slot[p]]]
  <2>1. \A s \in Slots : s # slot[p] => Listed'[s] = Listed[s]
    BY <1>3 DEF Listed
  <2> QED
    BY <2>1 DEF Listed
<1>5. p \notin Reported
  BY <1>1 DEF Reported
<1>6. CASE Listed'[slot[p]] = Listed[slot[p]]
  <2>1. Listed = [Listed EXCEPT ![slot[p]] = Listed[slot[p]]]
    BY DEF Listed
  <2> QED
    BY <1>4, <1>6, <2>1
<1>7. CASE Listed'[slot[p]] # Listed[slot[p]] /\ v = p
  <2>1. k \in {"access", "backup"}
    BY <1>a, <1>7 DEF Listed, Visible
  <2>2. pc[p] = k /\ record["access"][slot[p]] = None
    BY <1>1, <1>2, <1>7, <2>1 DEF Unpublished
  <2>3. k = "access"
    BY <1>a, <1>7, <2>1, <2>2 DEF Listed, Visible
  <2>4. record["backup"][slot[p]] = p
    BY <2>2, <2>3 DEF IInv, RecordsInOrder, Plan, Position, Kinds, Files
  <2>5. Listed'[slot[p]] = p
    BY <1>1, <1>7, <1>a, <2>3, <2>4 DEF Listed, Visible
  <2>6. \A s \in Slots : Listed[s] # p
    BY <1>1, <1>a, <2>2 DEF Listed, IInv, RecordsOwned
  <2>7. \A m \in Numbers : m >= n => Listed[<<NameOf[p], m>>] = None
    <3>1. SUFFICES ASSUME NEW m \in Numbers, m >= n PROVE Listed[<<NameOf[p], m>>] = None
      OBVIOUS
    <3>2. <<NameOf[p], m>> \in Slots
      BY ConstantsAssumption DEF Slots
    <3>3. record["access"][<<NameOf[p], m>>] = None
      BY <1>1, <1>2, <2>2, <3>1 DEF Numbers
    <3> QED
      BY <3>2, <3>3 DEF Listed, Visible
  <2>8. Log!Append(p, n)
    BY <1>1, <1>4, <1>5, <1>a, <2>5, <2>6, <2>7
    DEF Log!Append, Log!Free, Reported, Numbers
  <2> QED
    BY <1>1, <2>8 DEF Log!LogNext, Numbers
<1>8. CASE Listed'[slot[p]] # Listed[slot[p]] /\ v = None
  <2>1. k \in {"access", "backup"}
    BY <1>a, <1>8 DEF Listed, Visible
  <2>2. Listed'[slot[p]] = None
    BY <1>a, <1>8, <2>1 DEF Listed, Visible
  <2>3. Listed[slot[p]] = p
    BY <1>2, <1>8, <2>2 DEF Listed, Visible
  <2>4. \A m \in Numbers : m >= n + 1 => Listed[<<NameOf[p], m>>] = None
    <3>1. SUFFICES ASSUME NEW m \in Numbers, m >= n + 1 PROVE Listed[<<NameOf[p], m>>] = None
      OBVIOUS
    <3>2. <<NameOf[p], m>> \in Slots
      BY ConstantsAssumption DEF Slots
    <3>3. record["access"][<<NameOf[p], m>>] = None
      BY <1>1, <1>2, <3>1 DEF Numbers
    <3> QED
      BY <3>2, <3>3 DEF Listed, Visible
  <2>5. Log!Withdraw(p, n)
    BY <1>1, <1>4, <1>5, <2>2, <2>3, <2>4 DEF Log!Withdraw, Log!Free, Reported, Numbers
  <2> QED
    BY <1>1, <2>5 DEF Log!LogNext, Numbers
<1> QED
  BY <1>6, <1>7, <1>8

(* A calm step lets one call return, whose revision is listed, or changes    *)
(* neither the history nor who has returned.                                 *)
LEMMA ReportStep ==
  ASSUME IInv, Calm
  PROVE  UNCHANGED <<Listed, Reported>> \/ Log!LogNext
<1>1. UNCHANGED Listed
  BY DEF Calm, Listed, Visible
<1>2. \A q \in Publishers : pc[q] = "done" => pc'[q] = "done"
  BY DEF Calm, Moves, Unnumbered
<1>3. ASSUME NEW p \in Publishers, pc[p] # "done", pc'[p] = "done"
      PROVE  Log!LogNext
  <2>1. pc[p] = "commit"
    BY <1>3 DEF Calm, Moves, Unnumbered
  <2>2. lock = p /\ slot[p] \in Slots
    BY <2>1 DEF IInv, TypeOK, LockHeld, SlotsNamed, Numbered, Holding, Procs
  <2>3. \A q \in Publishers : q # p => pc[q] # "commit"
    BY <2>2 DEF IInv, LockHeld, Holding, Procs
  <2>4. \A q \in Publishers : pc'[q] = "done" <=> pc[q] = "done" \/ q = p
    BY <1>2, <1>3, <2>3 DEF Calm, Moves, Unnumbered
  <2>5. record["access"][slot[p]] = p /\ record["backup"][slot[p]] = p
    BY <2>1 DEF IInv, RecordsInOrder, Plan, Position
  <2>6. PICK n \in Numbers : slot[p] = <<NameOf[p], n>>
    BY <2>2, ConstantsAssumption DEF IInv, SlotsNamed, Slots, Numbers
  <2>7. Listed[slot[p]] = p
    BY <2>2, <2>5, ConstantsAssumption DEF Listed, Visible, Procs
  <2>8. Log!Report(p, n)
    <3>1. {q \in Publishers : pc'[q] = "done"} = {q \in Publishers : pc[q] = "done"} \union {p}
      BY <2>4
    <3> QED
      BY <1>1, <1>3, <2>6, <2>7, <3>1 DEF Log!Report
  <2> QED
    BY <2>8 DEF Log!LogNext, Numbers
<1>4. CASE \A p \in Publishers : pc'[p] = "done" => pc[p] = "done"
  BY <1>1, <1>2, <1>4 DEF Reported
<1> QED
  BY <1>3, <1>4

(* The repository implements the append-only log, whatever fails: every      *)
(* step of the code is one step of RevisionLog or none.                      *)
THEOREM ImplementsTheLog == Spec => ImplementsLog
<1>1. Init => Log!LogInit
  BY ConstantsAssumption
  DEF Init, Log!LogInit, Log!Entries, Listed, Visible, Procs, Kinds, Files, Slots, Numbers
<1>2. IInv /\ [Next]_vars => [Log!LogNext]_(Log!LogVars)
  <2> SUFFICES ASSUME IInv, [Next]_vars PROVE UNCHANGED <<Listed, Reported>> \/ Log!LogNext
    BY DEF Log!LogVars, Reported
  <2>1. CASE Calm
    BY <2>1, ReportStep
  <2>2. CASE Recording
    <3>1. PICK q \in Publishers, k \in Kinds : RecordStep(q, k)
      BY <2>2 DEF Recording
    <3>2. RecordEffect
      BY StepEffects DEF IInv, Effects
    <3>3. /\ \A p \in Publishers : p # q => pc'[p] = pc[p]
          /\ pc[q] \in Kinds \union {"rollback"}
      BY <3>1, Recorded
    <3>4. pc[q] # "done" /\ pc'[q] # "done"
      <4>1. pc[q] # "done"
        BY <3>3 DEF Kinds, Files, Links
      <4>2. After(q, k) # "done"
        BY AfterNext DEF IInv, TypeOK, Kinds, Files, Links
      <4>3. q \in Procs /\ pc \in [Procs -> Stages]
        BY DEF Procs, IInv, TypeOK
      <4> QED
        BY <3>1, <4>1, <4>2, <4>3
        DEF RecordStep, WriteRecord, RecordExists, WriteFails, StartRollback, Undo, UndoFails, Goto
    <3>5. UNCHANGED Reported
      BY <3>3, <3>4 DEF Reported
    <3>6. CASE UNCHANGED record
      BY <3>5, <3>6 DEF Listed, Visible
    <3>7. CASE ~ UNCHANGED record
      <4>1. PICK p \in Publishers, j \in Kinds, v \in Publishers \union {None} :
              /\ lock = p
              /\ slot[p] \in Slots
              /\ \/ v = p /\ pc[p] = j /\ record[j][slot[p]] = None
                 \/ v = None /\ pc[p] = "rollback"
              /\ \A i \in Kinds, s \in Slots :
                   record'[i][s] = IF i = j /\ s = slot[p] THEN v ELSE record[i][s]
        BY <3>2, <3>7 DEF RecordEffect
      <4> QED
        BY <3>5, <4>1, ListedStep
    <3> QED
      BY <3>6, <3>7
  <2> QED
    BY <2>1, <2>2, CallKinds DEF IInv
<1> QED
  BY <1>1, <1>2, Invariance, PTL DEF Spec, ImplementsLog, Log!Spec

(* What the log promises, the repository keeps, whatever fails: the revision *)
(* of a call that has returned stays listed, as its own, and a revision is   *)
(* listed only above all others of its file.                                 *)
LogKept ==
  [][/\ \A s \in Slots : Listed[s] \in Reported => Listed'[s] = Listed[s]
     /\ \A s \in Slots, n \in Numbers :
          Listed[s] = None /\ Listed'[s] # None /\ n > s[2] => Listed[<<s[1], n>>] = None]_vars

(* A call that has returned never loses its place in the list.               *)
THEOREM TheLogIsKept == Spec => LogKept
<1>1. IInv /\ [Log!LogNext]_(Log!LogVars) =>
        [/\ \A s \in Slots : Listed[s] \in Reported => Listed'[s] = Listed[s]
         /\ \A s \in Slots, n \in Numbers :
              Listed[s] = None /\ Listed'[s] # None /\ n > s[2] => Listed[<<s[1], n>>] = None]_vars
  <2> SUFFICES ASSUME IInv, [Log!LogNext]_(Log!LogVars)
               PROVE  /\ \A s \in Slots : Listed[s] \in Reported => Listed'[s] = Listed[s]
                      /\ \A s \in Slots, n \in Numbers :
                           Listed[s] = None /\ Listed'[s] # None /\ n > s[2]
                             => Listed[<<s[1], n>>] = None
    OBVIOUS
  <2>1. CASE UNCHANGED Log!LogVars
    BY <2>1 DEF Log!LogVars
  <2>2. CASE Log!LogNext
    <3>1. PICK p \in Publishers, n \in Numbers :
            Log!Append(p, n) \/ Log!Withdraw(p, n) \/ Log!Report(p, n)
      BY <2>2 DEF Log!LogNext, Numbers
    <3>2. None \notin Reported /\ DOMAIN Listed = Slots /\ NameOf[p] \in Names
      BY ConstantsAssumption DEF Reported, Listed, Procs
    <3> DEFINE place == <<NameOf[p], n>>
    <3>3. CASE Log!Append(p, n)
      <4>1. /\ \A m \in Numbers : m >= n => Listed[<<NameOf[p], m>>] = None
            /\ Listed' = [Listed EXCEPT ![place] = p]
        BY <3>3 DEF Log!Append, Log!Free, Numbers
      <4>2. Numbers \subseteq Int
        BY DEF Numbers
      <4>3. Listed[place] = None
        BY <4>1, <4>2
      <4> HIDE DEF Listed
      <4>4. \A s \in Slots : s # place => Listed'[s] = Listed[s]
        BY <3>2, <4>1
      <4>5. place[1] = NameOf[p] /\ place[2] = n
        OBVIOUS
      <4> HIDE DEF place
      <4> QED BY <3>2, <4>1, <4>2, <4>3, <4>4, <4>5
    <3>4. CASE Log!Withdraw(p, n)
      <4>1. p \notin Reported /\ Listed[place] = p /\ Listed' = [Listed EXCEPT ![place] = None]
        BY <3>4 DEF Log!Withdraw, Reported
      <4> HIDE DEF place
      <4>2. \A s \in Slots : Listed'[s] = Listed[s] \/ (s = place /\ Listed'[s] = None)
        BY <3>2, <4>1
      <4> QED BY <4>1, <4>2
    <3>5. CASE Log!Report(p, n)
      BY <3>5 DEF Log!Report
    <3> QED BY <3>1, <3>3, <3>4, <3>5
  <2> QED BY <2>1, <2>2
<1> QED
  BY <1>1, Invariance, ImplementsTheLog, PTL DEF ImplementsLog, Log!Spec, LogKept
===============================================================================
