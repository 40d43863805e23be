-------------------------- MODULE PublicationProofs --------------------------
(* Proofs about Publication: type correctness, and that what a successful    *)
(* call has published stays, with growing numbers, whatever fails.          *)
EXTENDS Publication, TLAPS

(* Writing or unlinking one file keeps the type of record.                  *)
LEMMA PutType ==
  ASSUME record \in [Kinds -> [Slots -> Publishers \union {None}]],
         NEW k \in Kinds, NEW s, NEW v \in Publishers \union {None}, Put(k, s, v)
  PROVE  record' \in [Kinds -> [Slots -> Publishers \union {None}]]
BY DEF Put

(* Every variable keeps its type.                                           *)
LEMMA TypeStep == TypeOK /\ [Next]_vars => TypeOK'
<1> SUFFICES ASSUME TypeOK, [Next]_vars PROVE TypeOK'
  OBVIOUS
<1> USE ConstantsAssumption
    DEF TypeOK, Procs, Goto, Meets, files, local, Stages, Holding, Ended, Kinds, Files, Links
<1>1. ASSUME NEW q \in Procs, CallStep(q) PROVE TypeOK'
  BY <1>1 DEF CallStep, Open, Acquire, Release
<1>2. ASSUME NEW p \in Publishers, Prepare(p) PROVE TypeOK'
  BY <1>2 DEF Prepare
<1>3. ASSUME NEW p \in Publishers, Allocate(p) PROVE TypeOK'
  <2>1. PICK top \in 0..MaxRevision :
          IF top < MaxRevision
          THEN /\ slot' = [slot EXCEPT ![p] = <<NameOf[p], top + 1>>]
               /\ Goto(p, "allocate", "mkdir")
          ELSE /\ slot' = slot
               /\ Goto(p, "allocate", "abort")
    BY <1>3 DEF Allocate
  <2>2. top < MaxRevision => <<NameOf[p], top + 1>> \in Slots
    BY DEF Slots, Numbers
  <2>3. slot' \in [Procs -> Slots \union {None}]
    BY <2>1, <2>2
  <2>4. pc' \in [Procs -> Stages]
    BY <2>1
  <2> QED
    BY <1>3, <2>3, <2>4 DEF Allocate
<1>4. ASSUME NEW p \in Publishers, MakeDirectory(p) \/ WriteBranch(p) \/ UndoEnds(p)
      PROVE  TypeOK'
  BY <1>4 DEF MakeDirectory, WriteBranch, UndoEnds
<1>5. ASSUME NEW p \in Publishers, NEW k \in Kinds, WriteRecord(p, k) PROVE TypeOK'
  BY <1>5 DEF WriteRecord, Put, After
<1>6. ASSUME NEW p \in Publishers, NEW k \in Kinds, RecordExists(p, k) \/ WriteFails(p, k)
      PROVE  TypeOK'
  <2>1. record' \in [Kinds -> [Slots -> Publishers \union {None}]]
    BY <1>6, PutType DEF RecordExists, WriteFails
  <2> QED
    BY <1>6, <2>1 DEF RecordExists, WriteFails, StartRollback
<1>7. ASSUME NEW p \in Publishers, NEW k \in Kinds, Undo(p, k) \/ UndoFails(p, k)
      PROVE  TypeOK'
  <2>1. record' \in [Kinds -> [Slots -> Publishers \union {None}]]
    BY <1>7, PutType DEF Undo, UndoFails
  <2> QED
    BY <1>7, <2>1 DEF Undo, UndoFails, UndoNext
<1>8. ASSUME NEW t \in Taggers, TagStep(t) \/ TagFails(t) PROVE TypeOK'
  BY <1>8 DEF TagStep, WriteTag, TagFails, Select, Visible
<1>9. ASSUME NEW q \in Procs, OpenFails(q) \/ Crash(q) PROVE TypeOK'
  BY <1>9 DEF OpenFails, Crash
<1>10. ASSUME NEW p \in Publishers, AllocateFails(p) \/ IndexFails(p) PROVE TypeOK'
  BY <1>10 DEF AllocateFails, IndexFails
<1>11. CASE UNCHANGED vars
  BY <1>11 DEF vars
<1> HIDE ConstantsAssumption
    DEF TypeOK, Goto, Meets, files, local, Stages, Holding, Ended, Kinds, Files, Links
<1> QED
  BY <1>1, <1>2, <1>3, <1>4, <1>5, <1>6, <1>7, <1>8, <1>9, <1>10, <1>11
  DEF Next, PublishStep, Fault, Procs

-----------------------------------------------------------------------------
(* The record that follows kind k in the order of publish: no record of the  *)
(* plan lies between the two.                                               *)
LEMMA AfterNext ==
  ASSUME NEW p \in Publishers, NEW k \in Kinds, payload \in [Publishers -> Payloads]
  PROVE  /\ After(p, k) \in Kinds \union {"commit"}
         /\ After(p, k) \in Unpublished => k \in {"backup", "diff"}
         /\ \A j \in Plan(p) :
              Position[j] < Position[After(p, k)] => j = k \/ Position[j] < Position[k]
<1> USE DEF Kinds, Files, Links, Unpublished, Plan, Position
<1>1. k = "backup" => After(p, k) = IF payload[p] = "diff" THEN "diff" ELSE "access"
  BY DEF After
<1>2. k = "diff" => After(p, k) = "access"
  BY DEF After
<1>3. k = "access" => After(p, k) = IF p \in Foreign THEN "actor" ELSE "linkb"
  BY DEF After
<1>4. k = "actor" => After(p, k) = "linkb"
  BY DEF After
<1>5. k = "linkb" => After(p, k) = IF payload[p] = "diff" THEN "linkd" ELSE "linka"
  BY DEF After
<1>6. k = "linkd" => After(p, k) = "linka"
  BY DEF After
<1>7. k = "linka" => After(p, k) = "commit"
  BY DEF After
<1> QED
  BY <1>1, <1>2, <1>3, <1>4, <1>5, <1>6, <1>7

-----------------------------------------------------------------------------
(* The lock is held by exactly the process in the critical section.         *)
LEMMA LockStep == TypeOK /\ LockHeld /\ [Next]_vars => LockHeld'
<1> SUFFICES ASSUME TypeOK, LockHeld, [Next]_vars PROVE LockHeld'
  OBVIOUS
<1> USE ConstantsAssumption
    DEF TypeOK, LockHeld, Procs, Goto, Holding, Ended, Kinds, Files, Links
<1>1. ASSUME NEW q \in Procs, CallStep(q) PROVE LockHeld'
  BY <1>1 DEF CallStep, Open, Acquire, Release
<1>2. ASSUME NEW p \in Publishers, Prepare(p) PROVE LockHeld'
  BY <1>2 DEF Prepare
<1>3. ASSUME NEW p \in Publishers, Allocate(p) PROVE LockHeld'
  BY <1>3 DEF Allocate
<1>4. ASSUME NEW p \in Publishers, MakeDirectory(p) \/ WriteBranch(p) \/ UndoEnds(p)
      PROVE  LockHeld'
  BY <1>4 DEF MakeDirectory, WriteBranch, UndoEnds
<1>5. ASSUME NEW p \in Publishers, NEW k \in Kinds, WriteRecord(p, k) PROVE LockHeld'
  BY <1>5, AfterNext DEF WriteRecord
<1>6. ASSUME NEW p \in Publishers, NEW k \in Kinds, RecordExists(p, k) \/ WriteFails(p, k)
      PROVE  LockHeld'
  BY <1>6 DEF RecordExists, WriteFails, StartRollback
<1>7. ASSUME NEW p \in Publishers, NEW k \in Kinds, Undo(p, k) \/ UndoFails(p, k)
      PROVE  LockHeld'
  BY <1>7 DEF Undo, UndoFails
<1>8. ASSUME NEW t \in Taggers, TagStep(t) \/ TagFails(t) PROVE LockHeld'
  BY <1>8 DEF TagStep, WriteTag, TagFails, Select
<1>9. ASSUME NEW q \in Procs, OpenFails(q) \/ Crash(q) PROVE LockHeld'
  BY <1>9 DEF OpenFails, Crash
<1>10. ASSUME NEW p \in Publishers, AllocateFails(p) \/ IndexFails(p) PROVE LockHeld'
  BY <1>10 DEF AllocateFails, IndexFails
<1>11. CASE UNCHANGED vars
  BY <1>11 DEF vars
<1> HIDE ConstantsAssumption DEF TypeOK, LockHeld, Goto, Holding, Ended, Kinds, Files, Links
<1> QED
  BY <1>1, <1>2, <1>3, <1>4, <1>5, <1>6, <1>7, <1>8, <1>9, <1>10, <1>11
  DEF Next, PublishStep, Fault, Procs

-----------------------------------------------------------------------------
(* A publisher is given a number once, under its own name.                  *)
LEMMA NamedStep == TypeOK /\ SlotsNamed /\ [Next]_vars => SlotsNamed'
<1> SUFFICES ASSUME TypeOK, SlotsNamed, [Next]_vars PROVE SlotsNamed'
  OBVIOUS
<1> USE ConstantsAssumption
    DEF SlotsNamed, Procs, Goto, Numbered, Unnumbered, Kinds, Files, Links
<1>0. pc \in [Procs -> Stages] /\ slot \in [Procs -> Slots \union {None}]
  BY DEF TypeOK
<1>1. ASSUME NEW q \in Procs, CallStep(q) PROVE SlotsNamed'
  BY <1>0, <1>1 DEF CallStep, Open, Acquire, Release, local
<1>2. ASSUME NEW p \in Publishers, Prepare(p) PROVE SlotsNamed'
  BY <1>0, <1>2 DEF Prepare
<1>3. ASSUME NEW p \in Publishers, Allocate(p) PROVE SlotsNamed'
  <2>1. PICK top \in 0..MaxRevision :
          IF top < MaxRevision
          THEN /\ slot' = [slot EXCEPT ![p] = <<NameOf[p], top + 1>>]
               /\ Goto(p, "allocate", "mkdir")
          ELSE /\ slot' = slot
               /\ Goto(p, "allocate", "abort")
    BY <1>3 DEF Allocate
  <2>2. top < MaxRevision => <<NameOf[p], top + 1>> # None
    OBVIOUS
  <2> QED
    BY <1>0, <2>1, <2>2
<1>4. ASSUME NEW p \in Publishers, MakeDirectory(p) \/ WriteBranch(p) \/ UndoEnds(p)
      PROVE  SlotsNamed'
  BY <1>0, <1>4 DEF MakeDirectory, WriteBranch, UndoEnds, local
<1>5. ASSUME NEW p \in Publishers, NEW k \in Kinds, WriteRecord(p, k) PROVE SlotsNamed'
  BY <1>0, <1>5, AfterNext DEF WriteRecord, TypeOK
<1>6. ASSUME NEW p \in Publishers, NEW k \in Kinds, RecordExists(p, k) \/ WriteFails(p, k)
      PROVE  SlotsNamed'
  BY <1>0, <1>6 DEF RecordExists, WriteFails, StartRollback
<1>7. ASSUME NEW p \in Publishers, NEW k \in Kinds, Undo(p, k) \/ UndoFails(p, k)
      PROVE  SlotsNamed'
  BY <1>0, <1>7 DEF Undo, UndoFails
<1>8. ASSUME NEW t \in Taggers, TagStep(t) \/ TagFails(t) PROVE SlotsNamed'
  BY <1>0, <1>8 DEF TagStep, WriteTag, TagFails, Select, local
<1>9. ASSUME NEW q \in Procs, OpenFails(q) \/ Crash(q) PROVE SlotsNamed'
  BY <1>0, <1>9 DEF OpenFails, Crash, local
<1>10. ASSUME NEW p \in Publishers, AllocateFails(p) \/ IndexFails(p) PROVE SlotsNamed'
  BY <1>0, <1>10 DEF AllocateFails, IndexFails, local
<1>11. CASE UNCHANGED vars
  BY <1>11 DEF vars
<1> HIDE ConstantsAssumption
    DEF SlotsNamed, Goto, Numbered, Unnumbered, Kinds, Files, Links
<1> QED
  BY <1>1, <1>2, <1>3, <1>4, <1>5, <1>6, <1>7, <1>8, <1>9, <1>10, <1>11
  DEF Next, PublishStep, Fault, Procs
-----------------------------------------------------------------------------
(* What a step may do to the records: nothing, or one record or link at the  *)
(* number of the lock's holder appears or disappears.                       *)
RecordEffect ==
  \/ UNCHANGED record
  \/ \E p \in Publishers, k \in Kinds, v \in Publishers \union {None} :
       /\ lock = p
       /\ slot[p] \in Slots
       /\ \/ v = p /\ pc[p] = k /\ record[k][slot[p]] = None
          \/ v = None /\ pc[p] = "rollback"
       /\ \A j \in Kinds, s \in Slots :
            record'[j][s] = IF j = k /\ s = slot[p] THEN v ELSE record[j][s]

(* A publisher gets its number in Allocate, one above every access record.   *)
SlotEffect ==
  \A p \in Publishers :
    \/ slot'[p] = slot[p]
    \/ /\ pc[p] = "allocate" /\ pc'[p] = "mkdir" /\ UNCHANGED record
       /\ \E n \in Numbers :
            /\ slot'[p] = <<NameOf[p], n>>
            /\ \A m \in Numbers : m >= n => record["access"][<<NameOf[p], m>>] = None

(* The ways into the stages at which publish writes, and past them.          *)
PcEffect ==
  \A p \in Publishers :
    /\ pc'[p] \in Numbered => pc[p] \in Numbered \union {"allocate"}
    /\ pc'[p] \in Numbered /\ pc[p] = "allocate" => slot'[p] # None
    /\ pc'[p] \in Unpublished => pc[p] \in Unpublished \union {"allocate"}
    /\ pc'[p] \in Unpublished /\ pc[p] = "access" => UNCHANGED record
    /\ pc'[p] \in Kinds \union {"commit", "done"} =>
         /\ payload'[p] = payload[p]
         /\ slot'[p] = slot[p]
         /\ \/ pc'[p] = pc[p]
            \/ pc[p] = "branch" /\ pc'[p] = "backup"
            \/ pc[p] = "commit" /\ pc'[p] = "done" /\ UNCHANGED record
            \/ pc[p] \in Kinds /\ pc'[p] = After(p, pc[p]) /\ record'[pc[p]][slot[p]] = p

Effects == RecordEffect /\ SlotEffect /\ PcEffect

(* Writing or unlinking one file changes nothing else.                      *)
LEMMA PutEffect ==
  ASSUME record \in [Kinds -> [Slots -> Publishers \union {None}]],
         NEW k \in Kinds, NEW s \in Slots, NEW v \in Publishers \union {None}, Put(k, s, v)
  PROVE  \A j \in Kinds, r \in Slots :
           record'[j][r] = IF j = k /\ r = s THEN v ELSE record[j][r]
BY DEF Put

(* One write or unlink by the holder of the lock, in the form above.         *)
LEMMA RecordEffectIntro ==
  ASSUME NEW p \in Publishers, NEW k \in Kinds, NEW v \in Publishers \union {None},
         lock = p, slot[p] \in Slots,
         \/ v = p /\ pc[p] = k /\ record[k][slot[p]] = None
         \/ v = None /\ pc[p] = "rollback",
         record \in [Kinds -> [Slots -> Publishers \union {None}]],
         Put(k, slot[p], v)
  PROVE  RecordEffect
<1>1. \A j \in Kinds, s \in Slots :
        record'[j][s] = IF j = k /\ s = slot[p] THEN v ELSE record[j][s]
  BY PutEffect
<1>2. \E v0 \in Publishers \union {None} :
       /\ lock = p
       /\ slot[p] \in Slots
       /\ \/ v0 = p /\ pc[p] = k /\ record[k][slot[p]] = None
          \/ v0 = None /\ pc[p] = "rollback"
       /\ \A j \in Kinds, s \in Slots :
            record'[j][s] = IF j = k /\ s = slot[p] THEN v0 ELSE record[j][s]
  <2> WITNESS v \in Publishers \union {None}
  <2> QED
    BY <1>1
<1> QED
  BY <1>2, Zenon DEF RecordEffect

(* Every step of the system has these effects and no others.                *)
LEMMA StepEffects ==
  ASSUME TypeOK, LockHeld, SlotsNamed, [Next]_vars
  PROVE  Effects
<1> USE ConstantsAssumption
    DEF Procs, Goto, Numbered, Unpublished, Kinds, Files, Links, Effects, SlotEffect, PcEffect
<1>0. /\ pc \in [Procs -> Stages] /\ slot \in [Procs -> Slots \union {None}]
      /\ payload \in [Publishers -> Payloads]
      /\ record \in [Kinds -> [Slots -> Publishers \union {None}]]
  BY DEF TypeOK
<1>a. ASSUME NEW p \in Publishers, pc[p] \in Kinds \union {"rollback"}
      PROVE  lock = p /\ slot[p] \in Slots
  BY <1>0, <1>a DEF LockHeld, Holding, SlotsNamed
<1>1. ASSUME NEW q \in Procs, CallStep(q) PROVE Effects
  BY <1>0, <1>1 DEF CallStep, Open, Acquire, Release, local, files, RecordEffect
<1>2. ASSUME NEW p \in Publishers, Prepare(p) PROVE Effects
  BY <1>0, <1>2 DEF Prepare, files, RecordEffect
<1>3. ASSUME NEW p \in Publishers, Allocate(p) PROVE Effects
  <2>1. PICK top \in 0..MaxRevision :
          /\ \A n \in Numbers : record["access"][<<NameOf[p], n>>] # None => n <= top
          /\ IF top < MaxRevision
             THEN /\ slot' = [slot EXCEPT ![p] = <<NameOf[p], top + 1>>]
                  /\ Goto(p, "allocate", "mkdir")
             ELSE /\ slot' = slot
                  /\ Goto(p, "allocate", "abort")
    BY <1>3 DEF Allocate, IsHighest
  <2>2. UNCHANGED <<record, payload>>
    BY <1>3 DEF Allocate, files
  <2>3. CASE top < MaxRevision
    <3>1. /\ top + 1 \in Numbers
          /\ \A m \in Numbers : m >= top + 1 => record["access"][<<NameOf[p], m>>] = None
          /\ <<NameOf[p], top + 1>> # None
      BY <2>1, <2>3 DEF Numbers
    <3> QED
      BY <1>0, <2>1, <2>2, <2>3, <3>1 DEF RecordEffect
  <2>4. CASE ~(top < MaxRevision)
    BY <1>0, <2>1, <2>2, <2>4 DEF RecordEffect
  <2> QED
    BY <2>3, <2>4
<1>4. ASSUME NEW p \in Publishers, MakeDirectory(p) \/ WriteBranch(p) \/ UndoEnds(p)
      PROVE  Effects
  BY <1>0, <1>4 DEF MakeDirectory, WriteBranch, UndoEnds, local, files, RecordEffect
<1>5. ASSUME NEW p \in Publishers, NEW k \in Kinds, WriteRecord(p, k) PROVE Effects
  <2>1. /\ pc[p] = k /\ pc' = [pc EXCEPT ![p] = After(p, k)] /\ UNCHANGED <<slot, payload>>
        /\ record[k][slot[p]] = None /\ Put(k, slot[p], p)
    BY <1>5 DEF WriteRecord
  <2>2. lock = p /\ slot[p] \in Slots
    BY <1>a, <2>1
  <2>3. RecordEffect
    BY <1>0, <2>1, <2>2, RecordEffectIntro
  <2>4. record'[k][slot[p]] = p
    BY <1>0, <2>1, <2>2, PutEffect
  <2>5. pc'[p] = After(p, k) /\ \A q \in Publishers \ {p} : pc'[q] = pc[q]
    BY <1>0, <2>1
  <2>6. /\ After(p, k) \in Kinds \union {"commit"}
        /\ After(p, k) \in Unpublished => k \in {"backup", "diff"}
    BY <1>0, AfterNext
  <2>7. PcEffect
    BY <1>a, <2>1, <2>2, <2>4, <2>5, <2>6
  <2> QED
    BY <2>1, <2>3, <2>7
<1>6. ASSUME NEW p \in Publishers, NEW k \in Kinds, RecordExists(p, k) \/ WriteFails(p, k)
      PROVE  Effects
  <2>1. /\ pc[p] = k /\ pc' = [pc EXCEPT ![p] = "rollback"] /\ UNCHANGED <<slot, payload>>
        /\ \/ UNCHANGED record
           \/ record[k][slot[p]] = None /\ Put(k, slot[p], p)
    BY <1>6 DEF RecordExists, WriteFails, StartRollback
  <2>2. lock = p /\ slot[p] \in Slots
    BY <1>a, <2>1
  <2>3. RecordEffect
    <3>1. CASE UNCHANGED record
      BY <3>1 DEF RecordEffect
    <3>2. CASE record[k][slot[p]] = None /\ Put(k, slot[p], p)
      BY <1>0, <2>1, <2>2, <3>2, RecordEffectIntro
    <3> QED
      BY <2>1, <3>1, <3>2
  <2>4. PcEffect
    BY <1>0, <1>a, <2>1, <2>2
  <2> QED
    BY <2>1, <2>3, <2>4
<1>7. ASSUME NEW p \in Publishers, NEW k \in Kinds, Undo(p, k) \/ UndoFails(p, k)
      PROVE  Effects
  <2>1. /\ pc[p] = "rollback" /\ UNCHANGED <<pc, slot, payload>>
        /\ UNCHANGED record \/ Put(k, slot[p], None)
    BY <1>7 DEF Undo, UndoFails, files
  <2>2. lock = p /\ slot[p] \in Slots
    BY <1>a, <2>1
  <2>3. RecordEffect
    <3>1. CASE UNCHANGED record
      BY <3>1 DEF RecordEffect
    <3>2. CASE Put(k, slot[p], None)
      BY <1>0, <2>1, <2>2, <3>2, RecordEffectIntro
    <3> QED
      BY <2>1, <3>1, <3>2
  <2>4. PcEffect
    BY <1>0, <1>a, <2>1, <2>2
  <2> QED
    BY <2>1, <2>3, <2>4
<1>8. ASSUME NEW t \in Taggers, TagStep(t) \/ TagFails(t) PROVE Effects
  BY <1>0, <1>8 DEF TagStep, WriteTag, TagFails, Select, local, files, RecordEffect
<1>9. ASSUME NEW q \in Procs, OpenFails(q) \/ Crash(q) PROVE Effects
  BY <1>0, <1>9 DEF OpenFails, Crash, local, files, RecordEffect
<1>10. ASSUME NEW p \in Publishers, AllocateFails(p) \/ IndexFails(p) PROVE Effects
  BY <1>0, <1>10 DEF AllocateFails, IndexFails, local, files, RecordEffect
<1>11. CASE UNCHANGED vars
  BY <1>11 DEF vars, RecordEffect
<1> HIDE ConstantsAssumption
    DEF Goto, Numbered, Unpublished, Kinds, Files, Links, SlotEffect, PcEffect, Effects
<1> QED
  BY <1>1, <1>2, <1>3, <1>4, <1>5, <1>6, <1>7, <1>8, <1>9, <1>10, <1>11
  DEF Next, PublishStep, Fault, Procs

-----------------------------------------------------------------------------
(* Every record a publisher wrote carries its number.                       *)
LEMMA RecordsOwnedStep ==
  ASSUME TypeOK, LockHeld, SlotsNamed, RecordsOwned, [Next]_vars
  PROVE  RecordsOwned'
<1>1. RecordEffect /\ SlotEffect
  BY StepEffects DEF Effects
<1>2. SUFFICES ASSUME NEW k \in Kinds, NEW s \in Slots, NEW p \in Publishers,
                      record'[k][s] = p
               PROVE  slot'[p] = s
  BY DEF RecordsOwned
<1>3. None \notin Publishers
  BY ConstantsAssumption DEF Procs
<1>4. slot[p] = s
  BY <1>1, <1>2, <1>3 DEF RecordEffect, RecordsOwned
<1>5. s # None
  BY ConstantsAssumption DEF Slots, Numbers
<1> QED
  BY <1>1, <1>4, <1>5 DEF SlotEffect, SlotsNamed, Unnumbered

-----------------------------------------------------------------------------
(* The number a publisher works under is the highest.                       *)
LEMMA NumberFreshStep ==
  ASSUME TypeOK, LockHeld, SlotsNamed, NumberFresh, [Next]_vars
  PROVE  NumberFresh'
<1>1. RecordEffect /\ SlotEffect /\ PcEffect
  BY StepEffects DEF Effects
<1>2. SUFFICES ASSUME NEW p \in Publishers, pc'[p] \in Numbered
               PROVE  /\ \A n \in Numbers : n > slot'[p][2] =>
                            record'["access"][<<NameOf[p], n>>] = None
                      /\ record'["access"][slot'[p]] \in {None, p}
                      /\ pc'[p] \in Unpublished => record'["access"][slot'[p]] = None
  BY DEF NumberFresh
<1>3. CASE slot'[p] # slot[p]
  <2>1. PICK n \in Numbers :
          /\ slot'[p] = <<NameOf[p], n>>
          /\ \A m \in Numbers : m >= n => record["access"][<<NameOf[p], m>>] = None
    BY <1>1, <1>3 DEF SlotEffect
  <2>2. UNCHANGED record
    BY <1>1, <1>3 DEF SlotEffect
  <2> QED
    BY <2>1, <2>2 DEF Numbers
<1>4. CASE slot'[p] = slot[p]
  <2>1. pc[p] \in Numbered
    BY <1>1, <1>2, <1>4 DEF PcEffect, SlotsNamed, Unnumbered
  <2>2. lock = p
    BY <2>1 DEF LockHeld, Procs, Numbered, Holding
  <2>3. /\ \A n \in Numbers : n > slot[p][2] => record["access"][<<NameOf[p], n>>] = None
        /\ record["access"][slot[p]] \in {None, p}
        /\ pc[p] \in Unpublished => record["access"][slot[p]] = None
    BY <2>1 DEF NumberFresh
  <2>4. CASE UNCHANGED record
    <3>1. pc'[p] \in Unpublished => pc[p] \in Unpublished
      BY <1>1, <2>1 DEF PcEffect, Numbered, Kinds, Files, Links
    <3> QED
      BY <1>4, <2>3, <2>4, <3>1
  <2>5. CASE ~ UNCHANGED record
    <3>1. PICK k \in Kinds, v \in Publishers \union {None} :
            /\ slot[p] \in Slots
            /\ \/ v = p /\ pc[p] = k
               \/ v = None /\ pc[p] = "rollback"
            /\ \A j \in Kinds, s \in Slots :
                 record'[j][s] = IF j = k /\ s = slot[p] THEN v ELSE record[j][s]
      BY <1>1, <2>2, <2>5 DEF RecordEffect
    <3>2. "access" \in Kinds
      BY DEF Kinds, Files
    <3>3. record'["access"][slot[p]] \in {None, p}
      BY <2>3, <3>1, <3>2
    <3>4. \A n \in Numbers : n > slot[p][2] => record'["access"][<<NameOf[p], n>>] = None
      <4>1. SUFFICES ASSUME NEW n \in Numbers, n > slot[p][2]
                     PROVE  record'["access"][<<NameOf[p], n>>] = None
        OBVIOUS
      <4>2. <<NameOf[p], n>> \in Slots
        BY ConstantsAssumption DEF Slots
      <4>3. <<NameOf[p], n>> # slot[p]
        BY <4>1, <4>2, <3>1 DEF Slots, Numbers
      <4> QED
        BY <2>3, <3>1, <3>2, <4>1, <4>2, <4>3
    <3>5. pc'[p] \in Unpublished => record'["access"][slot[p]] = None
      <4>1. SUFFICES ASSUME pc'[p] \in Unpublished PROVE record'["access"][slot[p]] = None
        OBVIOUS
      <4>2. pc[p] \in Unpublished /\ pc[p] # "access"
        BY <1>1, <2>1, <2>5, <4>1 DEF PcEffect, Numbered, Kinds, Files, Links
      <4>3. k # "access"
        BY <3>1, <4>2 DEF Unpublished
      <4> QED
        BY <2>3, <3>1, <3>2, <4>2, <4>3
    <3> QED
      BY <1>4, <3>3, <3>4, <3>5
  <2> QED
    BY <2>4, <2>5
<1> QED
  BY <1>3, <1>4

-----------------------------------------------------------------------------
(* While one publisher holds the lock, the number of a call that has         *)
(* returned is not the one it works under.                                  *)
LEMMA OtherNumber ==
  ASSUME NumberFresh, SlotsNamed, RecordsInOrder, ConstantsAssumption,
         NEW p \in Publishers, pc[p] = "done",
         NEW q \in Publishers, pc[q] \in Numbered
  PROVE  slot[p] # slot[q]
<1>1. record["access"][slot[p]] = p
  BY DEF RecordsInOrder, Plan, Position
<1>2. record["access"][slot[q]] \in {None, q}
  BY DEF NumberFresh
<1>3. p # q /\ p # None
  BY ConstantsAssumption DEF Procs, Numbered, Kinds, Files, Links
<1> QED
  BY <1>1, <1>2, <1>3

(* The records a publisher has written stay as it goes on, and after.        *)
LEMMA RecordsInOrderStep ==
  ASSUME TypeOK, LockHeld, SlotsNamed, NumberFresh, RecordsInOrder, [Next]_vars
  PROVE  RecordsInOrder'
<1>1. RecordEffect /\ PcEffect
  BY StepEffects DEF Effects
<1> DEFINE Late == Kinds \union {"commit", "done"}
<1>2. SUFFICES ASSUME NEW p \in Publishers, pc'[p] \in Late,
                      NEW k \in Kinds, k \in Plan(p)', Position[k] < Position[pc'[p]]
               PROVE  record'[k][slot'[p]] = p
  BY DEF RecordsInOrder, Plan, Kinds, Files, Links
<1>3. slot'[p] = slot[p] /\ k \in Plan(p)
  BY <1>1, <1>2 DEF PcEffect, Plan
<1>4. ASSUME pc[p] \in Late, record[k][slot[p]] = p, pc[p] \in Kinds => pc[p] # k
      PROVE  record'[k][slot[p]] = p
  <2>1. CASE UNCHANGED record
    BY <1>4, <2>1
  <2>2. CASE ~ UNCHANGED record
    <3>1. PICK q \in Publishers, j \in Kinds, v \in Publishers \union {None} :
            /\ lock = q
            /\ slot[q] \in Slots
            /\ \/ v = q /\ pc[q] = j
               \/ v = None /\ pc[q] = "rollback"
            /\ \A i \in Kinds, s \in Slots :
                 record'[i][s] = IF i = j /\ s = slot[q] THEN v ELSE record[i][s]
      BY <1>1, <2>2 DEF RecordEffect
    <3>2. slot[p] \in Slots
      BY <1>4 DEF TypeOK, Procs, SlotsNamed, Numbered
    <3>3. CASE p = q
      BY <1>4, <3>1, <3>2, <3>3 DEF Kinds, Files, Links
    <3>4. CASE p # q
      <4>1. pc[p] = "done"
        BY <1>4, <3>1, <3>4 DEF LockHeld, Holding, Procs
      <4>2. pc[q] \in Numbered
        BY <3>1 DEF Numbered
      <4>3. slot[p] # slot[q]
        BY <4>1, <4>2, OtherNumber, ConstantsAssumption
      <4> QED
        BY <1>4, <3>1, <3>2, <4>3
    <3> QED
      BY <3>3, <3>4
  <2> QED
    BY <2>1, <2>2
<1>5. CASE pc'[p] = pc[p]
  <2>1. record[k][slot[p]] = p
    BY <1>2, <1>3, <1>5 DEF RecordsInOrder
  <2>2. pc[p] \in Kinds => pc[p] # k
    BY <1>2, <1>5 DEF Position, Kinds, Files, Links
  <2> QED
    BY <1>2, <1>3, <1>4, <1>5, <2>1, <2>2
<1>6. CASE pc[p] = "branch" /\ pc'[p] = "backup"
  BY <1>2, <1>6 DEF Position, Kinds, Files, Links
<1>7. CASE pc[p] = "commit" /\ pc'[p] = "done"
  <2>1. record[k][slot[p]] = p
    BY <1>3, <1>7 DEF RecordsInOrder, Position, Kinds, Files, Links
  <2> QED
    BY <1>3, <1>4, <1>7, <2>1 DEF Kinds, Files, Links
<1>8. CASE pc[p] \in Kinds /\ pc'[p] = After(p, pc[p]) /\ record'[pc[p]][slot[p]] = p
  <2>1. k = pc[p] \/ Position[k] < Position[pc[p]]
    BY <1>2, <1>3, <1>8, AfterNext DEF TypeOK
  <2>2. CASE k = pc[p]
    BY <1>3, <1>8, <2>2
  <2>3. CASE k # pc[p]
    BY <1>3, <1>4, <1>8, <2>1, <2>3 DEF RecordsInOrder
  <2> QED
    BY <2>2, <2>3
<1> QED
  BY <1>1, <1>2, <1>5, <1>6, <1>7, <1>8 DEF PcEffect

-----------------------------------------------------------------------------
(* The invariant is inductive.                                              *)
THEOREM Invariance == Spec => []IInv
<1>1. Init => IInv
  <2> SUFFICES ASSUME Init PROVE IInv
    OBVIOUS
  <2> USE ConstantsAssumption DEF Init, Procs, Kinds, Files, Links
  <2>1. TypeOK
    BY DEF TypeOK, Stages, Payloads
  <2>2. LockHeld
    BY DEF LockHeld, Holding
  <2>3. SlotsNamed
    BY DEF SlotsNamed, Numbered
  <2>4. RecordsOwned
    BY DEF RecordsOwned
  <2>5. NumberFresh /\ RecordsInOrder
    BY DEF NumberFresh, RecordsInOrder, Numbered
  <2> QED
    BY <2>1, <2>2, <2>3, <2>4, <2>5 DEF IInv
<1>2. IInv /\ [Next]_vars => IInv'
  BY TypeStep, LockStep, NamedStep, RecordsOwnedStep, NumberFreshStep, RecordsInOrderStep
  DEF IInv
<1> QED
  BY <1>1, <1>2, PTL DEF Spec

(* Every variable keeps its type.                                           *)
THEOREM TypeCorrect == Spec => []TypeOK
<1>1. IInv => TypeOK
  BY DEF IInv
<1> QED
  BY <1>1, Invariance, PTL

(* What a successful call has published is never overwritten or removed.     *)
THEOREM PublishedStays == Spec => []SuccessIntact
<1>1. IInv => SuccessIntact
  BY DEF IInv, RecordsInOrder, SuccessIntact, Plan, Position
<1> QED
  BY <1>1, Invariance, PTL

(* Successful calls for one file return growing, hence distinct, numbers.    *)
THEOREM NumbersOnlyGrow == Spec => NumbersGrow
<1> DEFINE Grow == \A p, q \in Publishers :
                     Returns(p) /\ pc[q] = "done" /\ NameOf[p] = NameOf[q]
                       => slot[p][2] > slot[q][2]
<1>1. IInv /\ [Next]_vars => [Grow]_vars
  <2> SUFFICES ASSUME IInv, [Next]_vars, NEW p \in Publishers, NEW q \in Publishers,
                      Returns(p), pc[q] = "done", NameOf[p] = NameOf[q]
               PROVE  slot[p][2] > slot[q][2]
    OBVIOUS
  <2>1. PcEffect
    BY StepEffects DEF IInv, Effects
  <2>2. pc[p] = "commit"
    <3>1. pc[p] \in Kinds => After(p, pc[p]) \in Kinds \union {"commit"}
      BY AfterNext DEF IInv, TypeOK
    <3> QED
      BY <2>1, <3>1 DEF PcEffect, Returns, Kinds, Files, Links
  <2>3. slot[p] \in Slots /\ slot[q] \in Slots
    BY <2>2 DEF IInv, TypeOK, SlotsNamed, Numbered, Procs
  <2>4. slot[p] = <<NameOf[q], slot[p][2]>> /\ slot[q] = <<NameOf[q], slot[q][2]>>
    <3>1. \A s \in Slots : s = <<s[1], s[2]>>
      BY DEF Slots
    <3>2. slot[p] # None /\ slot[q] # None
      BY <2>2 DEF IInv, SlotsNamed, Numbered
    <3>3. slot[p][1] = NameOf[q] /\ slot[q][1] = NameOf[q]
      BY <3>2 DEF IInv, SlotsNamed
    <3> QED
      BY <2>3, <3>1, <3>3
  <2>5. record["access"][slot[q]] = q
    BY DEF IInv, RecordsInOrder, Plan, Position
  <2>6. /\ \A n \in Numbers : n > slot[p][2] => record["access"][<<NameOf[p], n>>] = None
        /\ slot[p] # slot[q]
    BY <2>2, OtherNumber, ConstantsAssumption DEF IInv, NumberFresh, Numbered
  <2>7. q # None
    BY ConstantsAssumption DEF Procs
  <2> QED
    BY <2>3, <2>4, <2>5, <2>6, <2>7 DEF Slots, Numbers
<1> QED
  BY <1>1, Invariance, PTL DEF Spec, NumbersGrow
=============================================================================
