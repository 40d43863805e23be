--------------------------- MODULE RestoreProofs ---------------------------
(* Proofs about Restore, for any number of restores, contents and faults:     *)
(* types, that what a restore replaces is kept, that the mirror's gaps are    *)
(* accounted for, and that a restore that fails is undone.                    *)
EXTENDS Restore, TLAPS

(* The invariant, in its parts: the types,                                    *)
Jobs == [had : Contents \union {None}, asked : Revisions \union {None},
         listed : Contents \union {None}, target : Contents \union {None}, made : Nat]

ControlTyped ==
  /\ pc \in [Processes -> Steps]
  /\ failed \in [Processes -> BOOLEAN] /\ raced \subseteq Restorers

CountersTyped == saves \in 0 .. MaxSaves /\ faults \in 0 .. MaxFaults

FilesTyped ==
  /\ live \in Contents \union {None} /\ base \in Contents
  /\ canonical \in Seq(Revisions)
  /\ mirror \in Seq(Nat) /\ \A k \in DOMAIN mirror : mirror[k] \in Numbers

WorkTyped ==
  /\ job \in [Processes -> Jobs]
  /\ \A p \in Processes : job[p].made \in Numbers \union {0}
  /\ missing \in [Processes -> SUBSET Numbers]
  /\ warned \subseteq Numbers /\ lost \subseteq Numbers

Typed == ControlTyped /\ CountersTyped /\ FilesTyped /\ WorkTyped

(* what each process has in hand at each of its steps,                        *)
Replacing == {"sync mirror", "replace", "publish", "mirror", "rollback"}
Kept(c) == \E n \in Numbers : c \in {canonical[n].backup, canonical[n].shows}

Hand(r) ==
  /\ pc[r] \notin {"watch", "store", "store mirror"}
  /\ pc[r] # "idle" => Len(canonical) > 0
  /\ pc[r] = "read" /\ job[r].asked = None => job[r].target \in Contents
  /\ pc[r] = "read" /\ job[r].asked # None => Kept(job[r].listed)
  /\ pc[r] \in {"list", "sync"} \union Replacing => job[r].target \in Contents
  /\ pc[r] \in {"list", "patch", "sync"} \union Replacing => job[r].had \in Contents
  /\ pc[r] = "patch" => job[r].asked \in Revisions
  /\ pc[r] \in {"patch", "sync"} => Kept(job[r].listed)
  /\ pc[r] \in Replacing => Kept(job[r].had)
  /\ pc[r] \in {"idle", "read", "list", "patch", "sync", "sync mirror"} => missing[r] = {}

InHand ==
  /\ pc[session] \in {"idle", "watch", "store", "store mirror"}
  /\ pc[session] = "store" => job[session].target \in Contents
  /\ \A p \in Processes : pc[p] \in Publishing => job[p].made \in Numbers
  /\ \A r \in Restorers : Hand(r)

(* whose a revision is that the mirror is still to take,                      *)
Publishes(p, n) == pc[p] \in Publishing /\ job[p].made = n
Said == warned \union lost
Refused(n) == n \in Said \/ \E p \in Processes : n \in missing[p]
Mirrors(n) == \E k \in DOMAIN mirror : mirror[k] = n

Accounted ==
  /\ \A p, q \in Processes : \A n \in Nat : Publishes(p, n) /\ Publishes(q, n) => p = q
  /\ \A p \in Processes : \A n \in Nat : Publishes(p, n) => ~ Refused(n) /\ ~ Mirrors(n)
  /\ \A n \in Nat : Mirrors(n) => ~ Refused(n)
  /\ \A k, l \in DOMAIN mirror : mirror[k] = mirror[l] => k = l
  /\ \A n \in Numbers : Mirrors(n) \/ Refused(n) \/ \E p \in Processes : Publishes(p, n)

(* and what the file is before and after a restore replaces it.               *)
Before == {"list", "patch", "sync", "sync mirror", "replace"}
After == {"publish", "mirror", "rollback"}

Unraced ==
  \A r \in Restorers \ raced :
    /\ pc[r] \in Before => live = job[r].had
    /\ pc[r] \in After => live = job[r].target

IInv == Typed /\ InHand /\ Accounted /\ Unraced

-----------------------------------------------------------------------------
(* A publication adds one revision, which keeps the state it was given, and   *)
(* changes none.                                                              *)
LEMMA Recorded ==
  ASSUME Typed, NEW p \in Processes, NEW before \in Contents, NEW after \in Contents,
         Record(p, before, after)
  PROVE  /\ canonical' \in Seq(Revisions) /\ Len(canonical') = Len(canonical) + 1
         /\ \A n \in Numbers : canonical'[n] = canonical[n]
         /\ Numbers' = Numbers \union {Len(canonical) + 1}
         /\ canonical'[Len(canonical) + 1].shows = after
         /\ faults' \in 0 .. MaxFaults
         /\ job' = [job EXCEPT ![p].made = Len(canonical) + 1]
<1>1. PICK r \in Revisions : canonical' = Append(canonical, r) /\ r.shows = after
  BY DEF Record, Revisions, Typed
<1>2. canonical \in Seq(Revisions) /\ Len(canonical) \in Nat
  BY DEF Typed, FilesTyped
<1>3. canonical' \in Seq(Revisions) /\ Len(canonical') = Len(canonical) + 1
  BY <1>1, <1>2
<1>4. \A n \in Numbers : canonical'[n] = canonical[n]
  BY <1>1, <1>2 DEF Numbers
<1>5. Numbers' = Numbers \union {Len(canonical) + 1}
  BY <1>2, <1>3 DEF Numbers
<1>6. canonical'[Len(canonical) + 1] = r
  BY <1>1, <1>2
<1>7. faults' \in 0 .. MaxFaults
  BY RestoreAssumption DEF Typed, CountersTyped, Record, Fault
<1> QED
  BY <1>1, <1>3, <1>4, <1>5, <1>6, <1>7 DEF Record

(* What is kept is a content,                                                 *)
LEMMA KeptContent == ASSUME Typed, NEW c, Kept(c) PROVE c \in Contents
<1>1. PICK n \in Numbers : c \in {canonical[n].backup, canonical[n].shows}
  BY DEF Kept
<1>2. canonical[n] \in Revisions
  BY DEF Typed, FilesTyped, Numbers
<1> QED
  BY <1>1, <1>2 DEF Revisions

(* and stays kept.                                                            *)
LEMMA KeptStays ==
  ASSUME NEW c, Kept(c), Numbers \subseteq Numbers', \A n \in Numbers : canonical'[n] = canonical[n]
  PROVE  Kept(c)'
BY DEF Kept

-----------------------------------------------------------------------------
(* A process changes one part of its own job.                                 *)
LEMMA SetHad ==
  ASSUME job \in [Processes -> Jobs], NEW p \in Processes, NEW v \in Contents \union {None},
         job' = [job EXCEPT ![p].had = v]
  PROVE  /\ job' \in [Processes -> Jobs] /\ job'[p].had = v
         /\ job'[p].asked = job[p].asked /\ job'[p].listed = job[p].listed
         /\ job'[p].target = job[p].target /\ job'[p].made = job[p].made
         /\ \A q \in Processes : q # p => job'[q] = job[q]
BY DEF Jobs

(* the same for the state to compare with,                                    *)
LEMMA SetListed ==
  ASSUME job \in [Processes -> Jobs], NEW p \in Processes, NEW v \in Contents \union {None},
         job' = [job EXCEPT ![p].listed = v]
  PROVE  /\ job' \in [Processes -> Jobs] /\ job'[p].listed = v
         /\ job'[p].had = job[p].had /\ job'[p].asked = job[p].asked
         /\ job'[p].target = job[p].target /\ job'[p].made = job[p].made
         /\ \A q \in Processes : q # p => job'[q] = job[q]
BY DEF Jobs

(* the state to restore,                                                      *)
LEMMA SetTarget ==
  ASSUME job \in [Processes -> Jobs], NEW p \in Processes, NEW v \in Contents \union {None},
         job' = [job EXCEPT ![p].target = v]
  PROVE  /\ job' \in [Processes -> Jobs] /\ job'[p].target = v
         /\ job'[p].had = job[p].had /\ job'[p].asked = job[p].asked
         /\ job'[p].listed = job[p].listed /\ job'[p].made = job[p].made
         /\ \A q \in Processes : q # p => job'[q] = job[q]
BY DEF Jobs

(* the revision made,                                                         *)
LEMMA SetMade ==
  ASSUME job \in [Processes -> Jobs], NEW p \in Processes, NEW v \in Nat,
         job' = [job EXCEPT ![p].made = v]
  PROVE  /\ job' \in [Processes -> Jobs] /\ job'[p].made = v
         /\ job'[p].had = job[p].had /\ job'[p].asked = job[p].asked
         /\ job'[p].listed = job[p].listed /\ job'[p].target = job[p].target
         /\ \A q \in Processes : q # p => job'[q] = job[q]
BY DEF Jobs

(* or the whole.                                                              *)
LEMMA SetJob ==
  ASSUME job \in [Processes -> Jobs], NEW p \in Processes, NEW v \in Jobs,
         job' = [job EXCEPT ![p] = v]
  PROVE  /\ job' \in [Processes -> Jobs] /\ job'[p] = v
         /\ \A q \in Processes : q # p => job'[q] = job[q]
OBVIOUS

(* An empty job is a job.                                                     *)
LEMMA NoJobTyped == NoJob \in Jobs
BY DEF NoJob, Jobs

-----------------------------------------------------------------------------
(* A process that ends,                                                       *)
Gone(p, failing) == \E said, dropped : End(p, failing, said, dropped)

(* leaves the others.                                                         *)
LEMMA Ended ==
  ASSUME Typed, NEW p \in Processes, NEW failing \in BOOLEAN, Gone(p, failing)
  PROVE  /\ pc' \in [Processes -> Steps] /\ failed' \in [Processes -> BOOLEAN]
         /\ job' \in [Processes -> Jobs] /\ missing' \in [Processes -> SUBSET Numbers]
         /\ pc'[p] = "idle" /\ failed'[p] = failing /\ job'[p] = NoJob /\ missing'[p] = {}
         /\ \A q \in Processes : q # p =>
              pc'[q] = pc[q] /\ failed'[q] = failed[q] /\ job'[q] = job[q] /\ missing'[q] = missing[q]
<1>0. PICK said, dropped : End(p, failing, said, dropped)
  BY DEF Gone
<1>1. NoJob \in Jobs
  BY NoJobTyped
<1>2. pc' = [pc EXCEPT ![p] = "idle"] /\ "idle" \in Steps
  BY <1>0 DEF End, Goto, Steps
<1>3. failed' = [failed EXCEPT ![p] = failing]
  BY <1>0 DEF End
<1>4. job' = [job EXCEPT ![p] = NoJob]
  BY <1>0 DEF End
<1>5. missing' = [missing EXCEPT ![p] = {}]
  BY <1>0 DEF End
<1>6. pc' \in [Processes -> Steps] /\ failed' \in [Processes -> BOOLEAN]
  BY <1>2, <1>3 DEF Typed, ControlTyped
<1>7. job' \in [Processes -> Jobs] /\ missing' \in [Processes -> SUBSET Numbers]
  BY <1>1, <1>4, <1>5 DEF Typed, WorkTyped
<1> QED
  BY <1>2, <1>3, <1>4, <1>5, <1>6, <1>7 DEF Typed, ControlTyped, WorkTyped

(* Every step keeps the types: the counters,                                  *)
LEMMA CountersStep == Typed /\ [Next]_vars => CountersTyped'
<1> SUFFICES ASSUME Typed, [Next]_vars PROVE CountersTyped'
  OBVIOUS
<1> USE RestoreAssumption DEF Typed, CountersTyped, Fault
<1>1. ASSUME NEW r \in Restorers, Start(r) PROVE CountersTyped'
  BY <1>1 DEF Start, Record, Mirrored, Unmirrored
<1>2. ASSUME NEW r \in Restorers, Read(r) PROVE CountersTyped'
  BY <1>2 DEF Read, Record, Mirrored, Unmirrored
<1>3. ASSUME NEW r \in Restorers, List(r) PROVE CountersTyped'
  BY <1>3 DEF List, Record, Mirrored, Unmirrored
<1>4. ASSUME NEW r \in Restorers, Patch(r) PROVE CountersTyped'
  BY <1>4 DEF Patch, Record, Mirrored, Unmirrored
<1>5. ASSUME NEW r \in Restorers, Sync(r) PROVE CountersTyped'
  <2>1. saves' = saves /\ (faults' = faults \/ Fault)
    BY <1>5 DEF Sync, Record, Mirrored, Unmirrored
  <2> QED
    BY <2>1
<1>6. ASSUME NEW r \in Restorers, SyncMirror(r) PROVE CountersTyped'
  <2>1. saves' = saves /\ (faults' = faults \/ Fault)
    BY <1>6 DEF SyncMirror, Record, Mirrored, Unmirrored
  <2> QED
    BY <2>1
<1>7. ASSUME NEW r \in Restorers, Replace(r) PROVE CountersTyped'
  <2>1. saves' = saves /\ (faults' = faults \/ Fault)
    BY <1>7 DEF Replace
  <2> QED
    BY <2>1
<1>8. ASSUME NEW r \in Restorers, PublishRestored(r) PROVE CountersTyped'
  BY <1>8 DEF PublishRestored, Record, Mirrored, Unmirrored
<1>9. ASSUME NEW r \in Restorers, RestoredMirror(r) PROVE CountersTyped'
  <2>1. saves' = saves /\ (faults' = faults \/ Fault)
    BY <1>9 DEF RestoredMirror, Record, Mirrored, Unmirrored
  <2> QED
    BY <2>1
<1>10. ASSUME NEW r \in Restorers, Fails(r) PROVE CountersTyped'
  BY <1>10 DEF Fails, Record, Mirrored, Unmirrored
<1>11. ASSUME NEW r \in Restorers, Rollback(r) PROVE CountersTyped'
  <2>1. saves' = saves /\ (faults' = faults \/ Fault)
    BY <1>11 DEF Rollback, Record, Mirrored, Unmirrored
  <2> QED
    BY <2>1
<1>12. ASSUME Open PROVE CountersTyped'
  BY <1>12 DEF Open, Record, Mirrored, Unmirrored
<1>13. ASSUME See PROVE CountersTyped'
  BY <1>13 DEF See, Record, Mirrored, Unmirrored
<1>14. ASSUME Store PROVE CountersTyped'
  <2>1. saves' = saves /\ (faults' = faults \/ Fault)
    BY <1>14 DEF Store, Record, Mirrored, Unmirrored
  <2> QED
    BY <2>1
<1>15. ASSUME StoreMirror PROVE CountersTyped'
  <2>1. saves' = saves /\ (faults' = faults \/ Fault)
    BY <1>15 DEF StoreMirror, Mirrored, Unmirrored
  <2> QED
    BY <2>1
<1>19. ASSUME Close PROVE CountersTyped'
  BY <1>19 DEF Close
<1>16. ASSUME Save PROVE CountersTyped'
  BY <1>16 DEF Save, Record, Mirrored, Unmirrored
<1>17. ASSUME NEW p \in Processes, Die(p) PROVE CountersTyped'
  BY <1>17 DEF Die, Record, Mirrored, Unmirrored
<1>18. CASE UNCHANGED vars
  BY <1>18 DEF vars, Record, Mirrored, Unmirrored
<1> HIDE RestoreAssumption DEF Typed, CountersTyped, Fault
<1> QED
  BY <1>1, <1>2, <1>3, <1>4, <1>5, <1>6, <1>7, <1>8, <1>9, <1>10, <1>11, <1>12, <1>13,
     <1>14, <1>15, <1>16, <1>17, <1>18, <1>19 DEF Next, Command

(* the control,                                                               *)
LEMMA ControlStep == Typed /\ [Next]_vars => ControlTyped'
<1> SUFFICES ASSUME Typed, [Next]_vars PROVE ControlTyped'
  OBVIOUS
<1> USE DEF ControlTyped, Processes, Steps, Goto, repositories, told
<1>1. ASSUME NEW r \in Restorers, Start(r) PROVE ControlTyped'
  BY <1>1 DEF Typed, Start, Write
<1>2. ASSUME NEW r \in Restorers, Read(r) PROVE ControlTyped'
  BY <1>2 DEF Typed, Read, Write
<1>3. ASSUME NEW r \in Restorers, List(r) PROVE ControlTyped'
  BY <1>3 DEF Typed, List, Write
<1>4. ASSUME NEW r \in Restorers, Patch(r) PROVE ControlTyped'
  BY <1>4 DEF Typed, Patch, Write
<1>5. ASSUME NEW r \in Restorers, Sync(r) PROVE ControlTyped'
  BY <1>5 DEF Typed, Sync, Write
<1>6. ASSUME NEW r \in Restorers, SyncMirror(r) PROVE ControlTyped'
  BY <1>6 DEF Typed, SyncMirror, Write
<1>7. ASSUME NEW r \in Restorers, Replace(r) PROVE ControlTyped'
  <2>1. raced' \subseteq Restorers
    BY <1>7 DEF Replace, Write, Typed
  <2>2. CASE Goto(r, "publish") /\ UNCHANGED told
    BY <1>7, <2>1, <2>2 DEF Typed, Replace
  <2>3. CASE End(r, TRUE, {}, missing[r])
    BY <2>1, <2>3, Ended DEF Gone
  <2> QED
    BY <1>7, <2>2, <2>3 DEF Replace
<1>8. ASSUME NEW r \in Restorers, PublishRestored(r) PROVE ControlTyped'
  BY <1>8 DEF Typed, PublishRestored, Write
<1>9. ASSUME NEW r \in Restorers, RestoredMirror(r) PROVE ControlTyped'
  <2>1. PICK failing \in BOOLEAN : Gone(r, failing)
    BY <1>9 DEF RestoredMirror, Gone
  <2>2. \/ raced' = raced
        \/ \E D : raced' = (raced \union {q \in Restorers : pc[q] # "idle"}) \ D \/ raced' = raced \ D
    BY <1>9 DEF RestoredMirror, Write
  <2>3. raced' \subseteq Restorers
    BY <2>2 DEF Typed
  <2> QED
    BY <2>1, <2>3, Ended DEF Processes
<1>10. ASSUME NEW r \in Restorers, Fails(r) PROVE ControlTyped'
  <2>1. PICK failing \in BOOLEAN : Gone(r, failing)
    BY <1>10 DEF Fails, Gone
  <2>2. \/ raced' = raced
        \/ \E D : raced' = (raced \union {q \in Restorers : pc[q] # "idle"}) \ D \/ raced' = raced \ D
    BY <1>10 DEF Fails, Write
  <2>3. raced' \subseteq Restorers
    BY <2>2 DEF Typed
  <2> QED
    BY <2>1, <2>3, Ended DEF Processes
<1>11. ASSUME NEW r \in Restorers, Rollback(r) PROVE ControlTyped'
  <2>1. PICK failing \in BOOLEAN : Gone(r, failing)
    BY <1>11 DEF Rollback, Gone
  <2>2. \/ raced' = raced
        \/ \E D : raced' = (raced \union {q \in Restorers : pc[q] # "idle"}) \ D \/ raced' = raced \ D
    BY <1>11 DEF Rollback, Write
  <2>3. raced' \subseteq Restorers
    BY <2>2 DEF Typed
  <2> QED
    BY <2>1, <2>3, Ended DEF Processes
<1>12. ASSUME Open PROVE ControlTyped'
  BY <1>12 DEF Typed, Open, Write
<1>13. ASSUME See PROVE ControlTyped'
  BY <1>13 DEF Typed, See, Write
<1>14. ASSUME Store PROVE ControlTyped'
  <2>1. CASE End(session, TRUE, {}, missing[session])
    BY <1>14, <2>1, Ended DEF Gone, Typed, Store
  <2>2. CASE Goto(session, "store mirror") /\ UNCHANGED told
    BY <1>14, <2>2 DEF Typed, Store
  <2> QED
    BY <1>14, <2>1, <2>2 DEF Store
<1>15. ASSUME StoreMirror PROVE ControlTyped'
  BY <1>15 DEF Typed, StoreMirror
<1>19. ASSUME Close PROVE ControlTyped'
  <2>1. Gone(session, FALSE) /\ raced' = raced
    BY <1>19 DEF Close, Gone
  <2> QED
    BY <2>1, Ended DEF Typed
<1>16. ASSUME Save PROVE ControlTyped'
  BY <1>16 DEF Typed, Save, Write
<1>17. ASSUME NEW p \in Processes, Die(p) PROVE ControlTyped'
  <2>1. PICK failing \in BOOLEAN : Gone(p, failing)
    BY <1>17 DEF Die, Gone
  <2>2. \/ raced' = raced
        \/ \E D : raced' = (raced \union {q \in Restorers : pc[q] # "idle"}) \ D \/ raced' = raced \ D
    BY <1>17 DEF Die, Write
  <2>3. raced' \subseteq Restorers
    BY <2>2 DEF Typed
  <2> QED
    BY <2>1, <2>3, Ended DEF Processes
<1>18. CASE UNCHANGED vars
  BY <1>18 DEF Typed, vars, Write
<1> HIDE DEF ControlTyped, Processes, Steps, Goto, repositories, told
<1> QED
  BY <1>1, <1>2, <1>3, <1>4, <1>5, <1>6, <1>7, <1>8, <1>9, <1>10, <1>11, <1>12, <1>13,
     <1>14, <1>15, <1>16, <1>17, <1>18, <1>19 DEF Next, Command

(* What a step makes of the files and of the work: no revision is lost or    *)
(* changed,                                                                   *)
Later ==
  /\ canonical' \in Seq(Revisions) /\ Numbers \subseteq Numbers'
  /\ \A n \in Numbers : canonical'[n] = canonical[n]

(* A step that leaves the repository loses nothing.                           *)
LEMMA Unwritten == ASSUME Typed, UNCHANGED canonical PROVE Later
BY DEF Typed, FilesTyped, Later, Numbers

(* A step changes no revision that there is.                                  *)
LEMMA Grows == Typed /\ InHand /\ [Next]_vars => Later
<1> SUFFICES ASSUME Typed, InHand, [Next]_vars PROVE Later
  OBVIOUS
<1> USE DEF repositories
<1>1. ASSUME NEW r \in Restorers, Start(r) PROVE Later
  BY <1>1, Unwritten DEF Start
<1>2. ASSUME NEW r \in Restorers, Read(r) PROVE Later
  BY <1>2, Unwritten DEF Read
<1>3. ASSUME NEW r \in Restorers, List(r) PROVE Later
  BY <1>3, Unwritten DEF List
<1>4. ASSUME NEW r \in Restorers, Patch(r) PROVE Later
  BY <1>4, Unwritten DEF Patch
<1>5. ASSUME NEW r \in Restorers, Sync(r) PROVE Later
  <2>1. CASE UNCHANGED canonical
    BY <2>1, Unwritten
  <2>2. CASE Record(r, job[r].listed, job[r].had)
    <3>1. job[r].listed \in Contents /\ job[r].had \in Contents
      BY <1>5, KeptContent DEF Sync, InHand, Hand, Typed, FilesTyped, Replacing
    <3> QED
      BY <2>2, <3>1, Recorded DEF Processes, Later
  <2> QED
    BY <1>5, <2>1, <2>2 DEF Sync
<1>6. ASSUME NEW r \in Restorers, SyncMirror(r) PROVE Later
  BY <1>6, Unwritten DEF SyncMirror
<1>7. ASSUME NEW r \in Restorers, Replace(r) PROVE Later
  BY <1>7, Unwritten DEF Replace
<1>8. ASSUME NEW r \in Restorers, PublishRestored(r) PROVE Later
  <2>1. CASE UNCHANGED canonical
    BY <2>1, Unwritten
  <2>2. CASE Record(r, job[r].had, job[r].target)
    <3>1. job[r].had \in Contents /\ job[r].target \in Contents
      BY <1>8, KeptContent DEF PublishRestored, InHand, Hand, Typed, FilesTyped, Replacing
    <3> QED
      BY <2>2, <3>1, Recorded DEF Processes, Later
  <2> QED
    BY <1>8, <2>1, <2>2 DEF PublishRestored
<1>9. ASSUME NEW r \in Restorers, RestoredMirror(r) PROVE Later
  BY <1>9, Unwritten DEF RestoredMirror
<1>10. ASSUME NEW r \in Restorers, Fails(r) PROVE Later
  BY <1>10, Unwritten DEF Fails
<1>11. ASSUME NEW r \in Restorers, Rollback(r) PROVE Later
  BY <1>11, Unwritten DEF Rollback
<1>12. ASSUME Open PROVE Later
  BY <1>12, Unwritten DEF Open
<1>13. ASSUME See PROVE Later
  BY <1>13, Unwritten DEF See
<1>14. ASSUME Store PROVE Later
  <2>1. CASE UNCHANGED canonical
    BY <2>1, Unwritten
  <2>2. CASE Record(session, base, job[session].target)
    <3>1. base \in Contents /\ job[session].target \in Contents
      BY <1>14, KeptContent DEF Store, InHand, Hand, Typed, FilesTyped, Replacing
    <3> QED
      BY <2>2, <3>1, Recorded DEF Processes, Later
  <2> QED
    BY <1>14, <2>1, <2>2 DEF Store
<1>15. ASSUME StoreMirror PROVE Later
  BY <1>15, Unwritten DEF StoreMirror
<1>19. ASSUME Close PROVE Later
  BY <1>19, Unwritten DEF Close
<1>16. ASSUME Save PROVE Later
  BY <1>16, Unwritten DEF Save
<1>17. ASSUME NEW p \in Processes, Die(p) PROVE Later
  BY <1>17, Unwritten DEF Die
<1>18. CASE UNCHANGED vars
  BY <1>18, Unwritten DEF vars
<1> HIDE DEF repositories
<1> QED
  BY <1>1, <1>2, <1>3, <1>4, <1>5, <1>6, <1>7, <1>8, <1>9, <1>10, <1>11, <1>12, <1>13,
     <1>14, <1>15, <1>16, <1>17, <1>18, <1>19 DEF Next, Command

(* the file and the baseline have their types,                                *)
Live == live' \in Contents \union {None} /\ base' \in Contents

(* The file and the baseline keep their types,                                *)
LEMMA LiveStep == Typed /\ InHand /\ [Next]_vars => Live
<1> SUFFICES ASSUME Typed, InHand, [Next]_vars PROVE Live
  OBVIOUS
<1> USE DEF Live, Typed, FilesTyped, repositories
<1>1. ASSUME NEW r \in Restorers, Start(r) PROVE Live
  BY <1>1 DEF Start, Write
<1>2. ASSUME NEW r \in Restorers, Read(r) PROVE Live
  BY <1>2 DEF Read, Write
<1>3. ASSUME NEW r \in Restorers, List(r) PROVE Live
  BY <1>3 DEF List, Write
<1>4. ASSUME NEW r \in Restorers, Patch(r) PROVE Live
  BY <1>4 DEF Patch, Write
<1>5. ASSUME NEW r \in Restorers, Sync(r) PROVE Live
  BY <1>5 DEF Sync, Write
<1>6. ASSUME NEW r \in Restorers, SyncMirror(r) PROVE Live
  BY <1>6 DEF SyncMirror, Write
<1>7. ASSUME NEW r \in Restorers, Replace(r) PROVE Live
  BY <1>7 DEF Replace, Write, InHand, Hand, Replacing
<1>8. ASSUME NEW r \in Restorers, PublishRestored(r) PROVE Live
  BY <1>8 DEF PublishRestored, Write
<1>9. ASSUME NEW r \in Restorers, RestoredMirror(r) PROVE Live
  BY <1>9 DEF RestoredMirror, Write
<1>10. ASSUME NEW r \in Restorers, Fails(r) PROVE Live
  BY <1>10 DEF Fails, Write
<1>11. ASSUME NEW r \in Restorers, Rollback(r) PROVE Live
  BY <1>11 DEF Rollback, Write, InHand, Hand, Replacing
<1>12. ASSUME Open PROVE Live
  BY <1>12 DEF Open, Write
<1>13. ASSUME See PROVE Live
  BY <1>13 DEF See, Write
<1>14. ASSUME Store PROVE Live
  BY <1>14 DEF Store, InHand, Hand
<1>15. ASSUME StoreMirror PROVE Live
  BY <1>15 DEF StoreMirror, Write
<1>19. ASSUME Close PROVE Live
  BY <1>19 DEF Close
<1>16. ASSUME Save PROVE Live
  BY <1>16 DEF Save, Write
<1>17. ASSUME NEW p \in Processes, Die(p) PROVE Live
  BY <1>17 DEF Die, Write
<1>18. CASE UNCHANGED vars
  BY <1>18 DEF vars, Write
<1> HIDE DEF Live, Typed, FilesTyped, repositories
<1> QED
  BY <1>1, <1>2, <1>3, <1>4, <1>5, <1>6, <1>7, <1>8, <1>9, <1>10, <1>11, <1>12, <1>13,
     <1>14, <1>15, <1>16, <1>17, <1>18, <1>19 DEF Next, Command

(* the mirror takes one revision at a time,                                   *)
Mirror == mirror' = mirror \/ \E n \in Numbers : mirror' = Append(mirror, n)

(* the mirror,                                                                *)
LEMMA MirrorStep == Typed /\ InHand /\ [Next]_vars => Mirror
<1> SUFFICES ASSUME Typed, InHand, [Next]_vars PROVE Mirror
  OBVIOUS
<1> USE DEF Mirror, Processes, repositories, Mirrored, Unmirrored
<1>1. ASSUME NEW r \in Restorers, Start(r) PROVE Mirror
  BY <1>1 DEF Start
<1>2. ASSUME NEW r \in Restorers, Read(r) PROVE Mirror
  BY <1>2 DEF Read
<1>3. ASSUME NEW r \in Restorers, List(r) PROVE Mirror
  BY <1>3 DEF List
<1>4. ASSUME NEW r \in Restorers, Patch(r) PROVE Mirror
  BY <1>4 DEF Patch
<1>5. ASSUME NEW r \in Restorers, Sync(r) PROVE Mirror
  BY <1>5 DEF Sync
<1>6. ASSUME NEW r \in Restorers, SyncMirror(r) PROVE Mirror
  BY <1>6 DEF SyncMirror, InHand, Hand, Publishing
<1>7. ASSUME NEW r \in Restorers, Replace(r) PROVE Mirror
  BY <1>7 DEF Replace
<1>8. ASSUME NEW r \in Restorers, PublishRestored(r) PROVE Mirror
  BY <1>8 DEF PublishRestored
<1>9. ASSUME NEW r \in Restorers, RestoredMirror(r) PROVE Mirror
  BY <1>9 DEF RestoredMirror, InHand, Hand, Publishing
<1>10. ASSUME NEW r \in Restorers, Fails(r) PROVE Mirror
  BY <1>10 DEF Fails
<1>11. ASSUME NEW r \in Restorers, Rollback(r) PROVE Mirror
  BY <1>11 DEF Rollback
<1>12. ASSUME Open PROVE Mirror
  BY <1>12 DEF Open
<1>13. ASSUME See PROVE Mirror
  BY <1>13 DEF See
<1>14. ASSUME Store PROVE Mirror
  BY <1>14 DEF Store
<1>15. ASSUME StoreMirror PROVE Mirror
  BY <1>15 DEF StoreMirror, InHand, Hand, Publishing
<1>19. ASSUME Close PROVE Mirror
  BY <1>19 DEF Close
<1>16. ASSUME Save PROVE Mirror
  BY <1>16 DEF Save
<1>17. ASSUME NEW p \in Processes, Die(p) PROVE Mirror
  BY <1>17 DEF Die
<1>18. CASE UNCHANGED vars
  BY <1>18 DEF vars
<1> HIDE DEF Mirror, Processes, repositories, Mirrored, Unmirrored
<1> QED
  BY <1>1, <1>2, <1>3, <1>4, <1>5, <1>6, <1>7, <1>8, <1>9, <1>10, <1>11, <1>12, <1>13,
     <1>14, <1>15, <1>16, <1>17, <1>18, <1>19 DEF Next, Command

(* so that the files keep their types.                                        *)
LEMMA FilesStep == Typed /\ InHand /\ [Next]_vars => FilesTyped'
<1> SUFFICES ASSUME Typed, InHand, [Next]_vars PROVE FilesTyped'
  OBVIOUS
<1>1. Later /\ Live /\ Mirror
  BY Grows, LiveStep, MirrorStep
<1>2. mirror \in Seq(Nat) /\ \A k \in DOMAIN mirror : mirror[k] \in Numbers'
  BY <1>1 DEF Typed, FilesTyped, Later
<1>3. ASSUME NEW n \in Numbers, mirror' = Append(mirror, n)
      PROVE  mirror' \in Seq(Nat) /\ \A k \in DOMAIN mirror' : mirror'[k] \in Numbers'
  <2>1. n \in Nat /\ n \in Numbers'
    BY <1>1 DEF Later, Numbers, Typed, FilesTyped
  <2> QED
    BY <1>2, <1>3, <2>1
<1>4. mirror' \in Seq(Nat) /\ \A k \in DOMAIN mirror' : mirror'[k] \in Numbers'
  BY <1>1, <1>2, <1>3 DEF Mirror
<1> QED
  BY <1>1, <1>4 DEF FilesTyped, Later, Live

(* and what the processes work with.  Publishing sets the number made,        *)
LEMMA MadeWork ==
  ASSUME Typed, Later, NEW p \in Processes, Numbers' = Numbers \union {Len(canonical) + 1},
         job' = [job EXCEPT ![p].made = Len(canonical) + 1]
  PROVE  /\ job' \in [Processes -> Jobs]
         /\ \A q \in Processes : job'[q].made \in Numbers' \union {0}
<1>1. Len(canonical) + 1 \in Nat /\ job \in [Processes -> Jobs]
  BY DEF Typed, FilesTyped, WorkTyped
<1>2. /\ job' \in [Processes -> Jobs] /\ job'[p].made = Len(canonical) + 1
      /\ \A q \in Processes : q # p => job'[q] = job[q]
  BY <1>1, SetMade
<1> QED
  BY <1>2 DEF Typed, WorkTyped

(* jobs keep their types,                                                     *)
Worked ==
  /\ job' \in [Processes -> Jobs]
  /\ \A p \in Processes : job'[p].made \in Numbers' \union {0}

(* other steps leave it, or clear it.                                         *)
LEMMA OldWork ==
  ASSUME Typed, Later, job' \in [Processes -> Jobs],
         \A p \in Processes : job'[p].made \in {job[p].made, 0}
  PROVE  Worked
BY DEF Typed, WorkTyped, Later, Worked

(* Every step keeps the types of the jobs.                                    *)
LEMMA WorkStep == Typed /\ InHand /\ [Next]_vars => Worked
<1> SUFFICES ASSUME Typed, InHand, [Next]_vars PROVE Worked
  OBVIOUS
<1>0. Later /\ job \in [Processes -> Jobs]
  BY Grows DEF Typed, WorkTyped
<1> USE DEF Processes, repositories, told
<1>1. ASSUME NEW r \in Restorers, Start(r) PROVE Worked
  <2>0. PICK n \in Numbers :
          \E new \in {RestoreBackup(n), RestoreRendered(n), RestoreDiff(n)} :
            job' = [job EXCEPT ![r] = new]
    BY <1>1 DEF Start
  <2>1. PICK new \in {RestoreBackup(n), RestoreRendered(n), RestoreDiff(n)} :
          job' = [job EXCEPT ![r] = new]
    BY <2>0
  <2>2. canonical[n] \in Revisions /\ Latest \in Revisions
    BY DEF Typed, FilesTyped, Numbers, Latest
  <2>3. canonical[n].backup \in Contents /\ canonical[n].shows \in Contents /\ Latest.shows \in Contents
    BY <2>2 DEF Revisions
  <2>4. RestoreBackup(n) \in Jobs /\ RestoreBackup(n).made = 0
    BY <2>3, NoJobTyped DEF RestoreBackup, NoJob, Jobs
  <2>5. RestoreRendered(n) \in Jobs /\ RestoreRendered(n).made = 0
    BY <2>3, NoJobTyped DEF RestoreRendered, NoJob, Jobs
  <2>6. RestoreDiff(n) \in Jobs /\ RestoreDiff(n).made = 0
    BY <2>2, <2>3, NoJobTyped DEF RestoreDiff, NoJob, Jobs
  <2>7. new \in Jobs /\ new.made = 0
    BY <2>1, <2>4, <2>5, <2>6
  <2> QED
    BY <2>1, <2>7, SetJob, <1>0, OldWork
<1>2. ASSUME NEW r \in Restorers, Read(r) PROVE Worked
  <2>1. live \in Contents \union {None}
    BY <1>2 DEF Read, Typed, FilesTyped
  <2>2. job' = [job EXCEPT ![r].had = live]
    BY <1>2 DEF Read
  <2> QED
    BY <2>1, <2>2, SetHad, <1>0, OldWork
<1>3. ASSUME NEW r \in Restorers, List(r) PROVE Worked
  <2>3. Len(canonical) > 0
    BY <1>3 DEF List, InHand, Hand
  <2>0. Latest \in Revisions
    BY <2>3 DEF Typed, FilesTyped, Latest
  <2>1. Latest.shows \in Contents
    BY <2>0 DEF Revisions
  <2>2. job' = [job EXCEPT ![r].listed = Latest.shows]
    BY <1>3 DEF List
  <2> QED
    BY <2>1, <2>2, SetListed, <1>0, OldWork
<1>4. ASSUME NEW r \in Restorers, Patch(r) PROVE Worked
  <2>1. PICK c \in IF job[r].had = job[r].asked.backup THEN {job[r].asked.shows} ELSE Contents :
          job' = [job EXCEPT ![r].target = c]
    BY <1>4 DEF Patch
  <2>2. c \in Contents
    BY <1>4 DEF Patch, InHand, Hand, Revisions
  <2> QED
    BY <2>1, <2>2, SetTarget, <1>0, OldWork
<1>5. ASSUME NEW r \in Restorers, Sync(r) PROVE Worked
  <2>1. CASE UNCHANGED <<canonical, job>>
    BY <2>1, <1>0, OldWork
  <2>2. CASE Record(r, job[r].listed, job[r].had)
    <3>1. job[r].listed \in Contents /\ job[r].had \in Contents
      BY <1>5, KeptContent DEF Sync, InHand, Hand, Typed, FilesTyped, Replacing
    <3> QED
      BY <2>2, <3>1, Recorded, <1>0, MadeWork DEF Worked
  <2> QED
    BY <1>5, <2>1, <2>2 DEF Sync
<1>6. ASSUME NEW r \in Restorers, SyncMirror(r) PROVE Worked
  BY <1>6, <1>0, OldWork DEF SyncMirror
<1>7. ASSUME NEW r \in Restorers, Replace(r) PROVE Worked
  <2>1. CASE job' = job
    BY <2>1, <1>0, OldWork
  <2>2. CASE End(r, TRUE, {}, missing[r])
    <3>1. r \in Processes /\ Gone(r, TRUE)
      BY <2>2 DEF Gone
    <3> HIDE DEF Processes
    <3>2. /\ job' \in [Processes -> Jobs] /\ job'[r] = NoJob
          /\ \A q \in Processes : q # r => job'[q] = job[q]
      BY <3>1, Ended
    <3> QED
      BY <3>2, <1>0, OldWork DEF NoJob
  <2> QED
    BY <1>7, <2>1, <2>2 DEF Replace
<1>8. ASSUME NEW r \in Restorers, PublishRestored(r) PROVE Worked
  <2>1. CASE UNCHANGED <<canonical, job>>
    BY <2>1, <1>0, OldWork
  <2>2. CASE Record(r, job[r].had, job[r].target)
    <3>1. job[r].had \in Contents /\ job[r].target \in Contents
      BY <1>8, KeptContent DEF PublishRestored, InHand, Hand, Typed, FilesTyped, Replacing
    <3> QED
      BY <2>2, <3>1, Recorded, <1>0, MadeWork DEF Worked
  <2> QED
    BY <1>8, <2>1, <2>2 DEF PublishRestored
<1>9. ASSUME NEW r \in Restorers, RestoredMirror(r) PROVE Worked
  <2>1. PICK failing \in BOOLEAN : Gone(r, failing)
    BY <1>9 DEF RestoredMirror, Gone
  <2> QED
    BY <2>1, Ended, <1>0, OldWork DEF NoJob
<1>10. ASSUME NEW r \in Restorers, Fails(r) PROVE Worked
  <2>1. PICK failing \in BOOLEAN : Gone(r, failing)
    BY <1>10 DEF Fails, Gone
  <2> QED
    BY <2>1, Ended, <1>0, OldWork DEF NoJob
<1>11. ASSUME NEW r \in Restorers, Rollback(r) PROVE Worked
  <2>1. PICK failing \in BOOLEAN : Gone(r, failing)
    BY <1>11 DEF Rollback, Gone
  <2> QED
    BY <2>1, Ended, <1>0, OldWork DEF NoJob
<1>12. ASSUME Open PROVE Worked
  BY <1>12, <1>0, OldWork DEF Open
<1>13. ASSUME See PROVE Worked
  <2>1. live \in Contents \union {None}
    BY <1>13 DEF See, Typed, FilesTyped
  <2>2. job' = [job EXCEPT ![session].target = live]
    BY <1>13 DEF See
  <2> QED
    BY <2>1, <2>2, SetTarget, <1>0, OldWork
<1>14. ASSUME Store PROVE Worked
  <2>1. CASE UNCHANGED <<canonical, job>>
    BY <2>1, <1>0, OldWork
  <2>2. CASE Record(session, base, job[session].target)
    <3>1. base \in Contents /\ job[session].target \in Contents
      BY <1>14, KeptContent DEF Store, InHand, Hand, Typed, FilesTyped, Replacing
    <3> QED
      BY <2>2, <3>1, Recorded, <1>0, MadeWork DEF Worked
  <2>3. CASE End(session, TRUE, {}, missing[session])
    <3>1. session \in Processes /\ Gone(session, TRUE)
      BY <2>3 DEF Gone
    <3> HIDE DEF Processes
    <3>2. /\ job' \in [Processes -> Jobs] /\ job'[session] = NoJob
          /\ \A q \in Processes : q # session => job'[q] = job[q]
      BY <3>1, Ended
    <3> QED
      BY <3>2, <1>0, OldWork DEF NoJob
  <2> QED
    BY <1>14, <2>1, <2>2, <2>3 DEF Store
<1>15. ASSUME StoreMirror PROVE Worked
  <2>1. session \in Processes /\ job' = [job EXCEPT ![session] = NoJob]
    BY <1>15 DEF StoreMirror
  <2> HIDE DEF Processes
  <2>2. /\ job' \in [Processes -> Jobs] /\ job'[session] = NoJob
        /\ \A q \in Processes : q # session => job'[q] = job[q]
    BY <1>0, <2>1, NoJobTyped, SetJob
  <2> QED
    BY <2>2, <1>0, OldWork DEF NoJob
<1>19. ASSUME Close PROVE Worked
  <2>1. session \in Processes /\ Gone(session, FALSE)
    BY <1>19 DEF Close, Gone
  <2> HIDE DEF Processes
  <2>2. /\ job' \in [Processes -> Jobs] /\ job'[session] = NoJob
        /\ \A q \in Processes : q # session => job'[q] = job[q]
    BY <2>1, Ended
  <2> QED
    BY <2>2, <1>0, OldWork DEF NoJob
<1>16. ASSUME Save PROVE Worked
  BY <1>16, <1>0, OldWork DEF Save
<1>17. ASSUME NEW p \in Processes, Die(p) PROVE Worked
  <2>1. PICK failing \in BOOLEAN : Gone(p, failing)
    BY <1>17 DEF Die, Gone
  <2> QED
    BY <2>1, Ended, <1>0, OldWork DEF NoJob
<1>18. CASE UNCHANGED vars
  BY <1>18, <1>0, OldWork DEF vars
<1> HIDE DEF Processes, repositories, told
<1> QED
  BY <1>1, <1>2, <1>3, <1>4, <1>5, <1>6, <1>7, <1>8, <1>9, <1>10, <1>11, <1>12, <1>13,
     <1>14, <1>15, <1>16, <1>17, <1>18, <1>19 DEF Next, Command

(* and so does what is told of a mirror that fails.                           *)
Told ==
  /\ missing' \in [Processes -> SUBSET Numbers']
  /\ warned' \subseteq Numbers' /\ lost' \subseteq Numbers'

(* what was told of old revisions is still told of revisions,                 *)
LEMMA OldTold ==
  ASSUME Later, missing' \in [Processes -> SUBSET Numbers],
         warned' \subseteq Numbers, lost' \subseteq Numbers
  PROVE  Told
<1>1. Numbers \subseteq Numbers'
  BY DEF Later
<1> QED
  BY <1>1 DEF Told

(* and so is what an ending process tells.                                    *)
LEMMA EndTold ==
  ASSUME Typed, Later, NEW p \in Processes, NEW failing \in BOOLEAN,
         NEW said \in SUBSET Numbers, NEW dropped \in SUBSET Numbers,
         End(p, failing, said, dropped)
  PROVE  Told
<1>1. missing' \in [Processes -> SUBSET Numbers]
  BY Ended DEF Gone
<1>2. warned' \subseteq Numbers /\ lost' \subseteq Numbers
  BY DEF End, Typed, WorkTyped
<1> QED
  BY <1>1, <1>2, OldTold

(* Every step keeps the types of that.                                        *)
LEMMA ToldStep == Typed /\ InHand /\ [Next]_vars => Told
<1> SUFFICES ASSUME Typed, InHand, [Next]_vars PROVE Told
  OBVIOUS
<1>0. /\ Later /\ missing \in [Processes -> SUBSET Numbers]
      /\ warned \subseteq Numbers /\ lost \subseteq Numbers
  BY Grows DEF Typed, WorkTyped
<1>a. session \in Processes /\ \A r \in Restorers : r \in Processes
  BY DEF Processes
<1>b. \A p \in Processes : missing[p] \in SUBSET Numbers
  BY <1>0
<1>c. \A p \in Processes : pc[p] \in Publishing => job[p].made \in Numbers
  BY DEF InHand
<1>d. UNCHANGED <<missing, warned, lost>> => Told
  BY <1>0, OldTold
<1>1. ASSUME NEW r \in Restorers, Start(r) PROVE Told
  BY <1>1, <1>d DEF Start, told
<1>2. ASSUME NEW r \in Restorers, Read(r) PROVE Told
  BY <1>2, <1>d DEF Read, told
<1>3. ASSUME NEW r \in Restorers, List(r) PROVE Told
  BY <1>3, <1>d DEF List, told
<1>4. ASSUME NEW r \in Restorers, Patch(r) PROVE Told
  BY <1>4, <1>d DEF Patch, told
<1>5. ASSUME NEW r \in Restorers, Sync(r) PROVE Told
  BY <1>5, <1>d DEF Sync, told
<1>6. ASSUME NEW r \in Restorers, SyncMirror(r) PROVE Told
  <2>1. r \in Processes /\ job[r].made \in Numbers
    BY <1>6, <1>a, <1>c DEF SyncMirror, Publishing
  <2>2. missing' \in {missing, [missing EXCEPT ![r] = {job[r].made}]}
    BY <1>6 DEF SyncMirror
  <2>3. missing' \in [Processes -> SUBSET Numbers]
    BY <1>0, <2>1, <2>2
  <2>4. warned' \in {warned, warned \union {job[r].made}} /\ lost' = lost
    BY <1>6 DEF SyncMirror
  <2> QED
    BY <1>0, <2>1, <2>3, <2>4, OldTold
<1>7. ASSUME NEW r \in Restorers, Replace(r) PROVE Told
  <2>1. CASE UNCHANGED told
    BY <1>d, <2>1 DEF told
  <2>2. CASE End(r, TRUE, {}, missing[r])
    BY <1>0, <1>a, <1>b, <2>2, EndTold
  <2> QED
    BY <1>7, <2>1, <2>2 DEF Replace
<1>8. ASSUME NEW r \in Restorers, PublishRestored(r) PROVE Told
  BY <1>8, <1>d DEF PublishRestored, told
<1>9. ASSUME NEW r \in Restorers, RestoredMirror(r) PROVE Told
  <2>1. PICK said \in {missing[r], missing[r] \union {job[r].made}} : End(r, FALSE, said, {})
    BY <1>9 DEF RestoredMirror
  <2>2. r \in Processes /\ job[r].made \in Numbers
    BY <1>9, <1>a, <1>c DEF RestoredMirror, Publishing
  <2>a. missing[r] \in SUBSET Numbers
    BY <1>b, <2>2
  <2>3. said \in SUBSET Numbers
    BY <2>1, <2>2, <2>a
  <2> QED
    <3>1. FALSE \in BOOLEAN /\ {} \in SUBSET Numbers
      OBVIOUS
    <3> QED
      BY ONLY <1>0, <2>1, <2>2, <2>3, <3>1, Typed, EndTold
<1>10. ASSUME NEW r \in Restorers, Fails(r) PROVE Told
  <2>1. PICK failing \in BOOLEAN : End(r, failing, {}, missing[r])
    BY <1>10 DEF Fails
  <2> QED
    BY <1>0, <1>a, <1>b, <2>1, EndTold
<1>11. ASSUME NEW r \in Restorers, Rollback(r) PROVE Told
  <2>1. End(r, TRUE, {}, missing[r])
    BY <1>11 DEF Rollback
  <2> QED
    BY <1>0, <1>a, <1>b, <2>1, EndTold
<1>12. ASSUME Open PROVE Told
  BY <1>12, <1>d DEF Open, told
<1>13. ASSUME See PROVE Told
  BY <1>13, <1>d DEF See, told
<1>14. ASSUME Store PROVE Told
  <2>2. CASE End(session, TRUE, {}, missing[session])
    BY <1>0, <1>a, <1>b, <2>2, EndTold
  <2>3. CASE UNCHANGED told
    BY <1>d, <2>3 DEF told
  <2> QED
    BY <1>14, <2>2, <2>3 DEF Store
<1>15. ASSUME StoreMirror PROVE Told
  <2>1. job[session].made \in Numbers /\ missing[session] \in SUBSET Numbers
    BY <1>15, <1>a, <1>b, <1>c DEF StoreMirror, Publishing
  <2>2. missing' \in {missing, [missing EXCEPT ![session] = @ \union {job[session].made}]}
    BY <1>15 DEF StoreMirror
  <2>3. missing' \in [Processes -> SUBSET Numbers]
    BY <1>0, <2>1, <2>2
  <2> QED
    BY <1>0, <1>15, <2>3, OldTold DEF StoreMirror
<1>16. ASSUME Save PROVE Told
  BY <1>16, <1>d DEF Save, told
<1>17. ASSUME NEW p \in Processes, Die(p) PROVE Told
  <2> DEFINE dropped == missing[p] \union (IF pc[p] \in Publishing THEN {job[p].made} ELSE {})
  <2>1. End(p, FALSE, {}, dropped)
    BY <1>17 DEF Die
  <2>a. missing[p] \in SUBSET Numbers
    BY <1>b
  <2>2. dropped \in SUBSET Numbers
    BY <1>c, <2>a
  <2> HIDE DEF dropped
  <2> QED
    BY <1>0, <2>1, <2>2, EndTold
<1>19. ASSUME Close PROVE Told
  <2>1. End(session, FALSE, missing[session], {})
    BY <1>19 DEF Close
  <2>2. FALSE \in BOOLEAN /\ {} \in SUBSET Numbers /\ missing[session] \in SUBSET Numbers
    BY <1>a, <1>b
  <2> QED
    BY ONLY <1>0, <1>a, <2>1, <2>2, Typed, EndTold
<1>18. CASE UNCHANGED vars
  BY <1>18, <1>d DEF vars
<1> QED
  BY <1>1, <1>2, <1>3, <1>4, <1>5, <1>6, <1>7, <1>8, <1>9, <1>10, <1>11, <1>12, <1>13,
     <1>14, <1>15, <1>16, <1>17, <1>18, <1>19 DEF Next, Command

(* Every step keeps the types.                                                *)
LEMMA TypedStep == Typed /\ InHand /\ [Next]_vars => Typed'
BY ControlStep, CountersStep, FilesStep, WorkStep, ToldStep DEF Typed, WorkTyped, Worked, Told


-----------------------------------------------------------------------------
(* A step is a step of one process: what the others do next, have in hand and *)
(* are to tell stays.                                                         *)
Alone(p) ==
  \A q \in Processes \ {p} :
    pc'[q] = pc[q] /\ job'[q] = job[q] /\ missing'[q] = missing[q] /\ failed'[q] = failed[q]

(* A process that ends leaves the others,                                     *)
LEMMA EndsAlone ==
  ASSUME Typed, NEW p \in Processes, NEW failing \in BOOLEAN, Gone(p, failing)
  PROVE  Alone(p) /\ pc'[p] = "idle" /\ missing'[p] = {}
BY Ended DEF Alone

(* a command does,                                                            *)
LEMMA CommandAlone == Typed => \A r \in Restorers : Command(r) => Alone(r)
<1> SUFFICES ASSUME Typed, NEW r \in Restorers, Command(r) PROVE Alone(r)
  OBVIOUS
<1>0. r \in Processes
  BY DEF Processes
<1>1. CASE Start(r)
  BY <1>1 DEF Typed, ControlTyped, WorkTyped, Alone, Start, Goto
<1>2. CASE Read(r)
  BY <1>2 DEF Typed, ControlTyped, WorkTyped, Alone, Read, Goto, told
<1>3. CASE List(r)
  BY <1>3 DEF Typed, ControlTyped, WorkTyped, Alone, List, Goto, told
<1>4. CASE Patch(r)
  BY <1>4 DEF Typed, ControlTyped, WorkTyped, Alone, Patch, Goto, told
<1>5. CASE Sync(r)
  <2>1. job' = job \/ job' = [job EXCEPT ![r].made = Len(canonical) + 1]
    BY <1>5 DEF Sync, Record
  <2>2. \E label : pc' = [pc EXCEPT ![r] = label]
    BY <1>5 DEF Sync, Goto
  <2> QED
    BY <1>5, <2>1, <2>2 DEF Typed, ControlTyped, WorkTyped, Alone, Sync, told
<1>6. CASE SyncMirror(r)
  BY <1>6 DEF Typed, ControlTyped, WorkTyped, Alone, SyncMirror, Goto
<1>7. CASE Replace(r)
  <2>1. CASE Goto(r, "publish") /\ UNCHANGED <<job, told>>
    BY <2>1 DEF Typed, ControlTyped, WorkTyped, Alone, Goto, told
  <2>2. CASE End(r, TRUE, {}, missing[r])
    BY <2>2, <1>0, EndsAlone DEF Gone
  <2> QED
    BY <1>7, <2>1, <2>2 DEF Replace
<1>8. CASE PublishRestored(r)
  <2>1. job' = job \/ job' = [job EXCEPT ![r].made = Len(canonical) + 1]
    BY <1>8 DEF PublishRestored, Record
  <2>2. \E label : pc' = [pc EXCEPT ![r] = label]
    BY <1>8 DEF PublishRestored, Goto
  <2> QED
    BY <1>8, <2>1, <2>2 DEF Typed, ControlTyped, WorkTyped, Alone, PublishRestored, told
<1>9. CASE RestoredMirror(r)
  <2>1. PICK failing \in BOOLEAN : Gone(r, failing)
    BY <1>9 DEF RestoredMirror, Gone
  <2> QED
    BY <2>1, <1>0, EndsAlone
<1>10. CASE Fails(r)
  <2>1. PICK failing \in BOOLEAN : Gone(r, failing)
    BY <1>10 DEF Fails, Gone
  <2> QED
    BY <2>1, <1>0, EndsAlone
<1>11. CASE Rollback(r)
  <2>1. PICK failing \in BOOLEAN : Gone(r, failing)
    BY <1>11 DEF Rollback, Gone
  <2> QED
    BY <2>1, <1>0, EndsAlone
<1> QED
  BY <1>1, <1>2, <1>3, <1>4, <1>5, <1>6, <1>7, <1>8, <1>9, <1>10, <1>11 DEF Command

(* and so does the session; a save of the editor leaves everyone.             *)
LEMMA SessionAlone == Typed /\ (Open \/ See \/ Store \/ StoreMirror \/ Close \/ Save)
                        => Alone(session)
<1> SUFFICES ASSUME Typed, Open \/ See \/ Store \/ StoreMirror \/ Close \/ Save
             PROVE  Alone(session)
  OBVIOUS
<1>0. session \in Processes
  BY DEF Processes
<1>1. CASE Open
  BY <1>1 DEF Typed, ControlTyped, Alone, Open, Goto, told
<1>2. CASE See
  BY <1>2 DEF Typed, ControlTyped, WorkTyped, Alone, See, Goto, told
<1>3. CASE Store
  <2>1. CASE End(session, TRUE, {}, missing[session])
    BY <1>0, <2>1, EndsAlone DEF Gone
  <2>2. CASE Record(session, base, job[session].target) /\ Goto(session, "store mirror") /\ UNCHANGED told
    <3>1. job' = [job EXCEPT ![session].made = Len(canonical) + 1]
      BY <2>2 DEF Record
    <3> QED
      BY <2>2, <3>1 DEF Typed, ControlTyped, WorkTyped, Alone, Goto, told
  <2> QED
    BY <1>3, <2>1, <2>2 DEF Store
<1>4. CASE StoreMirror
  BY <1>4 DEF Typed, ControlTyped, WorkTyped, Alone, StoreMirror, Goto
<1>6. CASE Close
  BY <1>6, <1>0, EndsAlone DEF Close, Gone
<1>5. CASE Save
  BY <1>5 DEF Alone, Save, told
<1> QED
  BY <1>1, <1>2, <1>3, <1>4, <1>5, <1>6

-----------------------------------------------------------------------------
(* What a command has in hand stays while others step,                        *)
LEMMA HandStays ==
  ASSUME Typed, Later, NEW r \in Restorers, Hand(r),
         pc'[r] = pc[r], job'[r] = job[r], missing'[r] = missing[r]
  PROVE  Hand(r)'
<1>1. Len(canonical) > 0 => Len(canonical') > 0
  BY DEF Later, Numbers, Typed, FilesTyped
<1>2. \A c : Kept(c) => Kept(c)'
  BY KeptStays DEF Later
<1> QED
  BY <1>1, <1>2 DEF Hand

(* and its own steps give it what the next one needs.                         *)
LEMMA HandStep ==
  ASSUME Typed, InHand, Later, NEW r \in Restorers, Command(r)
  PROVE  Hand(r)'
<1>0. r \in Processes /\ job \in [Processes -> Jobs] /\ Hand(r)
  BY DEF Processes, Typed, WorkTyped, InHand
<1>a. Len(canonical) > 0 => Len(canonical') > 0
  BY DEF Later, Numbers, Typed, FilesTyped
<1>b. \A c : Kept(c) => Kept(c)'
  BY KeptStays DEF Later
<1>c. \A label : Goto(r, label) => pc'[r] = label
  BY <1>0 DEF Typed, ControlTyped, Goto
<1>d. Len(canonical) > 0 => Latest \in Revisions /\ Kept(Latest.shows)
  BY DEF Typed, FilesTyped, Latest, Kept, Numbers
<1>e. Start(r) \/ Read(r) \/ List(r) \/ Patch(r) \/ Sync(r) => missing'[r] = missing[r]
  BY DEF Start, Read, List, Patch, Sync, told
<1>1. CASE Start(r)
  <2>0. PICK n \in Numbers :
          \E new \in {RestoreBackup(n), RestoreRendered(n), RestoreDiff(n)} :
            job' = [job EXCEPT ![r] = new]
    BY <1>1 DEF Start
  <2>1. PICK new \in {RestoreBackup(n), RestoreRendered(n), RestoreDiff(n)} :
          job' = [job EXCEPT ![r] = new]
    BY <2>0
  <2>2. canonical[n] \in Revisions /\ Len(canonical) > 0 /\ canonical' = canonical
    BY <1>1 DEF Typed, FilesTyped, Numbers, Start, repositories
  <2>3. canonical[n].backup \in Contents /\ canonical[n].shows \in Contents
    BY <2>2 DEF Revisions
  <2>4. new.asked = None => new.target \in Contents
    BY <2>1, <2>2, <2>3, RestoreAssumption DEF RestoreBackup, RestoreRendered, RestoreDiff, NoJob
  <2>5. new.asked # None => new.listed = Latest.shows
    BY <2>1 DEF RestoreBackup, RestoreRendered, RestoreDiff, NoJob
  <2>6. pc'[r] = "read" /\ job'[r] = new
    BY <1>0, <1>1, <1>c, <2>1 DEF Start
  <2>7. new.asked # None => Kept(new.listed)'
    BY <1>b, <1>d, <2>2, <2>5
  <2> QED
    BY <1>0, <1>1, <1>e, <2>2, <2>4, <2>6, <2>7 DEF Start, Hand, Replacing
<1>2. CASE Read(r)
  <2>1. live \in Contents
    BY <1>2 DEF Read, Typed, FilesTyped
  <2>2. /\ job'[r].had = live /\ job'[r].asked = job[r].asked
        /\ job'[r].listed = job[r].listed /\ job'[r].target = job[r].target
    BY <1>0, <1>2, <2>1, SetHad DEF Read
  <2>3. pc[r] = "read" /\ pc'[r] = IF job[r].asked = None THEN "list" ELSE "patch"
    BY <1>2, <1>c DEF Read
  <2>4. job[r].asked \in Revisions \union {None}
    BY <1>0 DEF Jobs
  <2> QED
    BY <1>0, <1>2, <1>a, <1>b, <1>e, <2>1, <2>2, <2>3, <2>4 DEF Hand, Replacing
<1>3. CASE List(r)
  <2>1. pc[r] = "list" /\ pc'[r] = "sync" /\ job' = [job EXCEPT ![r].listed = Latest.shows]
    BY <1>3, <1>c DEF List
  <2>2. Latest \in Revisions /\ Kept(Latest.shows)
    BY <1>0, <1>d, <2>1 DEF Hand
  <2>3. Latest.shows \in Contents
    BY <2>2 DEF Revisions
  <2>4. job'[r].listed = Latest.shows /\ job'[r].had = job[r].had /\ job'[r].target = job[r].target
    BY <1>0, <2>1, <2>3, SetListed
  <2> QED
    BY <1>0, <1>3, <1>a, <1>b, <1>e, <2>1, <2>2, <2>4 DEF Hand, Replacing
<1>4. CASE Patch(r)
  <2>1. PICK c \in IF job[r].had = job[r].asked.backup THEN {job[r].asked.shows} ELSE Contents :
          job' = [job EXCEPT ![r].target = c]
    BY <1>4 DEF Patch
  <2>2. pc[r] = "patch" /\ pc'[r] = "sync"
    BY <1>4, <1>c DEF Patch
  <2>3. c \in Contents
    BY <1>0, <2>1, <2>2 DEF Hand, Revisions
  <2>4. job'[r].listed = job[r].listed /\ job'[r].had = job[r].had /\ job'[r].target = c
    BY <1>0, <2>1, <2>3, SetTarget
  <2> QED
    BY <1>0, <1>4, <1>a, <1>b, <1>e, <2>2, <2>3, <2>4 DEF Hand, Replacing
<1>5. CASE Sync(r)
  <2>0. pc[r] = "sync"
    BY <1>5 DEF Sync
  <2>1. CASE job[r].listed = job[r].had /\ Goto(r, "replace") /\ UNCHANGED <<canonical, job, faults>>
    <3>1. pc'[r] = "replace" /\ job'[r] = job[r] /\ Kept(job[r].had)
      BY <1>0, <1>c, <2>0, <2>1 DEF Hand
    <3> QED
      BY <1>0, <1>a, <1>b, <2>0, <3>1 DEF Hand, Replacing
  <2>2. CASE Record(r, job[r].listed, job[r].had) /\ Goto(r, "sync mirror")
    <3>1. job[r].listed \in Contents /\ job[r].had \in Contents
      BY <1>0, <2>0, KeptContent DEF Hand
    <3>2. /\ Numbers' = Numbers \union {Len(canonical) + 1}
          /\ canonical'[Len(canonical) + 1].shows = job[r].had
          /\ job' = [job EXCEPT ![r].made = Len(canonical) + 1]
      BY <1>0, <2>2, <3>1, Recorded
    <3>3. Len(canonical) \in Nat
      BY DEF Typed, FilesTyped
    <3>4. job'[r].had = job[r].had /\ job'[r].target = job[r].target
      BY <1>0, <3>2, <3>3, SetMade
    <3>5. Kept(job[r].had)'
      BY <3>2, <3>4 DEF Kept
    <3>6. pc'[r] = "sync mirror"
      BY <1>c, <2>2
    <3> QED
      BY <1>0, <1>5, <1>a, <1>e, <2>0, <3>4, <3>5, <3>6 DEF Hand, Replacing
  <2> QED
    BY <1>5, <2>1, <2>2 DEF Sync
<1>6. CASE SyncMirror(r)
  <2>1. pc[r] = "sync mirror" /\ pc'[r] = "replace" /\ job' = job
    BY <1>6, <1>c DEF SyncMirror
  <2> QED
    BY <1>0, <1>a, <1>b, <2>1 DEF Hand, Replacing
<1>7. CASE Replace(r)
  <2>0. pc[r] = "replace"
    BY <1>7 DEF Replace
  <2>1. CASE Goto(r, "publish") /\ job' = job
    BY <1>0, <1>a, <1>b, <1>c, <2>0, <2>1 DEF Hand, Replacing
  <2>2. CASE End(r, TRUE, {}, missing[r])
    BY <2>2, <1>0, EndsAlone DEF Hand, Replacing, Gone
  <2> QED
    BY <1>7, <2>1, <2>2 DEF Replace
<1>8. CASE PublishRestored(r)
  <2>1. pc[r] = "publish" /\ pc'[r] \in {"mirror", "rollback"}
    BY <1>8, <1>c DEF PublishRestored
  <2>2. Len(canonical) \in Nat
    BY DEF Typed, FilesTyped
  <2>3. job' = job \/ job' = [job EXCEPT ![r].made = Len(canonical) + 1]
    BY <1>8 DEF PublishRestored, Record
  <2>4. job'[r].had = job[r].had /\ job'[r].target = job[r].target
    BY <1>0, <2>2, <2>3, SetMade
  <2> QED
    BY <1>0, <1>a, <1>b, <2>1, <2>4 DEF Hand, Replacing
<1>9. CASE RestoredMirror(r)
  <2>1. PICK failing \in BOOLEAN : Gone(r, failing)
    BY <1>9 DEF RestoredMirror, Gone
  <2> QED
    BY <2>1, <1>0, EndsAlone DEF Hand, Replacing
<1>10. CASE Fails(r)
  <2>1. PICK failing \in BOOLEAN : Gone(r, failing)
    BY <1>10 DEF Fails, Gone
  <2> QED
    BY <2>1, <1>0, EndsAlone DEF Hand, Replacing
<1>11. CASE Rollback(r)
  <2>1. PICK failing \in BOOLEAN : Gone(r, failing)
    BY <1>11 DEF Rollback, Gone
  <2> QED
    BY <2>1, <1>0, EndsAlone DEF Hand, Replacing
<1> QED
  BY <1>1, <1>2, <1>3, <1>4, <1>5, <1>6, <1>7, <1>8, <1>9, <1>10, <1>11 DEF Command


(* Every step keeps what the processes have in hand.                          *)
LEMMA InHandStep == Typed /\ InHand /\ [Next]_vars => InHand'
<1> SUFFICES ASSUME Typed, InHand, [Next]_vars PROVE InHand'
  OBVIOUS
<1>0. Later /\ job \in [Processes -> Jobs] /\ session \notin Restorers
  BY Grows, RestoreAssumption DEF Typed, WorkTyped
<1>a. session \in Processes /\ \A r \in Restorers : r \in Processes /\ r # session
  BY <1>0 DEF Processes
<1>b. \A p \in Processes \ {session} : p \in Restorers
  BY DEF Processes
<1>1. \A r \in Restorers : Hand(r)'
  <2>1. SUFFICES ASSUME NEW r \in Restorers PROVE Hand(r)'
    OBVIOUS
  <2>2. CASE UNCHANGED vars
    BY <1>0, <2>2, HandStays DEF InHand, vars
  <2>3. ASSUME NEW s \in Restorers, Command(s) PROVE Hand(r)'
    <3>1. CASE s = r
      BY <1>0, <2>3, <3>1, HandStep
    <3>2. CASE s # r
      BY <1>0, <1>a, <2>3, <3>2, CommandAlone, HandStays DEF Alone, InHand
    <3> QED
      BY <3>1, <3>2
  <2>4. CASE Open \/ See \/ Store \/ StoreMirror \/ Close \/ Save
    BY <1>0, <1>a, <2>4, SessionAlone, HandStays DEF Alone, InHand
  <2>5. ASSUME NEW p \in Processes, Die(p) PROVE Hand(r)'
    <3>1. Gone(p, FALSE)
      BY <2>5 DEF Die, Gone
    <3>2. Alone(p) /\ pc'[p] = "idle" /\ missing'[p] = {}
      BY <3>1, EndsAlone
    <3>3. CASE p = r
      BY <3>2, <3>3 DEF Hand, Replacing
    <3>4. CASE p # r
      BY <1>0, <1>a, <3>2, <3>4, HandStays DEF Alone, InHand
    <3> QED
      BY <3>3, <3>4
  <2> QED
    BY <2>2, <2>3, <2>4, <2>5 DEF Next
<1>2. /\ pc'[session] \in {"idle", "watch", "store", "store mirror"}
      /\ pc'[session] = "store" => job'[session].target \in Contents
  <2>1. CASE pc'[session] = pc[session] /\ job'[session] = job[session]
    BY <2>1 DEF InHand
  <2>2. CASE pc'[session] \in {"idle", "watch", "store mirror"}
    BY <2>2
  <2>3. ASSUME NEW s \in Restorers, Command(s) PROVE pc'[session] = pc[session] /\ job'[session] = job[session]
    BY <1>a, <2>3, CommandAlone DEF Alone
  <2>4. CASE Save \/ UNCHANGED vars
    BY <2>1, <2>4 DEF Save, vars
  <2>9. CASE Open \/ Close
    <3>1. CASE Open
      BY <1>a, <2>2, <3>1 DEF Open, Goto, Typed, ControlTyped
    <3>2. CASE Close
      BY <1>a, <2>2, <3>2, EndsAlone DEF Close, Gone
    <3> QED
      BY <2>9, <3>1, <3>2
  <2>5. CASE See
    <3>1. pc' = [pc EXCEPT ![session] = "store"] /\ job' = [job EXCEPT ![session].target = live]
      BY <2>5 DEF See, Goto
    <3>2. live \in Contents
      BY <2>5 DEF See, Typed, FilesTyped
    <3>3. job'[session].target = live
      BY <1>0, <1>a, <3>1, <3>2, SetTarget
    <3> QED
      BY <1>a, <3>1, <3>2, <3>3 DEF Typed, ControlTyped
  <2>6. CASE Store
    <3>1. CASE End(session, TRUE, {}, missing[session])
      BY <1>a, <2>2, <3>1, EndsAlone DEF Gone
    <3>2. CASE Goto(session, "store mirror")
      BY <1>a, <2>2, <3>2 DEF Goto, Typed, ControlTyped
    <3> QED
      BY <2>6, <3>1, <3>2 DEF Store
  <2>7. CASE StoreMirror
    BY <1>a, <2>2, <2>7 DEF StoreMirror, Goto, Typed, ControlTyped
  <2>8. ASSUME NEW p \in Processes, Die(p)
        PROVE  pc'[session] = "idle" \/ (pc'[session] = pc[session] /\ job'[session] = job[session])
    <3>1. Gone(p, FALSE)
      BY <2>8 DEF Die, Gone
    <3>2. Alone(p) /\ pc'[p] = "idle"
      BY <3>1, EndsAlone
    <3>3. CASE p = session
      BY <3>2, <3>3
    <3>4. CASE p # session
      BY <1>a, <3>2, <3>4 DEF Alone
    <3> QED
      BY <3>3, <3>4
  <2> QED
    BY <2>1, <2>2, <2>3, <2>4, <2>5, <2>6, <2>7, <2>8, <2>9 DEF Next
<1>3. \A p \in Processes : pc'[p] \in Publishing => job'[p].made \in Numbers'
  <2>1. SUFFICES ASSUME NEW p \in Processes, pc'[p] \in Publishing PROVE job'[p].made \in Numbers'
    OBVIOUS
  <2>2. CASE pc'[p] = pc[p] /\ job'[p] = job[p]
    BY <1>0, <2>1, <2>2 DEF InHand, Later
  <2>3. ASSUME NEW before \in Contents, NEW after \in Contents, Record(p, before, after)
        PROVE  job'[p].made \in Numbers'
    <3>1. /\ Numbers' = Numbers \union {Len(canonical) + 1}
          /\ job' = [job EXCEPT ![p].made = Len(canonical) + 1]
      BY <2>3, Recorded
    <3>2. Len(canonical) + 1 \in Nat
      BY DEF Typed, FilesTyped
    <3> QED
      BY <1>0, <3>1, <3>2, SetMade
  <2>a. \A label : Goto(p, label) => pc'[p] = label
    BY DEF Typed, ControlTyped, Goto
  <2>4. ASSUME p \in Restorers, Command(p) PROVE job'[p].made \in Numbers'
    <3>1. CASE Start(p) \/ Read(p) \/ List(p) \/ Patch(p) \/ SyncMirror(p)
      <4>1. pc'[p] \in {"read", "list", "patch", "sync", "replace"}
        BY <3>1, <2>a DEF Start, Read, List, Patch, SyncMirror
      <4> QED
        BY <2>1, <4>1 DEF Publishing
    <3>2. CASE RestoredMirror(p) \/ Fails(p) \/ Rollback(p)
      <4>1. PICK failing \in BOOLEAN : Gone(p, failing)
        BY <3>2 DEF RestoredMirror, Fails, Rollback, Gone
      <4> QED
        BY <2>1, <4>1, EndsAlone DEF Publishing
    <3>5. CASE Replace(p)
      <4>1. CASE Goto(p, "publish")
        BY <2>1, <2>a, <4>1 DEF Publishing
      <4>2. CASE End(p, TRUE, {}, missing[p])
        BY <2>1, <4>2, EndsAlone DEF Publishing, Gone
      <4> QED
        BY <3>5, <4>1, <4>2 DEF Replace
    <3>3. CASE Sync(p)
      <4>1. CASE Goto(p, "replace")
        BY <2>1, <2>a, <4>1 DEF Publishing
      <4>2. CASE Record(p, job[p].listed, job[p].had)
        <5>1. job[p].listed \in Contents /\ job[p].had \in Contents
          BY <2>4, <3>3, KeptContent DEF Sync, InHand, Hand
        <5> QED
          BY <2>3, <4>2, <5>1
      <4> QED
        BY <3>3, <4>1, <4>2 DEF Sync
    <3>4. CASE PublishRestored(p)
      <4>1. CASE Goto(p, "rollback")
        BY <2>1, <2>a, <4>1 DEF Publishing
      <4>2. CASE Record(p, job[p].had, job[p].target)
        <5>1. job[p].had \in Contents /\ job[p].target \in Contents
          BY <2>4, <3>4 DEF PublishRestored, InHand, Hand, Replacing
        <5> QED
          BY <2>3, <4>2, <5>1
      <4> QED
        BY <3>4, <4>1, <4>2 DEF PublishRestored
    <3> QED
      BY <2>4, <3>1, <3>2, <3>3, <3>4, <3>5 DEF Command
  <2>5. ASSUME NEW s \in Restorers, Command(s) PROVE job'[p].made \in Numbers'
    <3>1. CASE s = p
      BY <2>4, <2>5, <3>1
    <3>2. CASE s # p
      BY <1>a, <2>2, <2>5, <3>2, CommandAlone DEF Alone
    <3> QED
      BY <3>1, <3>2
  <2>6. CASE Save \/ UNCHANGED vars
    BY <2>2, <2>6 DEF Save, vars
  <2>7. CASE p # session /\ (Open \/ See \/ Store \/ StoreMirror \/ Close)
    BY <2>2, <2>7, SessionAlone DEF Alone
  <2>8. CASE p = session /\ (Open \/ See \/ StoreMirror \/ Close)
    <3>1. pc'[session] \in {"store", "watch", "idle"}
      <4>1. CASE Close
        BY <1>a, <4>1, EndsAlone DEF Close, Gone
      <4>2. CASE Open \/ See \/ StoreMirror
        BY <2>8, <4>2, <2>a DEF Open, See, StoreMirror
      <4> QED
        BY <2>8, <4>1, <4>2
    <3> QED
      BY <2>1, <2>8, <3>1 DEF Publishing
  <2>9. CASE p = session /\ Store
    <3>1. CASE End(session, TRUE, {}, missing[session])
      BY <1>a, <2>1, <2>9, <3>1, EndsAlone DEF Gone, Publishing
    <3>2. CASE Record(session, base, job[session].target)
      <4>1. base \in Contents /\ job[session].target \in Contents
        BY <2>9 DEF Store, InHand, Typed, FilesTyped
      <4> QED
        BY <2>3, <2>9, <3>2, <4>1
    <3> QED
      BY <2>9, <3>1, <3>2 DEF Store
  <2>10. ASSUME NEW q \in Processes, Die(q) PROVE job'[p].made \in Numbers'
    <3>1. Gone(q, FALSE)
      BY <2>10 DEF Die, Gone
    <3>2. Alone(q) /\ pc'[q] = "idle"
      BY <3>1, EndsAlone
    <3> QED
      BY <2>1, <2>2, <3>2 DEF Alone, Publishing
  <2> QED
    BY <2>5, <2>6, <2>7, <2>8, <2>9, <2>10 DEF Next
<1> QED
  BY <1>1, <1>2, <1>3 DEF InHand


-----------------------------------------------------------------------------
(* For the mirror there are three kinds of steps: those that leave it and what *)
(* is to be told, those that publish a revision,                              *)
Quiet == UNCHANGED <<canonical, mirror, pc, job, missing, warned, lost>>

Records(p) ==
  /\ Numbers' = Numbers \union {Len(canonical) + 1} /\ Len(canonical) \in Nat
  /\ Alone(p) /\ pc[p] \notin Publishing
  /\ pc'[p] \in Publishing /\ job'[p].made = Len(canonical) + 1
  /\ UNCHANGED <<mirror, missing, warned, lost>>

(* and those after which a process has told, or knows, what the mirror refused. *)
Due(p) == IF pc[p] \in Publishing THEN {job[p].made} ELSE {}
Tells(p) ==
  /\ Numbers' = Numbers
  /\ Alone(p) /\ pc'[p] \notin Publishing
  /\ \/ /\ mirror' = mirror
        /\ Said' \union missing'[p] = Said \union missing[p] \union Due(p)
     \/ /\ pc[p] \in Publishing /\ mirror' = Append(mirror, job[p].made)
        /\ Said' \union missing'[p] = Said \union missing[p]

(* Each kind keeps the account.                                               *)
LEMMA QuietAccounted == Typed /\ Accounted /\ Quiet => Accounted'
BY DEF Accounted, Quiet, Publishes, Refused, Said, Mirrors, Numbers

(* (a new revision waits for its mirror)                                      *)
LEMMA RecordsAccounted ==
  ASSUME Typed, InHand, Accounted, NEW p \in Processes, Records(p)
  PROVE  Accounted'
<1> DEFINE new == Len(canonical) + 1
<1>1. new \in Nat /\ new \notin Numbers /\ Numbers' = Numbers \union {new}
  BY DEF Records, Numbers
<1>2. \A n : (Refused(n)' <=> Refused(n)) /\ (Mirrors(n)' <=> Mirrors(n))
  BY DEF Records, Refused, Said, Mirrors
<1>3. ~ Refused(new) /\ ~ Mirrors(new)
  BY <1>1 DEF Refused, Said, Mirrors, Typed, FilesTyped, WorkTyped
<1>4. \A q \in Processes : \A n : Publishes(q, n)' <=> IF q = p THEN n = new ELSE Publishes(q, n)
  BY DEF Records, Alone, Publishes
<1>5. \A q \in Processes : ~ Publishes(q, new)
  BY <1>1 DEF InHand, Publishes
<1>6. \A n : ~ Publishes(p, n)
  BY DEF Records, Publishes
<1>7. UNCHANGED <<mirror, missing>>
  BY DEF Records
<1> HIDE DEF new
<1> QED
  BY <1>1, <1>2, <1>3, <1>4, <1>5, <1>6, <1>7 DEF Accounted

(* (a revision goes from those that wait to the mirror or to those refused)   *)
LEMMA TellsAccounted ==
  ASSUME Typed, InHand, Accounted, NEW p \in Processes, Tells(p)
  PROVE  Accounted'
<1>1. Numbers' = Numbers
  BY DEF Tells
<1>2. \A q \in Processes : \A n : Publishes(q, n)' <=> q # p /\ Publishes(q, n)
  BY DEF Tells, Alone, Publishes
<1>3. \A n : Refused(n) <=> n \in Said \union missing[p] \/ \E q \in Processes \ {p} : n \in missing[q]
  BY DEF Refused
<1>4. \A n : Refused(n)' <=> n \in Said' \union missing'[p] \/ \E q \in Processes \ {p} : n \in missing[q]
  BY DEF Refused, Tells, Alone
<1>5. CASE mirror' = mirror /\ Said' \union missing'[p] = Said \union missing[p] \union Due(p)
  <2>1. \A n : Refused(n)' <=> Refused(n) \/ Publishes(p, n)
    BY <1>3, <1>4, <1>5 DEF Publishes, Due
  <2>2. \A n : Mirrors(n)' <=> Mirrors(n)
    BY <1>5 DEF Mirrors
  <2> QED
    BY <1>1, <1>2, <1>5, <2>1, <2>2 DEF Accounted
<1>6. CASE /\ pc[p] \in Publishing /\ mirror' = Append(mirror, job[p].made)
           /\ Said' \union missing'[p] = Said \union missing[p]
  <2> DEFINE made == job[p].made
  <2>1. \A n : Refused(n)' <=> Refused(n)
    BY <1>3, <1>4, <1>6
  <2>a. made \in Numbers
    BY <1>6 DEF InHand
  <2>2. made \in Nat /\ \A n : Publishes(p, n) <=> n = made
    BY <1>6, <2>a DEF Publishes, Numbers
  <2>3. mirror \in Seq(Nat) /\ Len(mirror) \in Nat
    BY DEF Typed, FilesTyped
  <2>4. /\ DOMAIN mirror' = DOMAIN mirror \union {Len(mirror) + 1} /\ mirror'[Len(mirror) + 1] = made
        /\ \A k \in DOMAIN mirror : mirror'[k] = mirror[k]
    BY <1>6, <2>2, <2>3
  <2>5. \A n : Mirrors(n)' <=> Mirrors(n) \/ n = made
    BY <2>4 DEF Mirrors
  <2>6. ~ Mirrors(made) /\ ~ Refused(made)
    BY <2>2 DEF Accounted
  <2>7. \A k, l \in DOMAIN mirror' : mirror'[k] = mirror'[l] => k = l
    BY <2>4, <2>6 DEF Accounted, Mirrors
  <2> HIDE DEF made
  <2> QED
    BY <1>1, <1>2, <2>1, <2>2, <2>5, <2>6, <2>7 DEF Accounted
<1> QED
  BY <1>5, <1>6 DEF Tells

(* A process that ends tells what its mirror refused.                         *)
LEMMA EndTells ==
  ASSUME Typed, NEW p \in Processes, NEW failing \in BOOLEAN, NEW said, NEW dropped,
         End(p, failing, said, dropped), Numbers' = Numbers,
         \/ mirror' = mirror /\ said \union dropped = missing[p] \union Due(p)
         \/ /\ pc[p] \in Publishing /\ mirror' = Append(mirror, job[p].made)
            /\ said \union dropped = missing[p]
  PROVE  Tells(p)
<1>1. Alone(p) /\ pc'[p] = "idle" /\ missing'[p] = {}
  BY EndsAlone DEF Gone
<1>2. Said' = Said \union (said \union dropped)
  BY DEF End, Said
<1> QED
  BY <1>1, <1>2 DEF Tells, Publishing


(* A publication that succeeds is of the second kind.                         *)
LEMMA RecordRecords ==
  ASSUME Typed, NEW p \in Processes, NEW before \in Contents, NEW after \in Contents,
         NEW label \in Publishing, Record(p, before, after), Goto(p, label), Alone(p),
         pc[p] \notin Publishing, UNCHANGED <<mirror, missing, warned, lost>>
  PROVE  Records(p)
<1>1. /\ Numbers' = Numbers \union {Len(canonical) + 1}
      /\ job' = [job EXCEPT ![p].made = Len(canonical) + 1]
  BY Recorded
<1>2. Len(canonical) \in Nat /\ job \in [Processes -> Jobs] /\ pc'[p] = label
  BY DEF Typed, FilesTyped, WorkTyped, ControlTyped, Goto
<1>3. job'[p].made = Len(canonical) + 1
  BY <1>1, <1>2, SetMade
<1> QED
  BY <1>1, <1>2, <1>3 DEF Records

(* Every step is of one of these kinds.                                       *)
LEMMA CommandKind ==
  ASSUME Typed, InHand, NEW r \in Restorers, Command(r)
  PROVE  Records(r) \/ Tells(r)
<1>0. r \in Processes /\ Hand(r) /\ Alone(r)
  BY CommandAlone DEF Processes, InHand
<1>a. \A label : Goto(r, label) => pc'[r] = label
  BY <1>0 DEF Typed, ControlTyped, Goto
<1>b. ASSUME UNCHANGED <<canonical, mirror, missing, warned, lost>>,
             pc[r] \notin Publishing, pc'[r] \notin Publishing
      PROVE  Tells(r)
  BY <1>0, <1>b DEF Tells, Due, Numbers, Said
<1>1. CASE Start(r)
  BY <1>1, <1>a, <1>b DEF Start, repositories, Publishing
<1>2. CASE Read(r)
  BY <1>2, <1>a, <1>b DEF Read, repositories, told, Publishing
<1>3. CASE List(r)
  BY <1>3, <1>a, <1>b DEF List, repositories, told, Publishing
<1>4. CASE Patch(r)
  BY <1>4, <1>a, <1>b DEF Patch, repositories, told, Publishing
<1>5. CASE Sync(r)
  <2>0. pc[r] = "sync" /\ UNCHANGED <<mirror, missing, warned, lost>>
    BY <1>5 DEF Sync, told
  <2>1. CASE Goto(r, "replace") /\ UNCHANGED canonical
    BY <1>a, <1>b, <2>0, <2>1 DEF Publishing
  <2>2. CASE Record(r, job[r].listed, job[r].had) /\ Goto(r, "sync mirror")
    <3>1. job[r].listed \in Contents /\ job[r].had \in Contents
      BY <1>0, <2>0, KeptContent DEF Hand
    <3> QED
      BY <1>0, <2>0, <2>2, <3>1, RecordRecords DEF Publishing
  <2> QED
    BY <1>5, <2>1, <2>2 DEF Sync
<1>6. CASE SyncMirror(r)
  <2>1. /\ pc[r] = "sync mirror" /\ pc'[r] = "replace" /\ UNCHANGED <<canonical, lost>>
        /\ missing \in [Processes -> SUBSET Numbers]
    BY <1>6, <1>a DEF SyncMirror, Typed, WorkTyped
  <2>0. Numbers' = Numbers
    BY <2>1 DEF Numbers
  <2>2. CASE Mirrored(r) /\ UNCHANGED <<missing, warned>>
    <3>1. mirror' = Append(mirror, job[r].made) /\ Said' = Said /\ missing'[r] = missing[r]
      BY <2>1, <2>2 DEF Mirrored, Said
    <3> QED
      BY <1>0, <2>0, <2>1, <3>1 DEF Tells, Publishing
  <2>3. CASE Unmirrored(r) /\ missing' = [missing EXCEPT ![r] = {job[r].made}] /\ UNCHANGED warned
    <3>1. missing[r] = {} /\ missing'[r] = {job[r].made}
      BY <1>0, <2>1, <2>3 DEF Hand
    <3>2. mirror' = mirror /\ Said' = Said
      BY <2>1, <2>3 DEF Unmirrored, Said
    <3> QED
      BY <1>0, <2>0, <2>1, <3>1, <3>2 DEF Tells, Publishing, Due
  <2>4. CASE Unmirrored(r) /\ warned' = warned \union {job[r].made} /\ UNCHANGED missing
    <3>1. mirror' = mirror /\ Said' = Said \union {job[r].made} /\ missing'[r] = missing[r]
      BY <2>1, <2>4 DEF Unmirrored, Said
    <3> QED
      BY <1>0, <2>0, <2>1, <3>1 DEF Tells, Publishing, Due
  <2> QED
    BY <1>6, <2>2, <2>3, <2>4 DEF SyncMirror
<1>7. CASE Replace(r)
  <2>1. pc[r] = "replace" /\ UNCHANGED <<canonical, mirror>>
    BY <1>7 DEF Replace, repositories
  <2>2. CASE Goto(r, "publish") /\ UNCHANGED told
    BY <1>a, <1>b, <2>1, <2>2 DEF told, Publishing
  <2>3. CASE End(r, TRUE, {}, missing[r])
    <3>1. pc[r] \notin Publishing /\ Numbers' = Numbers
      BY <2>1 DEF Publishing, Numbers
    <3> QED
      BY <1>0, <2>1, <2>3, <3>1, EndTells DEF Due
  <2> QED
    BY <1>7, <2>2, <2>3 DEF Replace
<1>8. CASE PublishRestored(r)
  <2>0. pc[r] = "publish" /\ UNCHANGED <<mirror, missing, warned, lost>>
    BY <1>8 DEF PublishRestored, told
  <2>1. CASE Goto(r, "rollback") /\ UNCHANGED canonical
    BY <1>a, <1>b, <2>0, <2>1 DEF Publishing
  <2>2. CASE Record(r, job[r].had, job[r].target) /\ Goto(r, "mirror")
    <3>1. job[r].had \in Contents /\ job[r].target \in Contents
      BY <1>0, <2>0 DEF Hand, Replacing
    <3> QED
      BY <1>0, <2>0, <2>2, <3>1, RecordRecords DEF Publishing
  <2> QED
    BY <1>8, <2>1, <2>2 DEF PublishRestored
<1>9. CASE RestoredMirror(r)
  <2>1. pc[r] \in Publishing /\ Numbers' = Numbers
    BY <1>9 DEF RestoredMirror, Publishing, Numbers
  <2>2. CASE Mirrored(r) /\ End(r, FALSE, missing[r], {})
    BY <1>0, <2>1, <2>2, EndTells DEF Mirrored
  <2>3. CASE Unmirrored(r) /\ End(r, FALSE, missing[r] \union {job[r].made}, {})
    BY <1>0, <2>1, <2>3, EndTells DEF Unmirrored, Due
  <2> QED
    BY <1>9, <2>2, <2>3 DEF RestoredMirror
<1>10. CASE Fails(r)
  <2>1. pc[r] \notin Publishing /\ Numbers' = Numbers /\ mirror' = mirror
    BY <1>10 DEF Fails, Publishing, Numbers, repositories
  <2>2. PICK failing \in BOOLEAN : End(r, failing, {}, missing[r])
    BY <1>10 DEF Fails
  <2> QED
    BY <1>0, <2>1, <2>2, EndTells DEF Due
<1>11. CASE Rollback(r)
  <2>1. pc[r] \notin Publishing /\ Numbers' = Numbers /\ mirror' = mirror
    BY <1>11 DEF Rollback, Publishing, Numbers, repositories
  <2>2. PICK failing \in BOOLEAN : End(r, failing, {}, missing[r])
    BY <1>11 DEF Rollback
  <2> QED
    BY <1>0, <2>1, <2>2, EndTells DEF Due
<1> QED
  BY <1>1, <1>2, <1>3, <1>4, <1>5, <1>6, <1>7, <1>8, <1>9, <1>10, <1>11 DEF Command

(* The session's too, but for its opening.                                    *)
LEMMA SessionKind ==
  ASSUME Typed, InHand, See \/ Store \/ StoreMirror \/ Close
  PROVE  Records(session) \/ Tells(session)
<1>0. session \in Processes /\ Alone(session) /\ missing \in [Processes -> SUBSET Numbers]
  BY SessionAlone DEF Processes, Typed, WorkTyped
<1>a. \A label : Goto(session, label) => pc'[session] = label
  BY <1>0 DEF Typed, ControlTyped, Goto
<1>1. CASE See
  BY <1>0, <1>1, <1>a DEF See, repositories, told, Publishing, Tells, Due, Numbers, Said
<1>2. CASE Store
  <2>1. pc[session] = "store" /\ mirror' = mirror
    BY <1>2 DEF Store
  <2>2. CASE End(session, TRUE, {}, missing[session]) /\ UNCHANGED canonical
    <3>1. pc[session] \notin Publishing /\ Numbers' = Numbers
      BY <2>1, <2>2 DEF Publishing, Numbers
    <3> QED
      BY <1>0, <2>1, <2>2, <3>1, EndTells DEF Due
  <2>3. CASE Record(session, base, job[session].target) /\ Goto(session, "store mirror") /\ UNCHANGED told
    <3>1. base \in Contents /\ job[session].target \in Contents
      BY <2>1 DEF InHand, Typed, FilesTyped
    <3> QED
      BY <1>0, <2>1, <2>3, <3>1, RecordRecords DEF Publishing, told
  <2> QED
    BY <1>2, <2>2, <2>3 DEF Store
<1>3. CASE StoreMirror
  <2>1. /\ pc[session] \in Publishing /\ pc'[session] \notin Publishing
        /\ Numbers' = Numbers /\ Said' = Said
    BY <1>3, <1>a DEF StoreMirror, Publishing, Numbers, Said
  <2>2. CASE Mirrored(session) /\ UNCHANGED missing
    BY <1>0, <2>1, <2>2 DEF Mirrored, Tells
  <2>3. CASE /\ Unmirrored(session)
             /\ missing' = [missing EXCEPT ![session] = @ \union {job[session].made}]
    <3>1. missing'[session] = missing[session] \union {job[session].made} /\ mirror' = mirror
      BY <1>0, <2>3 DEF Unmirrored
    <3> QED
      BY <1>0, <2>1, <3>1 DEF Tells, Due
  <2> QED
    BY <1>3, <2>2, <2>3 DEF StoreMirror
<1>4. CASE Close
  <2>1. pc[session] \notin Publishing /\ Numbers' = Numbers /\ mirror' = mirror
    BY <1>4 DEF Close, Publishing, Numbers, repositories
  <2>2. End(session, FALSE, missing[session], {})
    BY <1>4 DEF Close
  <2> QED
    BY <1>0, <2>1, <2>2, EndTells DEF Due
<1> QED
  BY <1>1, <1>2, <1>3, <1>4

(* So is the opening.                                                         *)
LEMMA OpenKind == Typed /\ Open => Tells(session)
<1> SUFFICES ASSUME Typed, Open PROVE Tells(session)
  OBVIOUS
<1>1. session \in Processes /\ Alone(session)
  BY SessionAlone DEF Processes
<1>2. pc[session] = "idle" /\ pc'[session] = "watch"
  BY <1>1 DEF Open, Goto, Typed, ControlTyped
<1>3. Numbers' = Numbers /\ mirror' = mirror /\ Said' = Said /\ missing' = missing
  BY DEF Open, repositories, told, Numbers, Said
<1> QED
  BY <1>1, <1>2, <1>3 DEF Tells, Due, Publishing

(* Every step keeps the account.                                              *)
LEMMA AccountedStep == Typed /\ InHand /\ Accounted /\ [Next]_vars => Accounted'
<1> SUFFICES ASSUME Typed, InHand, Accounted, [Next]_vars PROVE Accounted'
  OBVIOUS
<1>0. session \in Processes /\ session \notin Restorers /\ \A r \in Restorers : r \in Processes
  BY RestoreAssumption DEF Processes
<1>1. CASE Save \/ UNCHANGED vars
  <2>1. Quiet
    BY <1>1 DEF Save, vars, Quiet, repositories, told
  <2> QED
    BY <2>1, QuietAccounted
<1>2. ASSUME NEW r \in Restorers, Command(r) PROVE Accounted'
  BY <1>0, <1>2, CommandKind, RecordsAccounted, TellsAccounted
<1>3. CASE Open \/ See \/ Store \/ StoreMirror \/ Close
  BY <1>0, <1>3, OpenKind, SessionKind, RecordsAccounted, TellsAccounted
<1>4. ASSUME NEW p \in Processes, Die(p) PROVE Accounted'
  <2>1. End(p, FALSE, {}, missing[p] \union Due(p)) /\ Numbers' = Numbers /\ mirror' = mirror
    BY <1>4 DEF Die, Due, Numbers, repositories
  <2> QED
    BY <2>1, EndTells, TellsAccounted
<1> QED
  BY <1>1, <1>2, <1>3, <1>4 DEF Next


-----------------------------------------------------------------------------
(* A step that changes the file marks the other processes at work; no step    *)
(* clears another's mark.                                                     *)
Marks(p) ==
  \/ live' = live /\ raced \ {p} \subseteq raced'
  \/ {q \in Restorers : pc[q] # "idle"} \ {p} \subseteq raced'

(* (only replacing the file and rolling back write it)                        *)
LEMMA CommandMarks == ASSUME NEW r \in Restorers, Command(r) PROVE Marks(r)
<1> USE DEF Marks
<1>1. CASE Start(r)
  BY <1>1 DEF Start
<1>2. CASE Read(r)
  BY <1>2 DEF Read
<1>3. CASE List(r)
  BY <1>3 DEF List
<1>4. CASE Patch(r)
  BY <1>4 DEF Patch
<1>5. CASE Sync(r)
  BY <1>5 DEF Sync
<1>6. CASE SyncMirror(r)
  BY <1>6 DEF SyncMirror
<1>7. CASE Replace(r)
  BY <1>7 DEF Replace, Write
<1>8. CASE PublishRestored(r)
  BY <1>8 DEF PublishRestored
<1>9. CASE RestoredMirror(r)
  BY <1>9 DEF RestoredMirror
<1>10. CASE Fails(r)
  BY <1>10 DEF Fails
<1>11. CASE Rollback(r)
  BY <1>11 DEF Rollback, Write
<1> HIDE DEF Marks
<1> QED
  BY <1>1, <1>2, <1>3, <1>4, <1>5, <1>6, <1>7, <1>8, <1>9, <1>10, <1>11 DEF Command

(* (the session writes no file)                                               *)
LEMMA SessionMarks == Open \/ See \/ Store \/ StoreMirror \/ Close => Marks(session)
BY DEF Marks, Open, See, Store, StoreMirror, Close

(* A command whose file no other has changed knows what the file is: until it  *)
(* replaces it what it has read, and then what it has written.                *)
Knows(r) ==
  /\ pc[r] \in Before => live = job[r].had
  /\ pc[r] \in After => live = job[r].target

(* The steps of others keep that,                                             *)
LEMMA UnracedOther ==
  ASSUME NEW r \in Restorers, r \in Processes, NEW p \in Processes, p # r, Unraced, Alone(p), Marks(p)
  PROVE  r \notin raced' => Knows(r)'
BY DEF Unraced, Alone, Marks, Knows, Before, After

(* and its own,                                                               *)
LEMMA UnracedOwn ==
  ASSUME Typed, InHand, Unraced, NEW r \in Restorers, Command(r)
  PROVE  r \notin raced' => Knows(r)'
<1>0. r \in Processes /\ job \in [Processes -> Jobs] /\ Hand(r)
  BY DEF Processes, Typed, WorkTyped, InHand
<1>a. \A label : Goto(r, label) => pc'[r] = label
  BY <1>0 DEF Typed, ControlTyped, Goto
<1>b. Len(canonical) \in Nat
  BY DEF Typed, FilesTyped
<1>c. ASSUME pc[r] \in Before, pc'[r] \in Before, live' = live, raced' = raced,
             job'[r].had = job[r].had
      PROVE  r \notin raced' => Knows(r)'
  BY <1>c DEF Unraced, Knows, Before, After
<1>d. ASSUME pc'[r] \in {"idle", "read"} PROVE Knows(r)'
  BY <1>d DEF Knows, Before, After
<1>e. \A failing \in BOOLEAN : Gone(r, failing) => Knows(r)'
  BY <1>0, <1>d, EndsAlone
<1>1. CASE Start(r)
  BY <1>1, <1>a, <1>d DEF Start
<1>2. CASE Read(r)
  <2>1. live \in Contents \union {None} /\ job' = [job EXCEPT ![r].had = live] /\ live' = live
    BY <1>2 DEF Read, Typed, FilesTyped
  <2>2. pc'[r] \in {"list", "patch"}
    BY <1>2, <1>a DEF Read
  <2> QED
    BY <1>0, <2>1, <2>2, SetHad DEF Knows, After
<1>3. CASE List(r)
  <2>1. pc[r] = "list" /\ pc'[r] = "sync" /\ Len(canonical) > 0
    BY <1>0, <1>3, <1>a DEF List, Hand
  <2>2. Latest \in Revisions
    BY <2>1 DEF Typed, FilesTyped, Latest
  <2>3. Latest.shows \in Contents
    BY <2>2 DEF Revisions
  <2>4. live' = live /\ raced' = raced /\ job'[r].had = job[r].had
    BY <1>0, <1>3, <2>3, SetListed DEF List
  <2> QED
    BY <1>c, <2>1, <2>4 DEF Before
<1>4. CASE Patch(r)
  <2>1. PICK c \in IF job[r].had = job[r].asked.backup THEN {job[r].asked.shows} ELSE Contents :
          job' = [job EXCEPT ![r].target = c]
    BY <1>4 DEF Patch
  <2>2. pc[r] = "patch" /\ pc'[r] = "sync" /\ live' = live /\ raced' = raced
    BY <1>4, <1>a DEF Patch
  <2>3. c \in Contents
    BY <1>0, <2>1, <2>2 DEF Hand, Revisions
  <2>4. job'[r].had = job[r].had
    BY <1>0, <2>1, <2>3, SetTarget
  <2> QED
    BY <1>c, <2>2, <2>4 DEF Before
<1>5. CASE Sync(r)
  <2>1. pc[r] = "sync" /\ pc'[r] \in {"replace", "sync mirror"} /\ live' = live /\ raced' = raced
    BY <1>5, <1>a DEF Sync
  <2>2. job' = job \/ job' = [job EXCEPT ![r].made = Len(canonical) + 1]
    BY <1>5 DEF Sync, Record
  <2>3. job'[r].had = job[r].had
    BY <1>0, <1>b, <2>2, SetMade
  <2> QED
    BY <1>c, <2>1, <2>3 DEF Before
<1>6. CASE SyncMirror(r)
  <2>1. pc[r] = "sync mirror" /\ pc'[r] = "replace"
    BY <1>6, <1>a DEF SyncMirror
  <2> QED
    BY <1>6, <1>c, <2>1 DEF SyncMirror, Before
<1>7. CASE Replace(r)
  <2>1. CASE Goto(r, "publish") /\ job' = job
    <3>1. live' = job[r].target /\ pc'[r] = "publish"
      BY <1>7, <1>a, <2>1 DEF Replace, Write
    <3> QED
      BY <2>1, <3>1 DEF Knows, Before
  <2>2. CASE End(r, TRUE, {}, missing[r])
    BY <1>e, <2>2 DEF Gone
  <2> QED
    BY <1>7, <2>1, <2>2 DEF Replace
<1>8. CASE PublishRestored(r)
  <2>1. /\ pc[r] = "publish" /\ pc'[r] \in {"mirror", "rollback"}
        /\ live' = live /\ raced' = raced
    BY <1>8, <1>a DEF PublishRestored
  <2>2. job' = job \/ job' = [job EXCEPT ![r].made = Len(canonical) + 1]
    BY <1>8 DEF PublishRestored, Record
  <2>3. job'[r].target = job[r].target
    BY <1>0, <1>b, <2>2, SetMade
  <2> QED
    BY <2>1, <2>3 DEF Unraced, Knows, Before, After
<1>9. CASE RestoredMirror(r)
  <2>1. Gone(r, FALSE)
    BY <1>9 DEF RestoredMirror, Gone
  <2> QED
    BY <1>e, <2>1
<1>10. CASE Fails(r)
  <2>1. PICK failing \in BOOLEAN : Gone(r, failing)
    BY <1>10 DEF Fails, Gone
  <2> QED
    BY <1>e, <2>1
<1>11. CASE Rollback(r)
  <2>1. Gone(r, TRUE)
    BY <1>11 DEF Rollback, Gone
  <2> QED
    BY <1>e, <2>1
<1> QED
  BY <1>1, <1>2, <1>3, <1>4, <1>5, <1>6, <1>7, <1>8, <1>9, <1>10, <1>11 DEF Command

(* and so do the steps of all.                                                *)
LEMMA UnracedStep == Typed /\ InHand /\ Unraced /\ [Next]_vars => Unraced'
<1> SUFFICES ASSUME Typed, InHand, Unraced, [Next]_vars, NEW r \in Restorers
             PROVE  r \notin raced' => Knows(r)'
  BY DEF Unraced, Knows
<1>0. r \in Processes /\ session \in Processes /\ session # r
  BY RestoreAssumption DEF Processes
<1>1. ASSUME NEW s \in Restorers, Command(s) PROVE r \notin raced' => Knows(r)'
  <2>1. CASE s = r
    BY <1>1, <2>1, UnracedOwn
  <2>2. CASE s # r
    <3>1. s \in Processes /\ Alone(s) /\ Marks(s)
      BY <1>1, CommandAlone, CommandMarks DEF Processes
    <3> QED
      BY <1>0, <2>2, <3>1, UnracedOther
  <2> QED
    BY <2>1, <2>2
<1>2. CASE Open \/ See \/ Store \/ StoreMirror \/ Close
  BY <1>0, <1>2, SessionAlone, SessionMarks, UnracedOther
<1>3. CASE Save
  <2>1. UNCHANGED <<pc, job>> /\ (pc[r] # "idle" => r \in raced')
    BY <1>0, <1>3, RestoreAssumption DEF Save, Write
  <2> QED
    BY <2>1 DEF Knows, Before, After
<1>4. CASE UNCHANGED vars
  BY <1>4 DEF Unraced, Knows, vars
<1>5. ASSUME NEW p \in Processes, Die(p) PROVE r \notin raced' => Knows(r)'
  <2>1. Gone(p, FALSE)
    BY <1>5 DEF Die, Gone
  <2>2. Alone(p) /\ Marks(p) /\ pc'[p] = "idle"
    BY <1>5, <2>1, EndsAlone DEF Die, Marks
  <2>3. CASE p = r
    BY <2>2, <2>3 DEF Knows, Before, After
  <2> QED
    BY <1>0, <2>2, <2>3, UnracedOther
<1> QED
  BY <1>1, <1>2, <1>3, <1>4, <1>5 DEF Next

-----------------------------------------------------------------------------
(* The invariant holds at the start, and every step keeps it.                 *)
LEMMA InitInv == Init => IInv
<1> SUFFICES ASSUME Init PROVE IInv
  OBVIOUS
<1>1. /\ pc = [p \in Processes |-> "idle"] /\ job = [p \in Processes |-> NoJob]
      /\ missing = [p \in Processes |-> {}] /\ warned = {} /\ lost = {} /\ raced = {}
  BY DEF Init
<1>2. NoJob \in Jobs /\ NoJob.made = 0 /\ "idle" \in Steps /\ session \in Processes
  BY NoJobTyped DEF NoJob, Steps, Processes
<1>3. canonical \in Seq(Revisions) /\ Len(canonical) \in Nat /\ Numbers = 1 .. Len(canonical)
  <2>1. CASE canonical = <<>>
    BY <2>1 DEF Numbers
  <2>2. CASE \E one \in Revisions : canonical = <<one>>
    BY <2>2 DEF Numbers
  <2> QED
    BY <2>1, <2>2 DEF Init
<1>4. mirror \in Seq(Nat) /\ DOMAIN mirror = Numbers /\ \A n \in Numbers : mirror[n] = n
  BY <1>3 DEF Init
<1>5. Typed
  <2>1. ControlTyped
    BY <1>1, <1>2 DEF ControlTyped, Init
  <2>2. CountersTyped
    BY RestoreAssumption DEF CountersTyped, Init
  <2>3. FilesTyped
    BY <1>3, <1>4 DEF FilesTyped, Init
  <2>4. WorkTyped
    BY <1>1, <1>2 DEF WorkTyped
  <2> QED
    BY <2>1, <2>2, <2>3, <2>4 DEF Typed
<1>6. InHand
  BY <1>1, <1>2 DEF InHand, Hand, Processes, Publishing, Replacing
<1>7. Accounted
  <2>1. \A p \in Processes : \A n : ~ Publishes(p, n)
    BY <1>1 DEF Publishes, Publishing
  <2>2. \A n : ~ Refused(n)
    BY <1>1 DEF Refused, Said
  <2>3. \A n \in Numbers : Mirrors(n)
    BY <1>4 DEF Mirrors
  <2> QED
    BY <1>1, <1>2, <1>4, <2>1, <2>2, <2>3 DEF Accounted
<1>8. Unraced
  BY <1>1 DEF Unraced, Processes, Before, After
<1> QED
  BY <1>5, <1>6, <1>7, <1>8 DEF IInv

(* every step keeps it:                                                       *)
LEMMA IInvStep == IInv /\ [Next]_vars => IInv'
BY TypedStep, InHandStep, AccountedStep, UnracedStep DEF IInv

(* the invariant of the specification.                                        *)
LEMMA IInvHolds == Spec => []IInv
BY InitInv, IInvStep, PTL DEF Spec

(* Types, for any number of restores, contents, revisions and faults.         *)
THEOREM RestoreTyped == Spec => []RestoreType
<1>1. IInv => RestoreType
  <2> SUFFICES ASSUME IInv PROVE RestoreType
    OBVIOUS
  <2>1. Typed /\ InHand
    BY DEF IInv
  <2>2. \A n \in Numbers : canonical[n] \in Revisions
    BY <2>1 DEF Typed, FilesTyped, Numbers
  <2>3. ASSUME NEW p \in Processes
        PROVE  /\ job[p].had \in Contents \union {None}
               /\ job[p].asked \in Revisions \union {None}
               /\ job[p].listed \in Contents \union {None} /\ job[p].target \in Contents \union {None}
               /\ job[p].made \in Numbers \union {0}
    BY <2>1 DEF Typed, WorkTyped, Jobs
  <2>4. ASSUME NEW p \in Processes
        PROVE  /\ pc[p] \in {"sync", "replace", "publish", "store"} => job[p].target # None
               /\ pc[p] = "sync" => job[p].listed # None
    <3>1. CASE p \in Restorers
      <4>1. Hand(p)
        BY <2>1, <3>1 DEF InHand
      <4> QED
        BY <2>1, <4>1, KeptContent, RestoreAssumption DEF Hand, Replacing
    <3>2. CASE p = session
      BY <2>1, <3>2, RestoreAssumption DEF InHand
    <3> QED
      BY <3>1, <3>2 DEF Processes
  <2> QED
    BY <2>1, <2>2, <2>3, <2>4 DEF RestoreType, Typed, ControlTyped, CountersTyped, FilesTyped, WorkTyped
<1> QED
  BY IInvHolds, <1>1, PTL

(* A restore replaces the file only when a revision keeps what it has read    *)
(* (restore_revision, the sync before replace_live).                          *)
THEOREM PriorKeptHolds == Spec => []PriorKept
<1>1. IInv => PriorKept
  BY DEF IInv, InHand, Hand, Kept, Replacing, PriorKept, Recoverable
<1> QED
  BY IInvHolds, <1>1, PTL

(* The mirror has each revision once, or its absence is accounted for         *)
(* (create_revision, "user history mirror failed").                           *)
THEOREM MirrorAccountedHolds == Spec => []MirrorAccounted
<1>1. IInv => MirrorAccounted
  <2> SUFFICES ASSUME Typed, Accounted, NEW n \in Numbers
      PROVE  LET copies == {k \in DOMAIN mirror : mirror[k] = n}
                 awaited == {p \in Processes :
                               (pc[p] \in Publishing /\ job[p].made = n) \/ n \in missing[p]}
             IN IF copies # {} THEN /\ n \notin warned \union lost /\ awaited = {}
                                    /\ \A k, l \in copies : k = l
                ELSE n \in warned \union lost \/ awaited # {}
    BY DEF IInv, MirrorAccounted
  <2> DEFINE copies == {k \in DOMAIN mirror : mirror[k] = n}
             awaited == {p \in Processes : (pc[p] \in Publishing /\ job[p].made = n) \/ n \in missing[p]}
  <2>0. n \in Nat
    BY DEF Numbers
  <2>1. CASE Mirrors(n)
    <3>1. ~ Refused(n) /\ \A p \in Processes : ~ Publishes(p, n)
      BY <2>0, <2>1 DEF Accounted
    <3>2. n \notin warned \union lost /\ awaited = {}
      BY <3>1 DEF Refused, Said, Publishes
    <3>3. copies # {} /\ \A k, l \in copies : k = l
      BY <2>1 DEF Mirrors, Accounted
    <3> QED
      BY <3>2, <3>3
  <2>2. CASE ~ Mirrors(n)
    <3>1. Refused(n) \/ \E p \in Processes : Publishes(p, n)
      BY <2>2 DEF Accounted
    <3>2. n \in warned \union lost \/ awaited # {}
      BY <3>1 DEF Refused, Said, Publishes
    <3>3. copies = {}
      BY <2>2 DEF Mirrors
    <3> QED
      BY <3>2, <3>3
  <2> QED
    BY <2>1, <2>2
<1> QED
  BY IInvHolds, <1>1, PTL

(* A restore that fails leaves the state it found, or else the state asked    *)
(* for with the one it found in the repository (restore_revision, its         *)
(* rollback, and write_replace that fails after its rename), unless another   *)
(* process wrote the file.                                                    *)
THEOREM FailedUndoneHolds == Spec => FailedUndone
<1> DEFINE Undone(r) == \/ live' = job[r].had
                        \/ /\ pc[r] \in {"replace", "rollback"}
                           /\ live' = job[r].target /\ job[r].had \in Recoverable'
<1>1. IInv /\ [Next]_vars =>
        [\A r \in Restorers : failed'[r] /\ ~ failed[r] /\ r \notin raced => Undone(r)]_vars
  <2> SUFFICES ASSUME IInv, [Next]_vars, NEW r \in Restorers, failed'[r], ~ failed[r], r \notin raced
      PROVE  Undone(r)
    OBVIOUS
  <2>0. /\ Typed /\ InHand /\ Unraced /\ Hand(r)
        /\ r \in Processes /\ session \in Processes /\ session # r
    BY RestoreAssumption DEF IInv, Processes, InHand
  <2>1. ~ UNCHANGED failed
    OBVIOUS
  <2>2. ASSUME NEW p \in Processes, Alone(p) PROVE p = r
    BY <2>0, <2>2 DEF Alone
  <2>3. ~ (Open \/ See \/ Store \/ StoreMirror \/ Close \/ Save)
    BY <2>0, <2>2, SessionAlone
  <2>4. \A p \in Processes : ~ Die(p)
    <3> SUFFICES ASSUME NEW p \in Processes, Die(p) PROVE FALSE
      OBVIOUS
    <3>1. Gone(p, FALSE)
      BY DEF Die, Gone
    <3>2. p = r
      BY <2>0, <2>2, <3>1, EndsAlone
    <3>3. failed'[p] = FALSE
      BY <2>0, <3>1, Ended
    <3> QED
      BY <3>2, <3>3
  <2>5. ~ UNCHANGED vars
    BY <2>1 DEF vars, told
  <2>6. Command(r)
    BY <2>0, <2>2, <2>3, <2>4, <2>5, CommandAlone DEF Next, Processes
  <2>a. pc[r] \in {"replace", "rollback"} /\ UNCHANGED canonical => job[r].had \in Recoverable'
    BY <2>0 DEF Hand, Replacing, Kept, Recoverable, Numbers
  <2>7. CASE Rollback(r)
    <3>1. CASE Write(r, job[r].had)
      BY <3>1 DEF Write
    <3>2. CASE live' = live
      <4>1. pc[r] = "rollback" /\ UNCHANGED canonical /\ live = job[r].target
        BY <2>0, <2>7 DEF Rollback, repositories, Unraced, After
      <4> QED
        BY <2>a, <3>2, <4>1
    <3> QED
      BY <2>7, <3>1, <3>2 DEF Rollback
  <2>8. CASE Fails(r)
    <3>1. pc[r] \in Before
      <4>1. Gone(r, pc[r] # "read") /\ (pc[r] # "read") \in BOOLEAN
        BY <2>8 DEF Fails, Gone
      <4>2. failed'[r] = (pc[r] # "read")
        BY <2>0, <4>1, Ended
      <4> QED
        BY <2>8, <4>2 DEF Fails, Before
    <3> QED
      BY <2>0, <2>8, <3>1 DEF Fails, Unraced
  <2>12. CASE Replace(r)
    <3>1. pc[r] = "replace" /\ UNCHANGED canonical /\ live' = job[r].target
      BY <2>12 DEF Replace, Write, repositories
    <3> QED
      BY <2>a, <3>1
  <2>9. CASE Start(r)
    BY <2>0, <2>9 DEF Start, Typed, ControlTyped
  <2>10. CASE RestoredMirror(r)
    <3>1. Gone(r, FALSE)
      BY <2>10 DEF RestoredMirror, Gone
    <3> QED
      BY <2>0, <3>1, Ended
  <2>11. CASE Read(r) \/ List(r) \/ Patch(r) \/ Sync(r) \/ SyncMirror(r) \/ PublishRestored(r)
    BY <2>1, <2>11 DEF Read, List, Patch, Sync, SyncMirror, PublishRestored, told
  <2> QED
    BY <2>6, <2>7, <2>8, <2>9, <2>10, <2>11, <2>12 DEF Command
<1> QED
  BY IInvHolds, <1>1, PTL DEF Spec, FailedUndone
=============================================================================
