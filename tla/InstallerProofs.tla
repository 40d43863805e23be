--------------------------- MODULE InstallerProofs ---------------------------
(* Proofs about Installer: types, that no file of the user's is lost, that   *)
(* every command leads to a program, and what a run that has ended promises. *)
(* Everything rests on the tasks that remain: what a run has not yet done is  *)
(* still among them, and they are in the order of its phases.                *)
EXTENDS Installer, TLAPS

(* A task of this kind, for this name, remains to be done.                   *)
Left(kind, n) == Task(kind, n) \in Elements(todo)

(* The phases of a run, in the order of its tasks: what is copied is         *)
(* switched to, what is switched to is recorded, and only then are names     *)
(* replaced; the tree goes after the names.                                  *)
Rank(kind) ==
  IF kind \in {"migrate", "clean", "copy"} THEN 1
  ELSE IF kind = "switch" THEN 2
  ELSE IF kind = "manifest" THEN 3
  ELSE IF kind \in {"command", "page", "shim", "restore", "unpage"} THEN 4
  ELSE IF kind \in {"config", "tree"} THEN 5 ELSE 6

(* The tasks of a list are in the order of the phases.                       *)
Sorted(s) == \A i, j \in DOMAIN s : i < j => Rank(s[i].kind) <= Rank(s[j].kind)

(* What a task of the run may be, and the name it is for.                    *)
Proper(t) ==
  \/ /\ run.does = "install"
     /\ \/ t.kind \in {"migrate", "clean", "copy", "command"} /\ t.name \in Commands
        \/ t.kind = "page" /\ t.name \in Manuals
        \/ t.kind = "shim" /\ t.name \in Shimmed /\ run.mode = "transparent"
        \/ t.kind = "restore" /\ t.name \in Shimmed /\ run.mode = "named"
        \/ t.kind \in {"switch", "manifest"} /\ t.name = None
        \/ t.kind = "config" /\ t.name = None /\ run.policy # None
  \/ /\ run.does = "uninstall"
     /\ \/ t.kind = "restore" /\ t.name \in Names \ Manuals
        \/ t.kind = "unpage" /\ t.name \in Manuals
        \/ t.kind \in {"tree", "purge"} /\ t.name = None

(* The control of a run: its tasks are those of its kind, in order; it has   *)
(* not ended yet; and without a run nothing is left to do.                   *)
Planned ==
  /\ \A t \in Elements(todo) : Proper(t)
  /\ Sorted(todo)
  /\ todo = <<>> => ~ half
  /\ run = Idle => todo = <<>>
  /\ run # Idle => last = NoLast
  /\ run.does = "nothing" => run = Idle
  /\ run.does = "install" => run.instance \in Instances /\ run.mode \in Modes
  /\ run.policy # None => run.does = "install"

(* Until the switch, every command is in the new instance or still to be     *)
(* copied; after it, the link current leads to a complete instance.          *)
Copied ==
  run.does = "install" =>
    /\ Left("switch", None) =>
         \A n \in Commands : n \in payload[run.instance] \/ Left("copy", n)
    /\ ~ Left("switch", None) => current = run.instance /\ payload[current] = Commands

(* After the task manifest the manifest has the mode of the run, and no      *)
(* page of Bedit's is in place without a manifest.  The second part is what  *)
(* lets an uninstall decide by the manifest whether there are pages to       *)
(* remove.                                                                   *)
Recorded ==
  /\ run.does = "install" /\ ~ Left("manifest", None) => manifest = run.mode
  /\ (\E n \in Names : entry[n] = "page") => manifest # None

(* After the task config the machine's configuration has the policy of the   *)
(* run; before it, a run that was asked for none has the one that was found. *)
Configured ==
  run.policy # None =>
    /\ ~ Left("config", None) => config # None /\ config.settings = <<run.policy>>
    /\ Left("config", None) /\ run.asked = None => run.policy = Existing

(* Links, shims and pages are only at names of their kind.                   *)
Placed ==
  \A n \in Names :
    /\ entry[n] = "link" => n \in Commands
    /\ entry[n] = "shim" => n \in Shimmed
    /\ entry[n] = "page" => n \in Manuals

(* Between the two operations of a task the name is free of what the second  *)
(* operation would overwrite.                                                *)
Halved ==
  half =>
    /\ Head(todo).kind \in {"command", "shim"} => entry[Name] = None
    /\ Head(todo).kind = "page" => entry[Name] \notin Theirs
    /\ Head(todo).kind \in {"restore", "unpage"} => entry[Name] \notin Managed

(* During an uninstall, what is still to be restored is still among the      *)
(* tasks.                                                                    *)
Restoring ==
  run.does = "uninstall" =>
    /\ \A n \in Names \ Manuals :
         entry[n] \in Managed \/ (entry[n] = None /\ backup[n] # None) => Left("restore", n)
    /\ \A n \in Manuals : entry[n] \in Managed => Left("unpage", n)

(* During an install, what is not yet in place is still among the tasks.     *)
Installing ==
  run.does = "install" =>
    /\ \A n \in Commands : entry[n] = "link" \/ Left("command", n)
    /\ \A n \in Manuals : entry[n] = "page" \/ Left("page", n)
    /\ run.mode = "transparent" => \A n \in Shimmed : entry[n] = "shim" \/ Left("shim", n)
    /\ run.mode = "named" => \A n \in Shimmed : entry[n] # "shim" \/ Left("restore", n)

(* Taking the first element of a sequence away.                              *)
LEMMA TailElements ==
  ASSUME NEW S, NEW s \in Seq(S), s # <<>>
  PROVE  /\ Elements(s) = {Head(s)} \union Elements(Tail(s))
         /\ Head(s) \in S /\ Tail(s) \in Seq(S)
<1>1. Len(s) \in Nat /\ Len(s) > 0 /\ DOMAIN s = 1..Len(s)
  OBVIOUS
<1>2. DOMAIN Tail(s) = 1..(Len(s) - 1) /\ \A i \in 1..(Len(s) - 1) : Tail(s)[i] = s[i + 1]
  BY <1>1
<1>3. Head(s) = s[1] /\ Head(s) \in S /\ Tail(s) \in Seq(S)
  BY <1>1
<1>4. ASSUME NEW i \in DOMAIN s PROVE s[i] \in {Head(s)} \union Elements(Tail(s))
  <2>1. CASE i = 1
    BY <2>1, <1>3
  <2>2. CASE i # 1
    <3>1. i - 1 \in 1..(Len(s) - 1) /\ (i - 1) + 1 = i
      BY <2>2, <1>1
    <3> QED
      BY <3>1, <1>2 DEF Elements
  <2> QED
    BY <2>1, <2>2
<1>5. ASSUME NEW i \in DOMAIN Tail(s) PROVE Tail(s)[i] \in Elements(s)
  <2>1. i + 1 \in DOMAIN s /\ Tail(s)[i] = s[i + 1]
    BY <1>1, <1>2
  <2> QED
    BY <2>1 DEF Elements
<1>6. Head(s) \in Elements(s)
  BY <1>1, <1>3 DEF Elements
<1> QED
  BY <1>3, <1>4, <1>5, <1>6 DEF Elements

(* The rest of a sorted list is sorted, and none of it is before the first.  *)
LEMMA TailSorted ==
  ASSUME NEW s \in Seq(Tasks), s # <<>>, Sorted(s)
  PROVE  Sorted(Tail(s)) /\ \A t \in Elements(Tail(s)) : Rank(Head(s).kind) <= Rank(t.kind)
<1>1. Len(s) \in Nat /\ Len(s) > 0 /\ DOMAIN s = 1..Len(s)
  OBVIOUS
<1>2. DOMAIN Tail(s) = 1..(Len(s) - 1) /\ \A i \in 1..(Len(s) - 1) : Tail(s)[i] = s[i + 1]
  BY <1>1
<1>3. Head(s) = s[1]
  BY <1>1
<1>4. ASSUME NEW i \in DOMAIN Tail(s)
      PROVE  /\ Rank(s[1].kind) <= Rank(Tail(s)[i].kind)
             /\ \A j \in DOMAIN Tail(s) : i < j => Rank(Tail(s)[i].kind) <= Rank(Tail(s)[j].kind)
  <2>1. 1 \in DOMAIN s /\ i + 1 \in DOMAIN s /\ 1 < i + 1
    BY <1>1, <1>2
  <2>2. \A j \in DOMAIN Tail(s) : i < j => j + 1 \in DOMAIN s /\ i + 1 < j + 1
    BY <1>1, <1>2
  <2> QED
    BY <2>1, <2>2, <1>2 DEF Sorted
<1> QED
  BY <1>3, <1>4 DEF Sorted, Elements

(* The elements of two sequences one after the other.                        *)
LEMMA ConcatElements ==
  ASSUME NEW S, NEW s \in Seq(S), NEW t \in Seq(S)
  PROVE  s \o t \in Seq(S) /\ Elements(s \o t) = Elements(s) \union Elements(t)
<1>1. /\ Len(s) \in Nat /\ Len(t) \in Nat /\ DOMAIN s = 1..Len(s) /\ DOMAIN t = 1..Len(t)
      /\ DOMAIN (s \o t) = 1..(Len(s) + Len(t))
  OBVIOUS
<1>2. \A i \in 1..Len(s) : i \in DOMAIN (s \o t) /\ (s \o t)[i] = s[i]
  BY <1>1
<1>3. \A i \in 1..Len(t) : Len(s) + i \in DOMAIN (s \o t) /\ (s \o t)[Len(s) + i] = t[i]
  BY <1>1
<1>4. ASSUME NEW i \in DOMAIN (s \o t) PROVE (s \o t)[i] \in Elements(s) \union Elements(t)
  <2>1. CASE i \in 1..Len(s)
    BY <2>1, <1>1, <1>2 DEF Elements
  <2>2. CASE i \notin 1..Len(s)
    <3>1. i - Len(s) \in 1..Len(t) /\ Len(s) + (i - Len(s)) = i
      BY <2>2, <1>1
    <3> QED
      BY <3>1, <1>1, <1>3 DEF Elements
  <2> QED
    BY <2>1, <2>2
<1>5. \A x \in Elements(s) : x \in Elements(s \o t)
  BY <1>1, <1>2 DEF Elements
<1>6. \A x \in Elements(t) : x \in Elements(s \o t)
  BY <1>1, <1>3 DEF Elements
<1>7. \A x \in Elements(s \o t) : x \in Elements(s) \union Elements(t)
  BY <1>4 DEF Elements
<1> QED
  BY <1>5, <1>6, <1>7

(* s is a list of tasks that a run does in order, of phases from a to b.     *)
Part(s, a, b) ==
  s \in Seq(Tasks) /\ Sorted(s) /\ \A t \in Elements(s) : a <= Rank(t.kind) /\ Rank(t.kind) <= b

(* Phases are numbers.                                                       *)
LEMMA RankType == \A k : Rank(k) \in 1..6
BY DEF Rank

(* Two parts of a plan, one after the other.                                 *)
LEMMA ConcatPart ==
  ASSUME NEW a \in Nat, NEW b \in Nat, NEW c \in Nat, NEW d \in Nat,
         NEW s, NEW t, Part(s, a, b), Part(t, c, d), a <= c, b <= c, b <= d
  PROVE  Part(s \o t, a, d)
<1> DEFINE st == s \o t
<1>0. s \in Seq(Tasks) /\ t \in Seq(Tasks)
  BY DEF Part
<1>1. st \in Seq(Tasks) /\ Elements(st) = Elements(s) \union Elements(t)
  BY <1>0, ConcatElements
<1>2. /\ Len(s) \in Nat /\ Len(t) \in Nat /\ DOMAIN s = 1..Len(s) /\ DOMAIN t = 1..Len(t)
      /\ DOMAIN st = 1..(Len(s) + Len(t))
  BY <1>0
<1>3. \A i \in DOMAIN st : i <= Len(s) => i \in DOMAIN s /\ st[i] = s[i]
  BY <1>0, <1>2
<1>4. \A i \in DOMAIN st : i > Len(s) => i - Len(s) \in DOMAIN t /\ st[i] = t[i - Len(s)]
  BY <1>0, <1>2
<1>5. ASSUME NEW i \in DOMAIN st, NEW j \in DOMAIN st, i < j
      PROVE  Rank(st[i].kind) <= Rank(st[j].kind)
  <2>0. \A k : Rank(k) \in Nat
    BY RankType
  <2>1. CASE j <= Len(s)
    BY <2>1, <1>2, <1>3, <1>5 DEF Part, Sorted
  <2>2. CASE i > Len(s)
    <3>1. i - Len(s) < j - Len(s)
      BY <2>2, <1>2, <1>5
    <3> QED
      BY <3>1, <2>2, <1>2, <1>4, <1>5 DEF Part, Sorted
  <2>3. CASE i <= Len(s) /\ j > Len(s)
    <3>1. Rank(st[i].kind) <= b
      BY <2>3, <1>3 DEF Part, Elements
    <3>2. c <= Rank(st[j].kind)
      BY <2>3, <1>4 DEF Part, Elements
    <3> QED
      BY <3>1, <3>2, <2>0
  <2> QED
    BY <2>1, <2>2, <2>3, <1>2
<1>6. \A x \in Elements(st) : a <= Rank(x.kind) /\ Rank(x.kind) <= d
  <2>0. \A k : Rank(k) \in Nat
    BY RankType
  <2> QED
    BY <1>1, <2>0 DEF Part
<1> QED
  BY <1>1, <1>5, <1>6 DEF Part, Sorted

(* The part of a plan with one task for each of several names.               *)
LEMMA EachPart ==
  ASSUME NEW k \in Kinds, NEW s \in Seq(Names), NEW a \in Nat, Rank(k) = a
  PROVE  /\ Part(Each(k, s), a, a)
         /\ Elements(Each(k, s)) = {Task(k, n) : n \in Elements(s)}
<1> DEFINE e == Each(k, s)
<1>1. Len(s) \in Nat /\ DOMAIN s = 1..Len(s) /\ \A i \in DOMAIN s : s[i] \in Names
  OBVIOUS
<1>2. DOMAIN e = 1..Len(s) /\ \A i \in DOMAIN s : e[i] = Task(k, s[i]) /\ e[i] \in Tasks
  BY <1>1 DEF Each, Task, Tasks
<1>3. e \in Seq(Tasks)
  <2>1. e \in [1..Len(s) -> Tasks]
    BY <1>1, <1>2 DEF Each
  <2> QED
    BY <2>1, <1>1
<1>4. \A t \in Elements(e) : t.kind = k
  BY <1>1, <1>2 DEF Elements, Task
<1>5. Sorted(e)
  BY <1>1, <1>2 DEF Sorted, Task
<1>6. Elements(e) = {Task(k, n) : n \in Elements(s)}
  BY <1>1, <1>2 DEF Elements
<1> QED
  BY <1>3, <1>4, <1>5, <1>6 DEF Part

(* The part of a plan with a single task.                                    *)
LEMMA OncePart ==
  ASSUME NEW k \in Kinds, NEW a \in Nat, Rank(k) = a
  PROVE  Part(Once(k), a, a) /\ Elements(Once(k)) = {Task(k, None)}
<1> DEFINE e == Once(k)
<1>1. e \in Seq(Tasks) /\ Len(e) = 1 /\ DOMAIN e = {1} /\ e[1] = Task(k, None)
  BY DEF Once, Task, Tasks
<1>2. Elements(e) = {Task(k, None)}
  BY <1>1 DEF Elements
<1> QED
  BY <1>1, <1>2 DEF Part, Sorted, Task

(* The part of a plan that is left out.                                      *)
LEMMA EmptyPart ==
  ASSUME NEW a \in Nat, NEW b \in Nat PROVE Part(<<>>, a, b) /\ Elements(<<>>) = {}
BY DEF Part, Sorted, Elements

(* The names that plans are made for.                                        *)
LEMMA NamesSequences ==
  /\ NAMES \in Seq(Names) /\ Editors \in Seq(Names) /\ LEGACY_EDITORS \in Seq(Names)
  /\ Pages \in Seq(Names)
<1>1. ASSUME NEW s, s \in Seq(Elements(s)), Elements(s) \subseteq Names PROVE s \in Seq(Names)
  BY <1>1
<1> QED
  BY <1>1, InstallerAssumption DEF Names, Commands, Shimmed, Manuals

(* The tasks of an install.                                                  *)
InstallTasks(mode, policy) ==
  {Task("migrate", n) : n \in Commands} \union {Task("clean", n) : n \in Commands}
    \union {Task("copy", n) : n \in Commands} \union {Task("switch", None), Task("manifest", None)}
    \union {Task("command", n) : n \in Commands} \union {Task("page", n) : n \in Manuals}
    \union {Task(IF mode = "transparent" THEN "shim" ELSE "restore", n) : n \in Shimmed}
    \union (IF policy = None THEN {} ELSE {Task("config", None)})

(* The tasks of an uninstall.                                                *)
UninstallTasks(installed, purge) ==
  {Task("restore", n) : n \in Names \ Manuals}
    \union (IF installed THEN {Task("unpage", n) : n \in Manuals} \union {Task("tree", None)} ELSE {})
    \union (IF purge THEN {Task("purge", None)} ELSE {})

(* A part of a plan that follows another, and the tasks of both.             *)
LEMMA Follow ==
  ASSUME NEW s, NEW t, NEW a \in Nat, NEW b \in Nat, NEW c \in Nat, NEW d \in Nat,
         Part(s, a, b), Part(t, c, d), a <= c, b <= c, b <= d
  PROVE  Part(s \o t, a, d) /\ Elements(s \o t) = Elements(s) \union Elements(t)
<1>1. Part(s \o t, a, d)
  BY ConcatPart
<1>2. s \in Seq(Tasks) /\ t \in Seq(Tasks)
  BY DEF Part
<1> QED
  BY <1>1, <1>2, ConcatElements

(* An install has its tasks, in the order of the phases.                     *)
LEMMA InstallPlanned ==
  ASSUME NEW mode, NEW policy
  PROVE  /\ InstallPlan(mode, policy) \in Seq(Tasks) /\ Sorted(InstallPlan(mode, policy))
         /\ Elements(InstallPlan(mode, policy)) = InstallTasks(mode, policy)
<1> DEFINE k8 == IF mode = "transparent" THEN "shim" ELSE "restore"
           t1 == Each("migrate", NAMES)
           t2 == Each("clean", NAMES)
           t3 == Each("copy", NAMES)
           t4 == Once("switch")
           t5 == Once("manifest")
           t6 == Each("command", NAMES)
           t7 == Each("page", Pages)
           t8 == Each(k8, Editors)
           t9 == IF policy = None THEN <<>> ELSE Once("config")
           p2 == t1 \o t2
           p3 == p2 \o t3
           p4 == p3 \o t4
           p5 == p4 \o t5
           p6 == p5 \o t6
           p7 == p6 \o t7
           p8 == p7 \o t8
           p9 == p8 \o t9
<1>1. /\ Rank("migrate") = 1 /\ Rank("clean") = 1 /\ Rank("copy") = 1 /\ Rank("switch") = 2
      /\ Rank("manifest") = 3 /\ Rank("command") = 4 /\ Rank("page") = 4 /\ Rank(k8) = 4
      /\ Rank("config") = 5
      /\ {"migrate", "clean", "copy", "switch", "manifest", "command", "page", k8, "config"}
           \subseteq Kinds
  BY DEF Rank, Kinds
<1>2. Part(t1, 1, 1) /\ Elements(t1) = {Task("migrate", n) : n \in Commands}
  BY <1>1, EachPart, NamesSequences DEF Commands
<1>3. Part(t2, 1, 1) /\ Elements(t2) = {Task("clean", n) : n \in Commands}
  BY <1>1, EachPart, NamesSequences DEF Commands
<1>4. Part(t3, 1, 1) /\ Elements(t3) = {Task("copy", n) : n \in Commands}
  BY <1>1, EachPart, NamesSequences DEF Commands
<1>5. Part(t4, 2, 2) /\ Elements(t4) = {Task("switch", None)}
  BY <1>1, OncePart
<1>6. Part(t5, 3, 3) /\ Elements(t5) = {Task("manifest", None)}
  BY <1>1, OncePart
<1>7. Part(t6, 4, 4) /\ Elements(t6) = {Task("command", n) : n \in Commands}
  BY <1>1, EachPart, NamesSequences DEF Commands
<1>8. Part(t7, 4, 4) /\ Elements(t7) = {Task("page", n) : n \in Manuals}
  BY <1>1, EachPart, NamesSequences DEF Manuals
<1>9. Part(t8, 4, 4) /\ Elements(t8) = {Task(k8, n) : n \in Shimmed}
  <2>1. k8 \in Kinds /\ Rank(k8) = 4
    BY <1>1
  <2> HIDE DEF k8
  <2> QED
    BY <2>1, EachPart, NamesSequences DEF Shimmed
<1>10. /\ Part(t9, 5, 5)
       /\ Elements(t9) = IF policy = None THEN {} ELSE {Task("config", None)}
  <2>1. Part(Once("config"), 5, 5) /\ Elements(Once("config")) = {Task("config", None)}
    BY <1>1, OncePart
  <2>2. Part(<<>>, 5, 5) /\ Elements(<<>>) = {}
    BY EmptyPart
  <2> QED
    BY <2>1, <2>2
<1> HIDE DEF t1, t2, t3, t4, t5, t6, t7, t8, t9
<1>12. Part(p2, 1, 1) /\ Elements(p2) = Elements(t1) \union Elements(t2)
  BY <1>2, <1>3, Follow
<1> HIDE DEF p2
<1>13. Part(p3, 1, 1) /\ Elements(p3) = Elements(p2) \union Elements(t3)
  BY <1>4, <1>12, Follow
<1> HIDE DEF p3
<1>14. Part(p4, 1, 2) /\ Elements(p4) = Elements(p3) \union Elements(t4)
  BY <1>5, <1>13, Follow
<1> HIDE DEF p4
<1>15. Part(p5, 1, 3) /\ Elements(p5) = Elements(p4) \union Elements(t5)
  BY <1>6, <1>14, Follow
<1> HIDE DEF p5
<1>16. Part(p6, 1, 4) /\ Elements(p6) = Elements(p5) \union Elements(t6)
  BY <1>7, <1>15, Follow
<1> HIDE DEF p6
<1>17. Part(p7, 1, 4) /\ Elements(p7) = Elements(p6) \union Elements(t7)
  BY <1>8, <1>16, Follow
<1> HIDE DEF p7
<1>18. Part(p8, 1, 4) /\ Elements(p8) = Elements(p7) \union Elements(t8)
  BY <1>9, <1>17, Follow
<1> HIDE DEF p8
<1>19. Part(p9, 1, 5) /\ Elements(p9) = Elements(p8) \union Elements(t9)
  BY <1>10, <1>18, Follow
<1>20. InstallPlan(mode, policy) = p9
  BY DEF InstallPlan, p2, p3, p4, p5, p6, p7, p8, t1, t2, t3, t4, t5, t6, t7, t8, t9
<1> HIDE DEF p9
<1>21. Elements(p9) = InstallTasks(mode, policy)
  BY <1>2, <1>3, <1>4, <1>5, <1>6, <1>7, <1>8, <1>9, <1>10, <1>12, <1>13, <1>14, <1>15, <1>16,
     <1>17, <1>18, <1>19 DEF InstallTasks
<1> QED
  BY <1>19, <1>20, <1>21 DEF Part

(* An uninstall has its tasks, in the order of the phases.                   *)
LEMMA UninstallPlanned ==
  ASSUME NEW installed, NEW purge
  PROVE  /\ UninstallPlan(installed, purge) \in Seq(Tasks)
         /\ Sorted(UninstallPlan(installed, purge))
         /\ Elements(UninstallPlan(installed, purge)) = UninstallTasks(installed, purge)
<1> DEFINE t1 == Each("restore", NAMES)
           t2 == Each("restore", Editors)
           t3 == Each("restore", LEGACY_EDITORS)
           u1 == Each("unpage", Pages)
           u2 == Once("tree")
           u == u1 \o u2
           t4 == IF installed THEN u ELSE <<>>
           t5 == IF purge THEN Once("purge") ELSE <<>>
           p2 == t1 \o t2
           p3 == p2 \o t3
           p4 == p3 \o t4
           p5 == p4 \o t5
<1>1. /\ Rank("restore") = 4 /\ Rank("unpage") = 4 /\ Rank("tree") = 5 /\ Rank("purge") = 6
      /\ {"restore", "unpage", "tree", "purge"} \subseteq Kinds
  BY DEF Rank, Kinds
<1>2. Part(t1, 4, 4) /\ Elements(t1) = {Task("restore", n) : n \in Commands}
  BY <1>1, EachPart, NamesSequences DEF Commands
<1>3. Part(t2, 4, 4) /\ Elements(t2) = {Task("restore", n) : n \in Shimmed}
  BY <1>1, EachPart, NamesSequences DEF Shimmed
<1>4. Part(t3, 4, 4) /\ Elements(t3) = {Task("restore", n) : n \in Elements(LEGACY_EDITORS)}
  BY <1>1, EachPart, NamesSequences
<1>5. Part(u1, 4, 4) /\ Elements(u1) = {Task("unpage", n) : n \in Manuals}
  BY <1>1, EachPart, NamesSequences DEF Manuals
<1>6. Part(u2, 5, 5) /\ Elements(u2) = {Task("tree", None)}
  BY <1>1, OncePart
<1> HIDE DEF t1, t2, t3, u1, u2
<1>7. Part(u, 4, 5) /\ Elements(u) = Elements(u1) \union Elements(u2)
  BY <1>5, <1>6, Follow
<1> HIDE DEF u
<1>8. Part(t4, 4, 5) /\ Elements(t4) = IF installed THEN Elements(u) ELSE {}
  BY <1>7, EmptyPart
<1>9. Part(t5, 6, 6) /\ Elements(t5) = IF purge THEN {Task("purge", None)} ELSE {}
  <2>1. Part(Once("purge"), 6, 6) /\ Elements(Once("purge")) = {Task("purge", None)}
    BY <1>1, OncePart
  <2>2. Part(<<>>, 6, 6) /\ Elements(<<>>) = {}
    BY EmptyPart
  <2> QED
    BY <2>1, <2>2
<1> HIDE DEF t4, t5
<1>12. Part(p2, 4, 4) /\ Elements(p2) = Elements(t1) \union Elements(t2)
  BY <1>2, <1>3, Follow
<1> HIDE DEF p2
<1>13. Part(p3, 4, 4) /\ Elements(p3) = Elements(p2) \union Elements(t3)
  BY <1>4, <1>12, Follow
<1> HIDE DEF p3
<1>14. Part(p4, 4, 5) /\ Elements(p4) = Elements(p3) \union Elements(t4)
  BY <1>8, <1>13, Follow
<1> HIDE DEF p4
<1>15. Part(p5, 4, 6) /\ Elements(p5) = Elements(p4) \union Elements(t5)
  BY <1>9, <1>14, Follow
<1>16. UninstallPlan(installed, purge) = p5
  BY DEF UninstallPlan, p2, p3, p4, t1, t2, t3, t4, t5, u, u1, u2
<1> HIDE DEF p5
<1>17. Names \ Manuals = Commands \union Shimmed \union Elements(LEGACY_EDITORS)
  BY InstallerAssumption DEF Names
<1>18. Elements(p5) = UninstallTasks(installed, purge)
  BY <1>2, <1>3, <1>4, <1>5, <1>6, <1>7, <1>8, <1>9, <1>12, <1>13, <1>14, <1>15, <1>17
  DEF UninstallTasks
<1> QED
  BY <1>15, <1>16, <1>18 DEF Part

(* The first task of a run and the rest of them.                             *)
LEMMA HeadTask ==
  ASSUME InstallerType, Planned, todo # <<>>
  PROVE  /\ Head(todo) \in Tasks /\ Head(todo) = Task(Head(todo).kind, Name)
         /\ Elements(todo) = {Head(todo)} \union Elements(Tail(todo))
         /\ Tail(todo) \in Seq(Tasks) /\ Proper(Head(todo)) /\ run # Idle
         /\ Sorted(Tail(todo))
         /\ \A t \in Elements(Tail(todo)) : Rank(Head(todo).kind) <= Rank(t.kind)
<1>1. todo \in Seq(Tasks)
  BY DEF InstallerType
<1>2. /\ Head(todo) \in Tasks /\ Tail(todo) \in Seq(Tasks)
      /\ Elements(todo) = {Head(todo)} \union Elements(Tail(todo))
  BY <1>1, TailElements
<1>3. Head(todo) = Task(Head(todo).kind, Name)
  BY <1>2 DEF Tasks, Task, Name
<1>4. Sorted(Tail(todo)) /\ \A t \in Elements(Tail(todo)) : Rank(Head(todo).kind) <= Rank(t.kind)
  BY <1>1, TailSorted DEF Planned
<1> QED
  BY <1>2, <1>3, <1>4 DEF Planned

(* What is known of a run, and of the name, from the kind of the first       *)
(* task.                                                                     *)
LEMMA HeadProper ==
  ASSUME InstallerType, Planned, todo # <<>>
  PROVE  /\ Head(todo).kind \in {"migrate", "clean", "copy", "command"}
              => run.does = "install" /\ Name \in Commands
         /\ Head(todo).kind = "page" => run.does = "install" /\ Name \in Manuals
         /\ Head(todo).kind = "shim"
              => run.does = "install" /\ run.mode = "transparent" /\ Name \in Shimmed
         /\ Head(todo).kind \in {"switch", "manifest"} => run.does = "install" /\ Name = None
         /\ Head(todo).kind = "config" => run.does = "install" /\ Name = None /\ run.policy # None
         /\ Head(todo).kind = "restore"
              => \/ run.does = "install" /\ run.mode = "named" /\ Name \in Shimmed
                 \/ run.does = "uninstall" /\ Name \in Names \ Manuals
         /\ Head(todo).kind = "unpage" => run.does = "uninstall" /\ Name \in Manuals
         /\ Head(todo).kind \in {"tree", "purge"} => run.does = "uninstall" /\ Name = None
         /\ Head(todo).kind \in Kinds
<1>1. Proper(Head(todo)) /\ Head(todo) \in Tasks
  BY HeadTask
<1> QED
  BY <1>1 DEF Proper, Tasks, Name

(* A task that is done is the only one that no longer remains.               *)
LEMMA Popped ==
  ASSUME InstallerType, Planned, todo # <<>>, todo' = Tail(todo)
  PROVE  /\ \A k, n : Left(k, n)' => Left(k, n) /\ Rank(Head(todo).kind) <= Rank(k)
         /\ \A k, n : Left(k, n) => Left(k, n)' \/ (k = Head(todo).kind /\ n = Name)
         /\ Left(Head(todo).kind, Name)
<1>1. \A k, n : Task(k, n).kind = k /\ Task(k, n).name = n
  BY DEF Task
<1>2. \A k, n : Task(k, n) = Head(todo) => k = Head(todo).kind /\ n = Name
  BY <1>1, HeadTask DEF Name
<1> QED
  BY <1>1, <1>2, HeadTask DEF Left

(* What a step may do to the tasks of a run.                                 *)
ControlStep ==
  \/ Install \/ Uninstall
  \/ todo # <<>> /\ Pop
  \/ todo # <<>> /\ Halfway
  \/ run # Idle /\ \E how \in {"done", "refused", "stopped"} : End(how)
  \/ UNCHANGED <<todo, half, run>> /\ (run = Idle \/ UNCHANGED last)

(* Every step does one of these.                                             *)
LEMMA Controls == InstallerType /\ Planned /\ [Next]_vars => ControlStep
<1> SUFFICES ASSUME InstallerType, Planned, [Next]_vars PROVE ControlStep
  OBVIOUS
<1>0. todo # <<>> => run # Idle
  BY DEF Planned
<1>1. CASE Install \/ Uninstall
  BY <1>1 DEF ControlStep
<1>2. CASE RefusePayload \/ RemoveEntry \/ PutLegacy \/ UNCHANGED vars
  BY <1>2 DEF RefusePayload, RemoveEntry, PutLegacy, vars, control, ControlStep
<1>3. CASE Migrate
  BY <1>0, <1>3 DEF Migrate, Refuse, Do, ControlStep
<1>4. CASE Clean \/ CopyPayload \/ Switch \/ WriteManifest
  BY <1>4 DEF Clean, CopyPayload, Switch, WriteManifest, Do, ControlStep
<1>5. CASE BackupDestination \/ BackupPage \/ RemoveManaged
  BY <1>0, <1>5 DEF BackupDestination, BackupPage, RemoveManaged, Refuse, Do, ControlStep
<1>6. CASE PutCommand \/ PutShim \/ PutPage \/ ReturnBackup
  BY <1>6 DEF PutCommand, PutShim, PutPage, ReturnBackup, Do, ControlStep
<1>7. CASE RemoveTree \/ WriteConfig \/ RemoveConfig
  BY <1>7 DEF RemoveTree, WriteConfig, RemoveConfig, Do, ControlStep
<1>8. CASE Finish \/ Stop
  BY <1>8 DEF Finish, Stop, ControlStep
<1>9. CASE PutFile \/ PutOther \/ RemoveFile
  BY <1>9 DEF PutFile, PutOther, RemoveFile, Change, ControlStep
<1> QED
  BY <1>1, <1>2, <1>3, <1>4, <1>5, <1>6, <1>7, <1>8, <1>9 DEF Next

(* An install for the machine writes one of the two policies.                *)
LEMMA ChosenType ==
  ASSUME NEW scope, NEW asked \in POLICIES \union {None}
  PROVE  Chosen(scope, asked) \in POLICIES \union {None}
<1>1. Existing \in POLICIES
  BY DEF Existing, POLICIES
<1> QED
  BY <1>1 DEF Chosen

(* Every step keeps the tasks of a run those of its plan, in order.          *)
LEMMA PlannedStep == InstallerType /\ Planned /\ [Next]_vars => Planned' /\ (todo \in Seq(Tasks))'
<1> SUFFICES ASSUME InstallerType, Planned, [Next]_vars PROVE Planned' /\ todo' \in Seq(Tasks)
  OBVIOUS
<1>0. todo \in Seq(Tasks) /\ run \in Runs
  BY DEF InstallerType
<1>1. CASE Install
  <2>1. PICK i \in Instances, mode \in Modes, asked \in POLICIES \union {None},
             policy \in POLICIES \union {None} :
          /\ run' = [does |-> "install", mode |-> mode, asked |-> asked, policy |-> policy,
                    instance |-> i]
          /\ todo' = InstallPlan(mode, policy)
    BY <1>1, ChosenType DEF Install
  <2>2. /\ todo' \in Seq(Tasks) /\ Sorted(todo')
        /\ Elements(todo') = InstallTasks(mode, policy)
    BY <2>1, InstallPlanned
  <2>3. run'.does = "install" /\ run'.mode = mode /\ run'.policy = policy /\ run'.instance = i
    BY <2>1
  <2>4. ASSUME NEW t \in Elements(todo') PROVE Proper(t)'
    <3>1. t \in InstallTasks(mode, policy)
      BY <2>2
    <3> QED
      BY <3>1, <2>3 DEF InstallTasks, Proper, Task, Modes
  <2>5. run' # Idle /\ last' = NoLast /\ half' = FALSE
    BY <1>1, <2>3 DEF Idle, Install
  <2> QED
    BY <2>2, <2>3, <2>4, <2>5 DEF Planned
<1>2. CASE Uninstall
  <2>1. PICK purge \in BOOLEAN : todo' = UninstallPlan(manifest # None, purge)
    BY <1>2 DEF Uninstall
  <2>2. /\ todo' \in Seq(Tasks) /\ Sorted(todo')
        /\ Elements(todo') = UninstallTasks(manifest # None, purge)
    BY <2>1, UninstallPlanned
  <2>3. run'.does = "uninstall" /\ run'.policy = None
    BY <1>2 DEF Uninstall, Idle
  <2>4. ASSUME NEW t \in Elements(todo') PROVE Proper(t)'
    <3>1. t \in UninstallTasks(manifest # None, purge)
      BY <2>2
    <3> QED
      BY <3>1, <2>3 DEF UninstallTasks, Proper, Task
  <2>5. run' # Idle /\ last' = NoLast /\ half' = FALSE
    BY <1>2, <2>3 DEF Idle, Uninstall
  <2> QED
    BY <2>2, <2>3, <2>4, <2>5 DEF Planned
<1>3. CASE todo # <<>> /\ Pop
  <2>1. todo' = Tail(todo) /\ run' = run /\ last' = last /\ half' = FALSE
    BY <1>3 DEF Pop, control
  <2>2. \A t : Proper(t)' <=> Proper(t)
    BY <2>1 DEF Proper
  <2>3. Sorted(todo)'
    BY <1>3, <2>1, HeadTask DEF Sorted
  <2> QED
    BY <1>3, <2>1, <2>2, <2>3, HeadTask DEF Planned
<1>4. CASE todo # <<>> /\ Halfway
  BY <1>0, <1>4 DEF Halfway, control, Planned, Proper, Sorted
<1>5. CASE run # Idle /\ \E how \in {"done", "refused", "stopped"} : End(how)
  <2>1. run' = Idle /\ todo' = <<>> /\ half' = FALSE
    BY <1>5 DEF End
  <2> QED
    BY <2>1 DEF Planned, Sorted, Elements, Idle
<1>6. CASE UNCHANGED <<todo, half, run>> /\ (run = Idle \/ UNCHANGED last)
  BY <1>0, <1>6 DEF Planned, Proper, Sorted
<1> QED
  BY <1>1, <1>2, <1>3, <1>4, <1>5, <1>6, Controls DEF ControlStep

(* Doing a task changes the list of tasks.                                   *)
LEMMA Shorter == InstallerType /\ todo # <<>> => Tail(todo) # todo
<1> SUFFICES ASSUME todo \in Seq(Tasks), todo # <<>> PROVE Tail(todo) # todo
  BY DEF InstallerType
<1>1. Len(Tail(todo)) = Len(todo) - 1 /\ Len(todo) \in Nat
  OBVIOUS
<1>2. \A n \in Nat : n - 1 # n
  OBVIOUS
<1> QED
  BY <1>1, <1>2

(* The kinds of task that change bin and man1.                               *)
OfFiles == {"command", "page", "shim", "restore", "unpage"}

(* What a step may do to the files: nothing, the first operation of a task,  *)
(* the second one, or a change by the user.                                  *)
LEMMA FileStep ==
  InstallerType /\ Planned /\ [Next]_vars =>
    \/ /\ UNCHANGED <<entry, backup, mine>>
       /\ todo # <<>> /\ Pop => Head(todo).kind \notin OfFiles
       /\ half' => UNCHANGED <<todo, half>>
    \/ todo # <<>> /\ Halfway /\ (BackupDestination \/ BackupPage \/ RemoveManaged)
    \/ todo # <<>> /\ Pop /\ (PutCommand \/ PutShim \/ PutPage \/ ReturnBackup)
    \/ \E n \in Touched, e \in Theirs \union {None} : Change(n, e)
<1> SUFFICES ASSUME InstallerType, Planned, [Next]_vars
             PROVE  \/ /\ UNCHANGED <<entry, backup, mine>>
                       /\ todo # <<>> /\ Pop => Head(todo).kind \notin OfFiles
                       /\ half' => UNCHANGED <<todo, half>>
                    \/ todo # <<>> /\ Halfway /\ (BackupDestination \/ BackupPage \/ RemoveManaged)
                    \/ todo # <<>> /\ Pop /\ (PutCommand \/ PutShim \/ PutPage \/ ReturnBackup)
                    \/ \E n \in Touched, e \in Theirs \union {None} : Change(n, e)
  OBVIOUS
<1>0. run # Idle <=> todo # <<>> \/ (run # Idle /\ todo = <<>>)
  BY DEF Planned
<1>1. CASE Install \/ Uninstall \/ RefusePayload \/ PutLegacy
  <2>1. todo = <<>>
    BY <1>1 DEF Install, Uninstall, RefusePayload, PutLegacy, Planned
  <2> QED
    BY <1>1, <2>1 DEF Install, Uninstall, RefusePayload, PutLegacy, files, control
<1>2. CASE RemoveEntry \/ UNCHANGED vars
  <2>1. UNCHANGED <<entry, backup, mine, todo, half>>
    BY <1>2 DEF RemoveEntry, vars, control, files
  <2>2. todo # <<>> => Tail(todo) # todo
    BY Shorter
  <2> QED
    BY <2>1, <2>2 DEF Pop
<1>3. CASE Migrate
  BY <1>3 DEF Migrate, Refuse, End, Do, Pop, files, control, OfFiles
<1>4. CASE Clean \/ CopyPayload \/ Switch \/ WriteManifest
  BY <1>4 DEF Clean, CopyPayload, Switch, WriteManifest, Do, Pop, files, control, OfFiles
<1>5. CASE BackupDestination \/ BackupPage \/ RemoveManaged
  <2>1. todo # <<>> /\ ~ half
    BY <1>5 DEF BackupDestination, BackupPage, RemoveManaged, Do
  <2>2. CASE Halfway
    BY <1>5, <2>1, <2>2
  <2>3. CASE Refuse
    <3>1. UNCHANGED <<entry, backup, mine>> /\ half' = FALSE /\ todo' = <<>> /\ run' = Idle
      BY <2>3 DEF Refuse, End, files
    <3>2. run # Idle
      BY <2>1, HeadTask
    <3> QED
      BY <3>1, <3>2 DEF Pop, control
  <2> QED
    BY <1>5, <2>2, <2>3 DEF BackupDestination, BackupPage, RemoveManaged
<1>6. CASE PutCommand \/ PutShim \/ PutPage \/ ReturnBackup
  BY <1>6 DEF PutCommand, PutShim, PutPage, ReturnBackup, Do
<1>7. CASE RemoveTree \/ WriteConfig \/ RemoveConfig
  BY <1>7 DEF RemoveTree, WriteConfig, RemoveConfig, Do, Pop, files, control, OfFiles
<1>8. CASE Finish \/ Stop
  <2>1. UNCHANGED <<entry, backup, mine>> /\ half' = FALSE /\ run' = Idle /\ run # Idle
    BY <1>8 DEF Finish, Stop, End, files
  <2> QED
    BY <2>1 DEF Pop, control
<1>9. CASE PutFile \/ PutOther \/ RemoveFile
  BY <1>9 DEF PutFile, PutOther, RemoveFile, Fresh, Theirs
<1> QED
  BY <1>1, <1>2, <1>3, <1>4, <1>5, <1>6, <1>7, <1>8, <1>9 DEF Next

(* The part of the types that is about the files.                            *)
FilesType ==
  /\ entry \in [Names -> Entries] /\ backup \in [Names -> UserFiles \union {None}]
  /\ mine \in [Names -> SUBSET Theirs]

(* Every step keeps the types of the files.                                  *)
LEMMA FilesTypeStep == InstallerType /\ Planned /\ [Next]_vars => FilesType'
<1> SUFFICES ASSUME InstallerType, Planned, [Next]_vars PROVE FilesType'
  OBVIOUS
<1>0. FilesType
  BY DEF InstallerType, FilesType
<1>1. CASE UNCHANGED <<entry, backup, mine>>
  BY <1>0, <1>1 DEF FilesType
<1>2. CASE todo # <<>> /\ Halfway /\ (BackupDestination \/ BackupPage \/ RemoveManaged)
  <2>1. mine' = mine /\ half' # FALSE
    BY <1>2 DEF Halfway, control
  <2>2. entry' \in [Names -> Entries]
    BY <1>0, <1>2, <2>1 DEF BackupDestination, BackupPage, RemoveManaged, Refuse, End,
       FilesType, Entries
  <2>3. entry[Name] \in UserFiles \/ ~ Foreign(Name)
    BY DEF Foreign
  <2>4. backup' \in [Names -> UserFiles \union {None}]
    BY <1>0, <1>2, <2>1, <2>3 DEF BackupDestination, BackupPage, RemoveManaged, Refuse, End,
       FilesType, Entries
  <2> QED
    BY <1>0, <2>1, <2>2, <2>4 DEF FilesType
<1>3. CASE todo # <<>> /\ Pop /\ (PutCommand \/ PutShim \/ PutPage \/ ReturnBackup)
  <2>0. Name \in Names
    BY <1>3, HeadProper DEF PutCommand, PutShim, PutPage, ReturnBackup, Do, Names
  <2>1. mine' = mine
    BY <1>3 DEF Pop, control
  <2>2. entry' \in [Names -> Entries] /\ backup' \in [Names -> UserFiles \union {None}]
    BY <1>0, <1>3, <2>0 DEF PutCommand, PutShim, PutPage, ReturnBackup, FilesType, Entries,
       Theirs, Managed, files
  <2> QED
    BY <1>0, <2>1, <2>2 DEF FilesType
<1>4. CASE \E n \in Touched, e \in Theirs \union {None} : Change(n, e)
  BY <1>0, <1>4, InstallerAssumption DEF Change, FilesType, Entries
<1> QED
  BY <1>1, <1>2, <1>3, <1>4, FileStep

(* The part of the types that is about libexec and the configuration.        *)
TreeType ==
  /\ legacy \subseteq Commands /\ stale \subseteq Commands /\ previous \subseteq Commands
  /\ payload \in [Instances -> SUBSET Commands] /\ current \in Instances \union {None}
  /\ manifest \in Modes \union {None} /\ config \in Configurations \union {None}

(* A configuration into which a policy was written is one.                   *)
LEMMA SettingsType ==
  ASSUME run \in Runs, run.policy # None, NEW c \in Configurations
  PROVE  [c EXCEPT !.settings = <<run.policy>>] \in Configurations
<1>1. <<run.policy>> \in Seq(SETTINGS)
  BY DEF Runs, SETTINGS
<1>2. \A q : q \in Seq(SETTINGS) => [c EXCEPT !.settings = q] \in Configurations
  BY DEF Configurations
<1> QED
  BY <1>1, <1>2

(* Every step keeps the types of libexec and the configuration.              *)
LEMMA TreeTypeStep == InstallerType /\ Planned /\ [Next]_vars => TreeType'
<1> SUFFICES ASSUME InstallerType, Planned, [Next]_vars PROVE TreeType'
  OBVIOUS
<1>0. TreeType /\ run \in Runs
  BY DEF InstallerType, TreeType
<1>1. CASE UNCHANGED <<tree, config>>
  BY <1>0, <1>1 DEF TreeType, tree
<1>2. CASE Migrate \/ Clean \/ CopyPayload
  <2>1. Name \in Commands
    BY <1>2, HeadProper DEF Migrate, Clean, CopyPayload, Do
  <2> QED
    BY <1>0, <1>2, <2>1 DEF Migrate, Clean, CopyPayload, Refuse, TreeType, tree
<1>3. CASE Switch \/ WriteManifest
  BY <1>0, <1>3 DEF Switch, WriteManifest, TreeType, Runs
<1>4. CASE RemoveEntry
  BY <1>0, <1>4 DEF RemoveEntry, TreeType
<1>5. CASE WriteConfig
  <2>1. run.policy # None
    BY <1>5, HeadProper DEF WriteConfig, Do
  <2>2. \A c \in Configurations : [c EXCEPT !.settings = <<run.policy>>] \in Configurations
    BY <1>0, <2>1, SettingsType
  <2>3. NoLines \in Configurations
    BY DEF NoLines, Configurations
  <2>4. config' \in Configurations
    BY <1>0, <1>5, <2>2, <2>3 DEF WriteConfig, TreeType
  <2> QED
    BY <1>0, <1>5, <2>4 DEF WriteConfig, TreeType, tree
<1>6. CASE RemoveConfig
  BY <1>0, <1>6 DEF RemoveConfig, TreeType, tree
<1>7. CASE PutLegacy
  BY <1>0, <1>7 DEF PutLegacy, TreeType
<1>8. CASE Install \/ Uninstall \/ RefusePayload \/ RemoveTree \/ Finish \/ Stop
  BY <1>1, <1>8 DEF Install, Uninstall, RefusePayload, RemoveTree, Finish, Stop
<1>9. CASE BackupDestination \/ PutCommand \/ PutShim \/ BackupPage \/ PutPage
  BY <1>1, <1>9 DEF BackupDestination, PutCommand, PutShim, BackupPage, PutPage, Refuse
<1>10. CASE RemoveManaged \/ ReturnBackup \/ PutFile \/ PutOther \/ RemoveFile
  BY <1>1, <1>10 DEF RemoveManaged, ReturnBackup, PutFile, PutOther, RemoveFile, Refuse, Change
<1> QED
  BY <1>1, <1>2, <1>3, <1>4, <1>5, <1>6, <1>7, <1>8, <1>9, <1>10 DEF Next, vars

(* Every step keeps the types.                                               *)
LEMMA InstallerTypeStep == InstallerType /\ Planned /\ [Next]_vars => InstallerType'
<1> SUFFICES ASSUME InstallerType, Planned, [Next]_vars PROVE InstallerType'
  OBVIOUS
<1>1. FilesType' /\ TreeType' /\ todo' \in Seq(Tasks)
  BY FilesTypeStep, TreeTypeStep, PlannedStep
<1>2. run \in Runs /\ last \in Lasts /\ half \in BOOLEAN
  BY DEF InstallerType
<1>3. half' \in BOOLEAN
  BY <1>2, Controls DEF ControlStep, Install, Uninstall, Pop, Halfway, End
<1>4. run' \in Runs
  <2>1. Idle \in Runs /\ [Idle EXCEPT !.does = "uninstall"] \in Runs
    BY DEF Idle, Runs
  <2>2. CASE Install
    BY <2>2, ChosenType DEF Install, Runs
  <2> QED
    BY <1>2, <2>1, <2>2, Controls DEF ControlStep, Uninstall, Pop, Halfway, End, control
<1>5. last' \in Lasts
  <2>1. NoLast \in Lasts /\ [does |-> "install", end |-> "stopped", mode |-> None] \in Lasts
    BY DEF NoLast, Lasts
  <2>2. \A how \in {"done", "refused", "stopped"} :
          [does |-> run.does, end |-> how, mode |-> run.mode] \in Lasts
    BY <1>2 DEF Runs, Lasts
  <2>3. CASE run = Idle
    <3>1. todo = <<>>
      BY <2>3 DEF Planned
    <3>2. last' \in {last, NoLast, [does |-> "install", end |-> "stopped", mode |-> None]}
      BY <2>3, <3>1 DEF Next, vars, Install, Uninstall, RefusePayload, PutFile, PutOther,
         RemoveFile, Change, PutLegacy, Finish, Stop, Do, Migrate, Clean, CopyPayload, Switch,
         WriteManifest, BackupDestination, PutCommand, PutShim, BackupPage, PutPage,
         RemoveManaged, ReturnBackup, RemoveEntry, RemoveTree, WriteConfig, RemoveConfig
    <3> QED
      BY <1>2, <2>1, <3>2
  <2>4. CASE run # Idle
    BY <1>2, <2>1, <2>2, <2>4, Controls DEF ControlStep, Install, Uninstall, Pop, Halfway, End
  <2> QED
    BY <2>3, <2>4
<1> QED
  BY <1>1, <1>3, <1>4, <1>5 DEF InstallerType, FilesType, TreeType

(* Commands, editors and pages have different names, and a file of the       *)
(* user's is none of Bedit's.                                                *)
LEMMA Apart ==
  /\ \A n \in Commands : n \in Names \ Manuals /\ n \notin Shimmed
  /\ \A n \in Shimmed : n \in Names \ Manuals
  /\ Manuals \subseteq Names /\ Touched \subseteq Names
  /\ \A u \in UserFiles : u \notin Managed \union Others \union {None}
  /\ \A u \in Theirs : u \notin Managed \union {None}
  /\ UserFiles \subseteq Theirs
  /\ None \notin POLICIES \union Instances \union Modes \union Managed \union Others
BY InstallerAssumption DEF Names, Managed, Modes, Others, Theirs

(* Every step keeps links, shims and pages at names of their kind.           *)
LEMMA PlacedStep == InstallerType /\ Planned /\ Placed /\ [Next]_vars => Placed'
<1> SUFFICES ASSUME InstallerType, Planned, Placed, [Next]_vars PROVE Placed'
  OBVIOUS
<1>0. entry \in [Names -> Entries] /\ backup \in [Names -> UserFiles \union {None}]
  BY DEF InstallerType
<1>1. CASE UNCHANGED <<entry, backup, mine>>
  BY <1>1 DEF Placed
<1>2. CASE todo # <<>> /\ Halfway /\ (BackupDestination \/ BackupPage \/ RemoveManaged)
  <2>1. half' # FALSE
    BY <1>2 DEF Halfway
  <2>2. \A n \in Names : entry'[n] = entry[n] \/ entry'[n] = None
    BY <1>0, <1>2, <2>1 DEF BackupDestination, BackupPage, RemoveManaged, Refuse, End
  <2> QED
    BY <2>2, Apart DEF Placed, Managed
<1>3. CASE todo # <<>> /\ Pop /\ (PutCommand \/ PutShim \/ PutPage \/ ReturnBackup)
  <2>1. \A n \in Names : \/ entry'[n] = entry[n] \/ entry'[n] \in UserFiles
                         \/ n = Name /\ Do("command") /\ entry'[n] = "link"
                         \/ n = Name /\ Do("shim") /\ entry'[n] = "shim"
                         \/ n = Name /\ Do("page") /\ entry'[n] = "page"
    BY <1>0, <1>3 DEF PutCommand, PutShim, PutPage, ReturnBackup, files
  <2> QED
    BY <1>3, <2>1, HeadProper, Apart DEF Placed, Managed, Do
<1>4. CASE \E n \in Touched, e \in Theirs \union {None} : Change(n, e)
  BY <1>0, <1>4, Apart DEF Change, Placed, Managed
<1> QED
  BY <1>1, <1>2, <1>3, <1>4, FileStep

(* Every step keeps the name of a half-done task free.                       *)
LEMMA HalvedStep == InstallerType /\ Planned /\ Halved /\ [Next]_vars => Halved'
<1> SUFFICES ASSUME InstallerType, Planned, Halved, [Next]_vars PROVE Halved'
  OBVIOUS
<1>0. entry \in [Names -> Entries]
  BY DEF InstallerType
<1>1. CASE UNCHANGED <<entry, backup, mine>> /\ (half' => UNCHANGED <<todo, half>>)
  BY <1>1 DEF Halved, Name, Foreign
<1>2. CASE todo # <<>> /\ Halfway /\ (BackupDestination \/ BackupPage \/ RemoveManaged)
  <2>1. half' # FALSE /\ todo' = todo
    BY <1>2 DEF Halfway
  <2>2. Head(todo).kind \in OfFiles => Name \in Names
    BY <1>2, HeadProper, Apart DEF OfFiles
  <2>3. CASE BackupDestination
    BY <1>0, <2>1, <2>2, <2>3 DEF BackupDestination, Refuse, End, Do, OfFiles, Halved, Name
  <2>4. CASE BackupPage
    BY <1>0, <2>1, <2>2, <2>4, Apart DEF BackupPage, Refuse, End, Do, OfFiles, Halved, Name, Foreign,
       Theirs
  <2>5. CASE RemoveManaged
    BY <1>0, <2>1, <2>2, <2>5, Apart DEF RemoveManaged, Refuse, End, Do, OfFiles, Halved, Name
  <2> QED
    BY <1>2, <2>3, <2>4, <2>5
<1>3. CASE todo # <<>> /\ Pop
  BY <1>3 DEF Pop, Halved
<1>4. CASE \E n \in Touched, e \in Theirs \union {None} : Change(n, e)
  BY <1>4 DEF Change, Halved, Planned
<1> QED
  BY <1>1, <1>2, <1>3, <1>4, FileStep

(* No step loses a file of the user's.                                       *)
LEMMA UserFilesKeptStep ==
  InstallerType /\ Planned /\ Halved /\ UserFilesKept /\ [Next]_vars => UserFilesKept'
<1> SUFFICES ASSUME InstallerType, Planned, Halved, UserFilesKept, [Next]_vars,
                    NEW n \in Names, NEW u \in mine'[n]
             PROVE  u \in {entry'[n], backup'[n]}
  BY DEF UserFilesKept
<1>0. /\ entry \in [Names -> Entries] /\ backup \in [Names -> UserFiles \union {None}]
      /\ mine \in [Names -> SUBSET Theirs] /\ Name \in Names \union {Name}
  BY DEF InstallerType
<1>1. CASE UNCHANGED <<entry, backup, mine>>
  BY <1>1 DEF UserFilesKept
<1>2. CASE todo # <<>> /\ Halfway /\ (BackupDestination \/ BackupPage \/ RemoveManaged)
  <2>1. half' # FALSE /\ mine' = mine
    BY <1>2 DEF Halfway, control
  <2>2. u \in Theirs /\ u \in {entry[n], backup[n]} /\ u \notin Managed \union {None}
    BY <1>0, <2>1, Apart DEF UserFilesKept
  <2>3. CASE BackupDestination \/ BackupPage
    BY <1>0, <2>1, <2>2, <2>3 DEF BackupDestination, BackupPage, Refuse, End, Foreign, Theirs
  <2>4. CASE RemoveManaged
    BY <1>0, <2>1, <2>2, <2>4 DEF RemoveManaged, Refuse, End
  <2> QED
    BY <1>2, <2>3, <2>4
<1>3. CASE todo # <<>> /\ Pop /\ (PutCommand \/ PutShim \/ PutPage \/ ReturnBackup)
  <2>1. mine' = mine
    BY <1>3 DEF Pop, control
  <2>2. u \in Theirs /\ u \in {entry[n], backup[n]} /\ u \notin Managed \union {None}
    BY <1>0, <2>1, Apart DEF UserFilesKept
  <2>3. CASE PutCommand \/ PutShim \/ PutPage
    <3>1. n = Name => u # entry[n]
      BY <2>2, <2>3 DEF PutCommand, PutShim, PutPage, Do, Halved, Foreign
    <3> QED
      BY <1>0, <2>2, <2>3, <3>1 DEF PutCommand, PutShim, PutPage
  <2>4. CASE ReturnBackup
    BY <1>0, <2>2, <2>4 DEF ReturnBackup, files
  <2> QED
    BY <1>3, <2>3, <2>4
<1>4. CASE \E m \in Touched, e \in Theirs \union {None} : Change(m, e)
  BY <1>0, <1>4, Apart DEF Change, UserFilesKept
<1> QED
  BY <1>1, <1>2, <1>3, <1>4, FileStep

(* The kinds of task that change libexec and the configuration.              *)
OfTree == {"copy", "switch", "manifest", "config", "purge"}

(* What a step may do to the payload, the link current, the manifest and     *)
(* the configuration.                                                        *)
LEMMA TreeStep ==
  InstallerType /\ Planned /\ [Next]_vars =>
    \/ /\ UNCHANGED <<payload, current, manifest, config>>
       /\ todo # <<>> /\ Pop => Head(todo).kind \notin OfTree
    \/ todo # <<>> /\ Pop /\ (CopyPayload \/ Switch \/ WriteManifest \/ WriteConfig \/ RemoveConfig)
    \/ todo # <<>> /\ RemoveEntry
<1> SUFFICES ASSUME InstallerType, Planned, [Next]_vars
             PROVE  \/ /\ UNCHANGED <<payload, current, manifest, config>>
                       /\ todo # <<>> /\ Pop => Head(todo).kind \notin OfTree
                    \/ /\ todo # <<>> /\ Pop
                       /\ CopyPayload \/ Switch \/ WriteManifest \/ WriteConfig \/ RemoveConfig
                    \/ todo # <<>> /\ RemoveEntry
  OBVIOUS
<1>0. todo # <<>> => Tail(todo) # todo
  BY Shorter
<1>1. CASE Install \/ Uninstall \/ RefusePayload \/ PutLegacy
  <2>1. todo = <<>>
    BY <1>1 DEF Install, Uninstall, RefusePayload, PutLegacy, Planned
  <2> QED
    BY <1>1, <2>1 DEF Install, Uninstall, RefusePayload, PutLegacy, tree
<1>2. CASE UNCHANGED vars
  BY <1>0, <1>2 DEF vars, tree, Pop
<1>3. CASE Migrate
  BY <1>3 DEF Migrate, Refuse, Do, Pop, tree, OfTree
<1>4. CASE Clean \/ RemoveTree
  BY <1>4 DEF Clean, RemoveTree, Do, tree, OfTree
<1>5. CASE CopyPayload \/ Switch \/ WriteManifest \/ WriteConfig \/ RemoveConfig
  BY <1>5 DEF CopyPayload, Switch, WriteManifest, WriteConfig, RemoveConfig, Do
<1>6. CASE RemoveEntry
  BY <1>6 DEF RemoveEntry, Do
<1>7. CASE BackupDestination \/ BackupPage \/ RemoveManaged
  <2>1. todo # <<>> /\ Head(todo).kind \notin OfTree
    BY <1>7 DEF BackupDestination, BackupPage, RemoveManaged, Do, OfTree
  <2> QED
    BY <1>7, <2>1 DEF BackupDestination, BackupPage, RemoveManaged, Refuse, tree
<1>8. CASE PutCommand \/ PutShim \/ PutPage \/ ReturnBackup
  BY <1>8 DEF PutCommand, PutShim, PutPage, ReturnBackup, Do, tree, OfTree
<1>9. CASE Finish \/ Stop
  BY <1>9 DEF Finish, Stop, End, Pop, tree, control
<1>10. CASE PutFile \/ PutOther \/ RemoveFile
  BY <1>0, <1>10 DEF PutFile, PutOther, RemoveFile, Change, Pop, tree
<1> QED
  BY <1>1, <1>2, <1>3, <1>4, <1>5, <1>6, <1>7, <1>8, <1>9, <1>10 DEF Next

(* What an install that starts has before it.                                *)
LEMMA InstallStarts ==
  ASSUME Install
  PROVE  \A k, n : Left(k, n)' <=>
           \/ k \in {"migrate", "clean", "copy", "command"} /\ n \in Commands
           \/ k \in {"switch", "manifest"} /\ n = None
           \/ k = "page" /\ n \in Manuals
           \/ k = (IF run'.mode = "transparent" THEN "shim" ELSE "restore") /\ n \in Shimmed
           \/ k = "config" /\ n = None /\ run'.policy # None
<1>1. PICK i \in Instances, mode \in Modes, asked \in POLICIES \union {None},
           policy \in POLICIES \union {None} :
        /\ run' = [does |-> "install", mode |-> mode, asked |-> asked, policy |-> policy,
                    instance |-> i]
        /\ todo' = InstallPlan(mode, policy)
  BY ChosenType DEF Install
<1>2. Elements(todo') = InstallTasks(mode, policy)
  BY <1>1, InstallPlanned
<1>3. run'.mode = mode /\ run'.policy = policy
  BY <1>1
<1>4. \A k, n, j, m : Task(k, n) = Task(j, m) <=> k = j /\ n = m
  BY DEF Task
<1> QED
  BY <1>2, <1>3, <1>4 DEF InstallTasks, Left

(* What an uninstall that starts has before it.                              *)
LEMMA UninstallStarts ==
  ASSUME Uninstall
  PROVE  /\ \A n \in Names \ Manuals : Left("restore", n)'
         /\ manifest # None => \A n \in Manuals : Left("unpage", n)'
<1>1. PICK purge \in BOOLEAN : todo' = UninstallPlan(manifest # None, purge)
  BY DEF Uninstall
<1>2. Elements(todo') = UninstallTasks(manifest # None, purge)
  BY <1>1, UninstallPlanned
<1> QED
  BY <1>2 DEF UninstallTasks, Left

(* While the tasks stay the same, the same ones remain.                      *)
LEMMA Kept ==
  ASSUME UNCHANGED todo PROVE \A k, n : Left(k, n)' <=> Left(k, n)
BY DEF Left

(* Every step keeps the payload complete, or what it lacks among the tasks.  *)
LEMMA CopiedStep == InstallerType /\ Planned /\ Copied /\ [Next]_vars => Copied'
<1> SUFFICES ASSUME InstallerType, Planned, Copied, [Next]_vars, run'.does = "install"
             PROVE  Copied'
  BY DEF Copied
<1>0. payload \in [Instances -> SUBSET Commands]
  BY DEF InstallerType
<1>1. CASE Install
  <2>1. \A n \in Commands : Left("copy", n)'
    BY <1>1, InstallStarts
  <2>2. Left("switch", None)'
    BY <1>1, InstallStarts
  <2> QED
    BY <2>1, <2>2 DEF Copied
<1>2. CASE Uninstall \/ End("done") \/ End("refused") \/ End("stopped")
  BY <1>2 DEF Uninstall, End, Idle
<1>3. CASE todo # <<>> /\ Pop
  <2>1. run' = run /\ todo' = Tail(todo)
    BY <1>3 DEF Pop, control
  <2>2. /\ \A k, n : Left(k, n)' => Left(k, n) /\ Rank(Head(todo).kind) <= Rank(k)
        /\ \A k, n : Left(k, n) => Left(k, n)' \/ (k = Head(todo).kind /\ n = Name)
        /\ Left(Head(todo).kind, Name)
    BY <1>3, <2>1, Popped
  <2>3. CASE CopyPayload
    <3>1. run.instance \in Instances /\ Do("copy") /\ current' = current
      BY <1>3, <2>1, <2>3, HeadProper DEF CopyPayload, Do, Planned
    <3>2. \A n \in Commands : n \in payload'[run.instance] <=> n \in payload[run.instance] \/ n = Name
      BY <1>0, <2>3, <3>1 DEF CopyPayload
    <3>3. Name \in Commands
      BY <1>3, <3>1, HeadProper DEF Do
    <3>4. payload[run.instance] = Commands => payload'[run.instance] = Commands
      BY <1>0, <2>3, <3>1, <3>3 DEF CopyPayload
    <3> QED
      BY <2>1, <2>2, <3>1, <3>2, <3>4 DEF Copied, Do
  <2>4. CASE Switch
    <3>1. Do("switch") /\ current' = run.instance /\ payload' = payload
      BY <2>4 DEF Switch
    <3>2. ~ Left("copy", None)' /\ \A n : ~ Left("copy", n)'
      BY <2>2, <3>1 DEF Rank, Do
    <3>3. Left("switch", None)
      BY <1>3, <2>2, <3>1, HeadProper DEF Do
    <3>4. \A n \in Commands : n \in payload[run.instance]
      BY <2>1, <2>2, <3>1, <3>2, <3>3 DEF Copied, Do
    <3>5. payload[run.instance] = Commands
      BY <1>0, <1>3, <2>1, <3>1, <3>4, HeadProper DEF Planned, Do
    <3> QED
      BY <2>1, <3>1, <3>4, <3>5 DEF Copied
  <2>5. CASE UNCHANGED <<payload, current>> /\ ~ Do("copy") /\ ~ Do("switch")
    BY <1>3, <2>1, <2>2, <2>5 DEF Copied, Do
  <2>6. CASE RemoveEntry
    BY <1>3, <2>1, <2>6, HeadProper DEF RemoveEntry, Do
  <2>7. (WriteManifest \/ WriteConfig \/ RemoveConfig) =>
           UNCHANGED <<payload, current>> /\ ~ Do("copy") /\ ~ Do("switch")
    BY DEF WriteManifest, WriteConfig, RemoveConfig, Do, tree
  <2> QED
    BY <1>3, <2>3, <2>4, <2>5, <2>6, <2>7, TreeStep DEF OfTree, Do
<1>4. CASE /\ UNCHANGED <<todo, half, run>> \/ (todo # <<>> /\ Halfway)
           /\ ~ RemoveEntry
           /\ ~ (todo # <<>> /\ Pop)
  <2>1. UNCHANGED <<todo, run>>
    BY <1>4 DEF Halfway, control
  <2>2. UNCHANGED <<payload, current>>
    BY <1>4, TreeStep
  <2> QED
    BY <2>1, <2>2, Kept DEF Copied
<1>5. CASE RemoveEntry
  <2>1. todo # <<>> /\ run' = run /\ run.does = "uninstall"
    BY <1>5, HeadProper DEF RemoveEntry, Do, control
  <2> QED
    BY <2>1
<1> QED
  BY <1>1, <1>2, <1>3, <1>4, <1>5, Controls DEF ControlStep

(* No task that remains is of an earlier phase than the first one.           *)
LEMMA Later ==
  ASSUME InstallerType, Planned, todo # <<>>
  PROVE  \A k, n : Left(k, n) => Rank(Head(todo).kind) <= Rank(k)
<1>1. \A k, n : Task(k, n).kind = k
  BY DEF Task
<1>2. Rank(Head(todo).kind) \in Nat
  BY RankType
<1> QED
  BY <1>1, <1>2, HeadTask DEF Left

(* When the tree is removed, nothing of Bedit's is left in bin and man1.     *)
LEMMA TreeRemoved ==
  ASSUME InstallerType, Planned, Placed, Restoring, Do("tree")
  PROVE  run.does = "uninstall" /\ \A n \in Names : entry[n] \notin Managed
<1>1. run.does = "uninstall" /\ todo # <<>>
  BY HeadProper DEF Do
<1>2. Rank("tree") = 5 /\ Rank("restore") = 4 /\ Rank("unpage") = 4
  BY DEF Rank
<1>3. \A n : ~ Left("restore", n) /\ ~ Left("unpage", n)
  BY <1>1, <1>2, Later DEF Do
<1> QED
  BY <1>1, <1>3 DEF Restoring

(* Every step keeps the manifest, and pages only beside a manifest.          *)
LEMMA RecordedStep ==
  InstallerType /\ Planned /\ Placed /\ Restoring /\ Recorded /\ [Next]_vars => Recorded'
<1> SUFFICES ASSUME InstallerType, Planned, Placed, Restoring, Recorded, [Next]_vars
             PROVE  Recorded'
  OBVIOUS
<1>0. manifest \in Modes \union {None} /\ entry \in [Names -> Entries] /\ run \in Runs
  BY DEF InstallerType
<1>1. ASSUME run'.does = "install", ~ Left("manifest", None)' PROVE manifest' = run'.mode
  <2>1. CASE Install
    BY <1>1, <2>1, InstallStarts
  <2>2. CASE Uninstall \/ End("done") \/ End("refused") \/ End("stopped")
    BY <1>1, <2>2 DEF Uninstall, End, Idle
  <2>3. CASE todo # <<>> /\ Pop /\ ~ RemoveEntry
    <3>1. run' = run /\ todo' = Tail(todo)
      BY <2>3 DEF Pop, control
    <3>2. CASE WriteManifest
      BY <3>1, <3>2 DEF WriteManifest
    <3>3. CASE manifest' = manifest /\ ~ Do("manifest")
      <4>1. ~ Left("manifest", None)
        BY <1>1, <2>3, <3>1, <3>3, Popped DEF Do
      <4> QED
        BY <1>1, <3>1, <3>3, <4>1 DEF Recorded
    <3>4. (CopyPayload \/ Switch \/ WriteConfig \/ RemoveConfig) =>
             manifest' = manifest /\ ~ Do("manifest")
      BY DEF CopyPayload, Switch, WriteConfig, RemoveConfig, Do, tree
    <3> QED
      BY <2>3, <3>2, <3>3, <3>4, TreeStep DEF OfTree, Do
  <2>4. CASE RemoveEntry
    BY <1>1, <2>4, TreeRemoved DEF RemoveEntry, control
  <2>5. CASE /\ UNCHANGED <<todo, half, run>> \/ (todo # <<>> /\ Halfway)
             /\ ~ RemoveEntry /\ ~ (todo # <<>> /\ Pop)
    <3>1. UNCHANGED <<todo, run, manifest>>
      BY <2>5, TreeStep DEF Halfway, control
    <3> QED
      BY <1>1, <3>1, Kept DEF Recorded
  <2> QED
    BY <2>1, <2>2, <2>3, <2>4, <2>5, Controls DEF ControlStep
<1>2. ASSUME NEW n \in Names, entry'[n] = "page" PROVE manifest' # None
  <2>1. CASE manifest # None /\ ~ RemoveEntry
    <3>1. WriteManifest => manifest' \in Modes
      BY HeadProper DEF WriteManifest, Do, Planned
    <3>2. manifest' = manifest \/ WriteManifest
      BY <2>1, TreeStep DEF CopyPayload, Switch, WriteConfig, RemoveConfig, tree
    <3> QED
      BY <2>1, <3>1, <3>2, Apart
  <2>2. CASE manifest = None /\ ~ RemoveEntry
    <3>1. entry[n] # "page"
      BY <2>2 DEF Recorded
    <3>2. CASE PutPage
      <4>1. todo # <<>> /\ Do("page") /\ Rank("page") = 4 /\ Rank("manifest") = 3
        BY <3>2 DEF PutPage, Do, Rank
      <4>2. ~ Left("manifest", None)
        BY <4>1, Later DEF Do
      <4>3. run.does = "install" /\ run.mode \in Modes
        BY <4>1, HeadProper DEF Do, Planned
      <4> QED
        BY <2>2, <4>2, <4>3, Apart DEF Recorded
    <3>3. \/ PutPage \/ entry'[n] = entry[n]
          \/ entry'[n] \in Theirs \union {"link", "shim", None}
      BY <1>0, FileStep DEF Theirs, BackupDestination, BackupPage, RemoveManaged, PutCommand, PutShim,
         ReturnBackup, Change, Halfway, Refuse, End, files, InstallerType
    <3> QED
      BY <1>2, <3>1, <3>2, <3>3, Apart DEF Managed
  <2>3. CASE RemoveEntry
    <3>1. entry'[n] = entry[n] /\ entry[n] \notin Managed
      BY <2>3, TreeRemoved DEF RemoveEntry, files
    <3> QED
      BY <1>2, <3>1 DEF Managed
  <2> QED
    BY <2>1, <2>2, <2>3
<1> QED
  BY <1>1, <1>2 DEF Recorded

(* Every step keeps the policy of a run that has written it.                 *)
LEMMA ConfiguredStep == InstallerType /\ Planned /\ Configured /\ [Next]_vars => Configured'
<1> SUFFICES ASSUME InstallerType, Planned, Configured, [Next]_vars, run'.policy # None
             PROVE  Configured'
  BY DEF Configured
<1>0. config \in Configurations \union {None} /\ run \in Runs
  BY DEF InstallerType
<1>1. CASE Install
  <2>0. Left("config", None)'
    BY <1>1, InstallStarts
  <2>1. run'.asked = None => run'.policy = Existing
    <3>1. PICK scope \in Scopes, asked \in POLICIES \union {None} :
            run'.asked = asked /\ run'.policy = Chosen(scope, asked)
      BY <1>1 DEF Install
    <3> QED
      BY <3>1 DEF Chosen
  <2>2. Existing' = Existing
    BY <1>1 DEF Install, Existing
  <2> QED
    BY <2>0, <2>1, <2>2 DEF Configured
<1>2. CASE Uninstall \/ End("done") \/ End("refused") \/ End("stopped")
  BY <1>2 DEF Uninstall, End, Idle
<1>3. CASE todo # <<>> /\ Pop /\ ~ RemoveEntry
  <2>1. run' = run /\ todo' = Tail(todo)
    BY <1>3 DEF Pop, control
  <2>2. CASE WriteConfig
    <3>1. PICK c \in Configurations : config' = [c EXCEPT !.settings = <<run.policy>>]
      <4>1. NoLines \in Configurations
        BY DEF NoLines, Configurations
      <4> QED
        BY <1>0, <2>2, <4>1 DEF WriteConfig
    <3>2. config'.settings = <<run.policy>>
      BY <3>1 DEF Configurations
    <3>3. config' \in Configurations
      BY <1>0, <2>1, <3>1, SettingsType
    <3>4. Existing' = run.policy
      <4>1. run.policy \in POLICIES /\ Head(<<run.policy>>) = run.policy /\ <<run.policy>> # <<>>
        BY <1>0, <2>1 DEF Runs
      <4> QED
        BY <3>2, <3>3, <4>1, InstallerAssumption DEF Existing
    <3> QED
      BY <2>1, <3>2, <3>3, <3>4, InstallerAssumption DEF Configured
  <2>3. CASE config' = config /\ ~ Do("config")
    <3>1. Existing' = Existing
      BY <2>3 DEF Existing
    <3>2. Left("config", None)' <=> Left("config", None)
      BY <1>3, <2>1, <2>3, Popped DEF Do
    <3> QED
      BY <2>1, <2>3, <3>1, <3>2 DEF Configured
  <2>4. CASE RemoveConfig
    BY <1>3, <2>1, <2>4, HeadProper DEF RemoveConfig, Do, Planned
  <2>5. (CopyPayload \/ Switch \/ WriteManifest) => config' = config /\ ~ Do("config")
    BY DEF CopyPayload, Switch, WriteManifest, Do
  <2> QED
    BY <1>3, <2>2, <2>3, <2>4, <2>5, TreeStep DEF OfTree, Do
<1>4. CASE RemoveEntry
  BY <1>4, HeadProper DEF RemoveEntry, Do, control, Planned
<1>5. CASE /\ UNCHANGED <<todo, half, run>> \/ (todo # <<>> /\ Halfway)
           /\ ~ RemoveEntry /\ ~ (todo # <<>> /\ Pop)
  <2>1. UNCHANGED <<todo, run, config>>
    BY <1>5, TreeStep DEF Halfway, control
  <2>2. Existing' = Existing
    BY <2>1 DEF Existing
  <2> QED
    BY <2>1, <2>2, Kept DEF Configured
<1> QED
  BY <1>1, <1>2, <1>3, <1>4, <1>5, Controls DEF ControlStep

(* Every step of an uninstall leaves what is to be restored among its        *)
(* tasks.                                                                    *)
LEMMA RestoringStep ==
  InstallerType /\ Planned /\ Placed /\ Halved /\ Recorded /\ Restoring /\ [Next]_vars
    => Restoring'
<1> SUFFICES ASSUME InstallerType, Planned, Placed, Halved, Recorded, Restoring, [Next]_vars,
                    run'.does = "uninstall"
             PROVE  Restoring'
  BY DEF Restoring
<1>0. entry \in [Names -> Entries] /\ backup \in [Names -> UserFiles \union {None}]
  BY DEF InstallerType
<1>1. CASE Uninstall
  <2>1. UNCHANGED <<entry, backup>>
    BY <1>1 DEF Uninstall, files
  <2>2. ASSUME NEW n \in Manuals, entry[n] \in Managed PROVE Left("unpage", n)'
    <3>1. entry[n] = "page"
      BY <2>2, Apart DEF Managed, Placed
    <3> QED
      BY <1>1, <3>1, Apart, UninstallStarts DEF Recorded
  <2> QED
    BY <1>1, <2>1, <2>2, UninstallStarts DEF Restoring
<1>2. CASE Install \/ End("done") \/ End("refused") \/ End("stopped")
  BY <1>2 DEF Install, End, Idle
<1>3. CASE todo # <<>> /\ Pop
  <2>1. run' = run /\ todo' = Tail(todo)
    BY <1>3 DEF Pop, control
  <2>2. \A k, n : Left(k, n) => Left(k, n)' \/ (k = Head(todo).kind /\ n = Name)
    BY <1>3, <2>1, Popped
  <2>3. CASE UNCHANGED <<entry, backup>> /\ Head(todo).kind \notin OfFiles
    BY <2>1, <2>2, <2>3 DEF Restoring, OfFiles
  <2>4. CASE ReturnBackup
    <3>1. entry[Name] \notin Managed
      BY <2>4 DEF ReturnBackup, Do, Halved
    <3>2. \A n \in Names \ {Name} : entry'[n] = entry[n] /\ backup'[n] = backup[n]
      BY <1>0, <2>4 DEF ReturnBackup, files
    <3>3. Name \in Names => /\ entry'[Name] \notin Managed
                            /\ entry'[Name] # None \/ backup'[Name] = None
      BY <1>0, <2>4, <3>1, Apart DEF ReturnBackup, files
    <3> QED
      BY <2>1, <2>2, <3>2, <3>3, Apart DEF Restoring
  <2>5. ~ PutCommand /\ ~ PutShim /\ ~ PutPage
    BY <1>3, <2>1, HeadProper DEF PutCommand, PutShim, PutPage, Do
  <2>6. CASE \E n \in Touched, e \in Theirs \union {None} : Change(n, e)
    BY <1>3, <2>6 DEF Change, Planned
  <2> QED
    BY <1>3, <2>3, <2>4, <2>5, <2>6, FileStep DEF Halfway, Pop
<1>4. CASE UNCHANGED <<todo, half, run>> \/ (todo # <<>> /\ Halfway)
  <2>1. UNCHANGED <<todo, run>>
    BY <1>4 DEF Halfway, control
  <2>2. CASE UNCHANGED <<entry, backup>>
    BY <2>1, <2>2, Kept DEF Restoring
  <2>3. CASE todo # <<>> /\ Halfway /\ (BackupDestination \/ BackupPage)
    BY <2>1, <2>3, HeadProper DEF BackupDestination, BackupPage, Do
  <2>4. CASE todo # <<>> /\ Halfway /\ RemoveManaged
    <3>1. UNCHANGED backup /\ \A n \in Names : n # Name => entry'[n] = entry[n]
      BY <1>0, <2>4 DEF RemoveManaged, Halfway, Refuse, End
    <3>2. Name \in Names => entry'[Name] \notin Managed
      BY <1>0, <2>4, Apart DEF RemoveManaged, Halfway, Refuse, End
    <3>3. Left(Head(todo).kind, Name) /\ (Do("restore") \/ Do("unpage"))
      BY <2>4, HeadTask DEF RemoveManaged, Left
    <3>4. Do("restore") \/ Name \in Manuals
      BY <3>3, HeadProper DEF Do
    <3> QED
      BY <2>1, <3>1, <3>2, <3>3, <3>4, Kept, Apart DEF Restoring, Do
  <2>5. CASE \E n \in Touched, e \in Theirs \union {None} : Change(n, e)
    BY <2>1, <2>5 DEF Change, Idle
  <2>6. ~ (todo # <<>> /\ Pop)
    BY <2>1, Shorter DEF Pop
  <2> QED
    BY <2>2, <2>3, <2>4, <2>5, <2>6, FileStep
<1> QED
  BY <1>1, <1>2, <1>3, <1>4, Controls DEF ControlStep

(* Every step of an install leaves what is to be put in place among its      *)
(* tasks.                                                                    *)
LEMMA InstallingStep ==
  InstallerType /\ Planned /\ Halved /\ Installing /\ [Next]_vars => Installing'
<1> SUFFICES ASSUME InstallerType, Planned, Halved, Installing, [Next]_vars,
                    run'.does = "install"
             PROVE  Installing'
  BY DEF Installing
<1>0. entry \in [Names -> Entries] /\ backup \in [Names -> UserFiles \union {None}]
  BY DEF InstallerType
<1>1. CASE Install
  <2>1. run'.mode \in Modes
    BY <1>1 DEF Install
  <2> QED
    BY <1>1, <2>1, InstallStarts DEF Installing
<1>2. CASE Uninstall \/ End("done") \/ End("refused") \/ End("stopped")
  BY <1>2 DEF Uninstall, End, Idle
<1>3. CASE todo # <<>> /\ Pop
  <2>1. run' = run /\ todo' = Tail(todo)
    BY <1>3 DEF Pop, control
  <2>2. \A k, n : Left(k, n) => Left(k, n)' \/ (k = Head(todo).kind /\ n = Name)
    BY <1>3, <2>1, Popped
  <2>3. CASE UNCHANGED <<entry, backup>> /\ Head(todo).kind \notin OfFiles
    BY <2>1, <2>2, <2>3 DEF Installing, OfFiles
  <2>4. CASE PutCommand \/ PutShim \/ PutPage
    <3>0. \/ PutCommand /\ Do("command") /\ Name \in Commands
          \/ PutShim /\ Do("shim") /\ Name \in Shimmed /\ run.mode = "transparent"
          \/ PutPage /\ Do("page") /\ Name \in Manuals
      BY <1>3, <2>4, HeadProper DEF PutCommand, PutShim, PutPage, Do
    <3>1. /\ \A n \in Names : n # Name => entry'[n] = entry[n]
          /\ \/ Do("command") /\ Name \in Commands /\ entry'[Name] = "link"
             \/ /\ Do("shim") /\ Name \in Shimmed /\ entry'[Name] = "shim"
                /\ run.mode = "transparent"
             \/ Do("page") /\ Name \in Manuals /\ entry'[Name] = "page"
      BY <1>0, <3>0, Apart DEF PutCommand, PutShim, PutPage
    <3> QED
      BY <2>1, <2>2, <3>1, Apart DEF Installing, Do
  <2>5. CASE ReturnBackup
    <3>1. Do("restore") /\ run.mode = "named" /\ Name \in Shimmed
      BY <1>3, <2>1, <2>5, HeadProper DEF ReturnBackup, Do
    <3>2. /\ \A n \in Names : n # Name => entry'[n] = entry[n]
          /\ entry'[Name] # "shim"
      BY <1>0, <2>5, <3>1, Apart DEF ReturnBackup, files, Halved, Do, Managed
    <3> QED
      BY <2>1, <2>2, <3>1, <3>2, Apart DEF Installing, Do
  <2>6. CASE \E n \in Touched, e \in Theirs \union {None} : Change(n, e)
    BY <1>3, <2>6 DEF Change, Planned
  <2> QED
    BY <1>3, <2>3, <2>4, <2>5, <2>6, FileStep DEF Halfway, Pop
<1>4. CASE UNCHANGED <<todo, half, run>> \/ (todo # <<>> /\ Halfway)
  <2>1. UNCHANGED <<todo, run>>
    BY <1>4 DEF Halfway, control
  <2>2. CASE UNCHANGED <<entry, backup>>
    BY <2>1, <2>2, Kept DEF Installing
  <2>3. CASE todo # <<>> /\ Halfway /\ (BackupDestination \/ BackupPage \/ RemoveManaged)
    <3>1. /\ \A n \in Names : n # Name => entry'[n] = entry[n]
          /\ Name \in Names => entry'[Name] = None \/ (~ Do("command") /\ ~ Do("shim"))
      BY <1>0, <2>3 DEF BackupDestination, BackupPage, RemoveManaged, Halfway, Refuse, End, Do
    <3>2. \/ Do("command") /\ Name \in Commands
          \/ Do("shim") /\ Name \in Shimmed /\ run.mode = "transparent"
          \/ Do("page") /\ Name \in Manuals
          \/ Do("restore") /\ Name \in Shimmed /\ run.mode = "named"
      BY <2>1, <2>3, HeadProper DEF BackupDestination, BackupPage, RemoveManaged, Do
    <3>3. Left(Head(todo).kind, Name)
      BY <2>3, HeadTask DEF Left
    <3> QED
      BY <2>1, <3>1, <3>2, <3>3, Kept, Apart DEF Installing, Do
  <2>4. CASE \E n \in Touched, e \in Theirs \union {None} : Change(n, e)
    BY <2>1, <2>4 DEF Change, Idle
  <2>5. ~ (todo # <<>> /\ Pop)
    BY <2>1, Shorter DEF Pop
  <2> QED
    BY <2>2, <2>3, <2>4, <2>5, FileStep
<1> QED
  BY <1>1, <1>2, <1>3, <1>4, Controls DEF ControlStep

(* No step leaves a link or a shim without its program.                      *)
LEMMA CommandsLeadStep ==
  /\ InstallerType /\ Planned /\ Placed /\ Copied /\ Restoring /\ CommandsLead /\ [Next]_vars
  => CommandsLead'
<1> SUFFICES ASSUME InstallerType, Planned, Placed, Copied, Restoring, CommandsLead, [Next]_vars
             PROVE  CommandsLead'
  OBVIOUS
<1>0. /\ payload \in [Instances -> SUBSET Commands] /\ entry \in [Names -> Entries]
      /\ backup \in [Names -> UserFiles \union {None}]
      /\ current \in Instances \union {None}
  BY DEF InstallerType
<1>1. CASE CopyPayload
  <2>1. UNCHANGED <<entry, current>>
    BY <1>1 DEF CopyPayload, files
  <2>2. \A i \in Instances : payload[i] \subseteq payload'[i]
    BY <1>0, <1>1 DEF CopyPayload
  <2> QED
    BY <1>0, <2>1, <2>2 DEF CommandsLead
<1>2. CASE Switch
  <2>1. /\ UNCHANGED <<entry, run>> /\ current' = run.instance /\ payload' = payload
        /\ run.does = "install" /\ run.instance \in Instances
    BY <1>2, HeadProper DEF Switch, Do, Pop, control, files, Planned
  <2>3. payload[run.instance] = Commands
    <3>1. todo # <<>> /\ Do("switch") /\ Rank("switch") = 2 /\ Rank("copy") = 1
      BY <1>2 DEF Switch, Do, Rank
    <3>2. Left("switch", None)
      BY <3>1, HeadTask, HeadProper DEF Left, Do
    <3>3. \A n : ~ Left("copy", n)
      BY <3>1, Later DEF Do
    <3> QED
      BY <1>0, <2>1, <3>2, <3>3 DEF Copied
  <2>4. current' # None
    BY <2>1, Apart
  <2>5. \A n \in Shimmed : WrapperOf[n] \in Commands
    BY InstallerAssumption
  <2> QED
    BY <2>1, <2>3, <2>4, <2>5 DEF CommandsLead, Placed
<1>3. CASE RemoveEntry
  BY <1>3, TreeRemoved DEF RemoveEntry, files, CommandsLead, Managed
<1>4. CASE PutCommand \/ PutShim
  <2>1. todo # <<>> /\ run.does = "install" /\ (Do("command") \/ Do("shim"))
    BY <1>4, HeadProper DEF PutCommand, PutShim, Do
  <2>2. Rank("command") = 4 /\ Rank("shim") = 4 /\ Rank("switch") = 2
    BY DEF Rank
  <2>3. ~ Left("switch", None)
    BY <2>1, <2>2, Later DEF Do
  <2>4. current \in Instances /\ payload[current] = Commands /\ current # None
    BY <2>1, <2>3, Apart DEF Copied, Planned
  <2>5. /\ UNCHANGED <<payload, current>> /\ \A n \in Names : n # Name => entry'[n] = entry[n]
        /\ \/ Name \in Commands /\ entry'[Name] = "link"
           \/ Name \in Shimmed /\ entry'[Name] = "shim"
    <3>1. (Do("command") /\ Name \in Commands) \/ (Do("shim") /\ Name \in Shimmed)
      BY <2>1, HeadProper DEF Do
    <3> QED
      BY <1>0, <1>4, <3>1, Apart DEF PutCommand, PutShim, Do, tree
  <2>6. \A n \in Shimmed : WrapperOf[n] \in Commands
    BY InstallerAssumption
  <2> QED
    BY <2>4, <2>5, <2>6 DEF CommandsLead
<1>5. CASE ~ CopyPayload /\ ~ Switch /\ ~ RemoveEntry /\ ~ PutCommand /\ ~ PutShim
  <2>1. UNCHANGED <<payload, current>>
    BY <1>5, TreeStep DEF WriteManifest, WriteConfig, RemoveConfig, tree
  <2>2. \A n \in Names : \/ entry'[n] = entry[n]
                         \/ entry'[n] \in Theirs \union {"page", None}
    BY <1>0, <1>5, FileStep DEF Theirs, BackupDestination, BackupPage, RemoveManaged, PutPage,
       ReturnBackup, Change, Halfway, Refuse, End, files
  <2> QED
    BY <2>1, <2>2, Apart DEF CommandsLead, Managed
<1> QED
  BY <1>1, <1>2, <1>3, <1>4, <1>5

(* A step that refuses, with its reason.                                     *)
Refusal ==
  /\ last' = [does |-> run.does, end |-> "refused", mode |-> run.mode]
  /\ UNCHANGED <<entry, backup, legacy, previous>>
  /\ \/ \E n \in Names : entry[n] = "irregular"
     \/ \E n \in Manuals : entry[n] = "symlink"
     \/ /\ run.does = "install"
        /\ \/ \E n \in Names : entry[n] = "symlink" \/ (Foreign(n) /\ backup[n] # None)
           \/ legacy \intersect previous # {}

(* A run that is reported as done or refused has done all its tasks or has   *)
(* refused one.                                                              *)
LEMMA Endings ==
  ASSUME InstallerType, Planned, [Next]_vars, last'.end \in {"done", "refused"}
  PROVE  UNCHANGED vars \/ Finish \/ Refusal
<1>1. CASE UNCHANGED vars
  BY <1>1
<1>2. CASE run = Idle /\ ~ UNCHANGED vars
  <2>1. todo = <<>>
    BY <1>2 DEF Planned
  <2>2. last' \in {NoLast, [does |-> "install", end |-> "stopped", mode |-> None]}
    BY <1>2, <2>1 DEF Next, Install, Uninstall, RefusePayload, PutFile, PutOther,
       RemoveFile, Change, PutLegacy, Finish, Stop, Do, Migrate, Clean, CopyPayload, Switch,
       WriteManifest, BackupDestination, PutCommand, PutShim, BackupPage, PutPage,
       RemoveManaged, ReturnBackup, RemoveEntry, RemoveTree, WriteConfig, RemoveConfig
  <2> QED
    BY <2>2 DEF NoLast
<1>3. CASE run # Idle /\ ~ UNCHANGED vars
  <2>1. last = NoLast /\ last'.end # "none"
    BY <1>3 DEF Planned
  <2>2. last' # last
    BY <2>1 DEF NoLast
  <2>3. CASE Finish
    BY <2>3
  <2>4. CASE Migrate
    <3>1. Name \in legacy \intersect previous /\ run.does = "install" /\ Refuse
      BY <2>2, <2>4, HeadProper DEF Migrate, Do, Pop
    <3> QED
      BY <3>1 DEF Refuse, End, Refusal, files, tree
  <2>5. CASE BackupDestination
    <3>1. Refuse /\ (entry[Name] \in Others \/ (Foreign(Name) /\ backup[Name] # None))
      BY <2>2, <2>5 DEF BackupDestination, Halfway
    <3>2. Name \in Names /\ run.does = "install"
      BY <2>5, HeadProper, Apart DEF BackupDestination, Do
    <3> QED
      BY <3>1, <3>2 DEF Refuse, End, Refusal, files, tree, Others
  <2>6. CASE BackupPage
    <3>1. Refuse /\ (entry[Name] \in Others \/ (Foreign(Name) /\ backup[Name] # None))
      BY <2>2, <2>6 DEF BackupPage, Halfway
    <3>2. Name \in Names /\ run.does = "install"
      BY <2>6, HeadProper, Apart DEF BackupPage, Do
    <3> QED
      BY <3>1, <3>2 DEF Refuse, End, Refusal, files, tree, Others
  <2>7. CASE RemoveManaged
    <3>1. Refuse /\ (entry[Name] = "irregular" \/ (Do("unpage") /\ entry[Name] = "symlink"))
      BY <2>2, <2>7 DEF RemoveManaged, Halfway
    <3>2. Name \in Names /\ (Do("unpage") => Name \in Manuals)
      BY <2>7, HeadProper, Apart DEF RemoveManaged, Do
    <3> QED
      BY <3>1, <3>2 DEF Refuse, End, Refusal, files, tree
  <2>8. CASE Stop
    BY <2>8 DEF Stop, End
  <2>9. CASE Clean \/ CopyPayload \/ Switch \/ WriteManifest \/ RemoveEntry \/ RemoveTree
             \/ WriteConfig \/ RemoveConfig
    BY <2>2, <2>9 DEF Clean, CopyPayload, Switch, WriteManifest, RemoveEntry, RemoveTree,
       WriteConfig, RemoveConfig, Pop
  <2>10. CASE PutCommand \/ PutShim \/ PutPage \/ ReturnBackup
    BY <2>2, <2>10 DEF PutCommand, PutShim, PutPage, ReturnBackup, Pop
  <2>11. ~ Install /\ ~ Uninstall /\ ~ RefusePayload /\ ~ PutFile /\ ~ PutOther /\ ~ RemoveFile
         /\ ~ PutLegacy
    BY <1>3 DEF Install, Uninstall, RefusePayload, PutFile, PutOther, RemoveFile, Change, PutLegacy
  <2> QED
    BY <1>3, <2>3, <2>4, <2>5, <2>6, <2>7, <2>8, <2>9, <2>10, <2>11 DEF Next
<1> QED
  BY <1>1, <1>2, <1>3

(* A run that is done has no task left, and changes nothing when it ends.    *)
LEMMA FinishEnds ==
  ASSUME Planned, Finish
  PROVE  /\ \A k, n : ~ Left(k, n)
         /\ UNCHANGED <<entry, backup, legacy, previous, manifest, config>>
         /\ last' = [does |-> run.does, end |-> "done", mode |-> run.mode]
         /\ run' = Idle
BY DEF Finish, End, files, tree, Left, Elements

(* What is promised of a run that has ended.                                 *)
Outcomes == RefusalsExplained /\ UninstallRestores /\ InstallCompletes

(* Every step keeps what was promised of the last run.                       *)
LEMMA OutcomesStep ==
  /\ InstallerType /\ Planned /\ Placed /\ Recorded /\ Restoring /\ Installing /\ Outcomes
  /\ [Next]_vars
  => Outcomes'
<1> SUFFICES ASSUME InstallerType, Planned, Placed, Recorded, Restoring, Installing, Outcomes,
                    [Next]_vars
             PROVE  Outcomes'
  OBVIOUS
<1>1. CASE UNCHANGED vars
  BY <1>1 DEF vars, files, tree, Outcomes, RefusalsExplained, UninstallRestores,
     InstallCompletes, Foreign
<1>2. RefusalsExplained'
  <2> SUFFICES ASSUME last'.end = "refused", ~ UNCHANGED vars PROVE RefusalsExplained'
    BY <1>1 DEF RefusalsExplained, Outcomes
  <2>1. ~ Finish
    BY FinishEnds
  <2>2. Refusal
    BY <2>1, Endings
  <2> QED
    BY <2>2 DEF Refusal, RefusalsExplained, Foreign
<1>3. UninstallRestores' /\ InstallCompletes'
  <2> SUFFICES ASSUME last'.end = "done", ~ UNCHANGED vars
               PROVE  UninstallRestores' /\ InstallCompletes'
    BY <1>1 DEF UninstallRestores, InstallCompletes, Outcomes
  <2>1. Finish
    BY Endings DEF Refusal
  <2>2. /\ \A k, n : ~ Left(k, n)
        /\ UNCHANGED <<entry, backup, manifest>>
        /\ last' = [does |-> run.does, end |-> "done", mode |-> run.mode]
    BY <2>1, FinishEnds
  <2>3. UninstallRestores'
    BY <2>2, Apart DEF UninstallRestores, Restoring
  <2>4. run.does = "install" => run.mode \in Modes
    BY DEF Planned
  <2>5. ASSUME run.does = "install" PROVE InstallCompletes'
    <3>1. manifest' = run.mode
      BY <2>2, <2>5 DEF Recorded
    <3>2. \A n \in Commands : entry'[n] = "link"
      BY <2>2, <2>5 DEF Installing
    <3>3. \A n \in Manuals : entry'[n] = "page"
      BY <2>2, <2>5 DEF Installing
    <3>4. \A n \in Shimmed : entry'[n] = "shim" <=> run.mode = "transparent"
      BY <2>2, <2>4, <2>5 DEF Installing, Modes
    <3> QED
      BY <2>2, <3>1, <3>2, <3>3, <3>4 DEF InstallCompletes
  <2> QED
    BY <2>2, <2>3, <2>5 DEF InstallCompletes
<1> QED
  BY <1>2, <1>3 DEF Outcomes

(* The inductive invariant.                                                  *)
InstallerInv ==
  /\ InstallerType /\ Planned /\ Placed /\ Halved /\ UserFilesKept
  /\ Copied /\ Recorded /\ Configured /\ Restoring /\ Installing /\ CommandsLead /\ Outcomes

(* It holds before the first install.                                        *)
LEMMA InstallerInvInit == Init => InstallerInv
<1> SUFFICES ASSUME Init PROVE InstallerInv
  OBVIOUS
<1>1. /\ entry = [n \in Names |-> None] /\ backup = [n \in Names |-> None]
      /\ mine = [n \in Names |-> {}] /\ payload = [i \in Instances |-> {}]
      /\ todo = <<>> /\ half = FALSE /\ run = Idle /\ last = NoLast
      /\ current = None /\ manifest = None /\ config \in Configs
      /\ legacy \subseteq Commands /\ stale \subseteq Commands /\ previous = {}
  BY DEF Init
<1>2. InstallerType
  <2>1. entry \in [Names -> Entries] /\ backup \in [Names -> UserFiles \union {None}]
    BY <1>1 DEF Entries
  <2>2. mine \in [Names -> SUBSET Theirs] /\ payload \in [Instances -> SUBSET Commands]
    BY <1>1
  <2>3. run \in Runs /\ last \in Lasts
    BY <1>1 DEF Idle, Runs, NoLast, Lasts
  <2>4. config \in Configurations \union {None} /\ todo \in Seq(Tasks)
    BY <1>1, InstallerAssumption
  <2> QED
    BY <1>1, <2>1, <2>2, <2>3, <2>4 DEF InstallerType
<1>3. Planned
  BY <1>1 DEF Planned, Sorted, Elements, Idle
<1>4. Placed /\ Halved /\ UserFilesKept /\ CommandsLead
  BY <1>1, Apart DEF Placed, Halved, UserFilesKept, CommandsLead, Managed
<1>5. Copied /\ Recorded /\ Configured /\ Restoring /\ Installing
  BY <1>1, Apart DEF Copied, Recorded, Configured, Restoring, Installing, Idle, Managed
<1>6. Outcomes
  BY <1>1 DEF Outcomes, RefusalsExplained, UninstallRestores, InstallCompletes, NoLast
<1> QED
  BY <1>2, <1>3, <1>4, <1>5, <1>6 DEF InstallerInv

(* And always.                                                               *)
THEOREM InstallerInvariance == Spec => []InstallerInv
<1>1. Init => InstallerInv
  BY InstallerInvInit
<1>2. InstallerInv /\ [Next]_vars => InstallerInv'
  BY InstallerTypeStep, PlannedStep, PlacedStep, HalvedStep, UserFilesKeptStep, CopiedStep,
     RecordedStep, ConfiguredStep, RestoringStep, InstallingStep, CommandsLeadStep, OutcomesStep
  DEF InstallerInv
<1> QED
  BY <1>1, <1>2, PTL DEF Spec

(* Every variable has its type, whatever runs are made and wherever they     *)
(* stop.                                                                     *)
THEOREM InstallerTyped == Spec => []InstallerType
BY InstallerInvariance, PTL DEF InstallerInv

(* No install, upgrade or uninstall, and none that stops half-way, loses a   *)
(* file that the user or a package put at a name of Bedit's: it is there or  *)
(* in its backup.                                                            *)
THEOREM UserFilesStay == Spec => []UserFilesKept
BY InstallerInvariance, PTL DEF InstallerInv

(* Every command and shim leads to a program at every moment, also while an  *)
(* upgrade switches and while the tree is removed.                           *)
THEOREM CommandsAlwaysLead == Spec => []CommandsLead
BY InstallerInvariance, PTL DEF InstallerInv

(* A run is refused only over something of the user's or an old release,     *)
(* never over what another run has left.                                     *)
THEOREM OnlyExplainedRefusals == Spec => []RefusalsExplained
BY InstallerInvariance, PTL DEF InstallerInv, Outcomes

(* An uninstall that ends well leaves nothing of Bedit's in bin and man1,    *)
(* and the replaced commands are back.                                       *)
THEOREM UninstallsRestore == Spec => []UninstallRestores
BY InstallerInvariance, PTL DEF InstallerInv, Outcomes

(* An install that ends well has every name as its mode wants it.            *)
THEOREM InstallsComplete == Spec => []InstallCompletes
BY InstallerInvariance, PTL DEF InstallerInv, Outcomes
==============================================================================
