------------------------------ MODULE TuiProofs ------------------------------
(* Proofs about Tui, for any number of files, revisions, keys and publishers. *)
EXTENDS Tui, SequenceTheorems, FiniteSetTheorems, WellFoundedInduction, TLAPS

-----------------------------------------------------------------------------
(* Sorting.                                                                  *)

(* A set of positive numbers has a least one, which Min finds.               *)
LEMMA LeastOf ==
  ASSUME NEW I, I \subseteq Nat, I # {}
  PROVE  Min(I) \in I /\ \A i \in I : Min(I) <= i
<1>1. PICK m \in I : \A i \in I : <<i, m>> \notin OpToRel(<, Nat)
  BY NatLessThanWellFounded, WFMin
<1>2. ASSUME NEW i \in I PROVE ~ (i < m)
  <2>1. <<i, m>> \in Nat \X Nat /\ <<i, m>>[1] = i /\ <<i, m>>[2] = m
    OBVIOUS
  <2>2. ~ (<<i, m>>[1] < <<i, m>>[2])
    BY <1>1, <2>1, Zenon DEF OpToRel
  <2> QED BY <2>1, <2>2
<1>3. \A i \in I : m <= i
  BY <1>2
<1> QED BY <1>3 DEF Min

(* Keys of N integers, by which the members of S can be told apart.          *)
Keyed(S, key, N) ==
  /\ IsFiniteSet(S) /\ N \in Nat
  /\ \A x \in S : DOMAIN key[x] = 1 .. N /\ \A n \in 1 .. N : key[x][n] \in Int
  /\ \A x, y \in S : (\A n \in 1 .. N : key[x][n] = key[y][n]) => x = y

(* Keys are totally ordered.                                                 *)
LEMMA SoonerIsTotal ==
  ASSUME NEW S, NEW key, NEW N, Keyed(S, key, N)
  PROVE  /\ \A x \in S : ~ Sooner(key[x], key[x])
         /\ \A x, y \in S : x # y => Sooner(key[x], key[y]) \/ Sooner(key[y], key[x])
         /\ \A x, y, z \in S :
              Sooner(key[x], key[y]) /\ Sooner(key[y], key[z]) => Sooner(key[x], key[z])
<1>1. ASSUME NEW x \in S PROVE ~ Sooner(key[x], key[x])
  BY DEF Keyed, Sooner
<1>2. ASSUME NEW x \in S, NEW y \in S, x # y
      PROVE  Sooner(key[x], key[y]) \/ Sooner(key[y], key[x])
  <2> DEFINE I == {n \in 1 .. N : key[x][n] # key[y][n]}
  <2>1. I # {} /\ I \subseteq Nat
    BY <1>2 DEF Keyed
  <2> HIDE DEF I
  <2>2. Min(I) \in I /\ \A n \in I : Min(I) <= n
    BY <2>1, LeastOf
  <2> USE DEF I
  <2>3. Min(I) \in 1 .. N /\ key[x][Min(I)] # key[y][Min(I)]
    BY <2>2
  <2>4. \A m \in 1 .. Min(I) - 1 : key[x][m] = key[y][m]
    BY <2>2, <2>3 DEF Keyed
  <2> HIDE DEF I
  <2>5. key[x][Min(I)] \in Int /\ key[y][Min(I)] \in Int
    BY <2>3 DEF Keyed
  <2>6. DOMAIN key[x] = 1 .. N /\ DOMAIN key[y] = 1 .. N
    BY DEF Keyed
  <2>7. CASE key[x][Min(I)] < key[y][Min(I)]
    BY <2>3, <2>4, <2>6, <2>7 DEF Sooner
  <2>8. CASE key[y][Min(I)] < key[x][Min(I)]
    BY <2>3, <2>4, <2>6, <2>8 DEF Sooner
  <2> QED BY <2>3, <2>5, <2>7, <2>8
<1>3. ASSUME NEW x \in S, NEW y \in S, NEW z \in S,
             Sooner(key[x], key[y]), Sooner(key[y], key[z])
      PROVE  Sooner(key[x], key[z])
  <2>1. PICK m \in 1 .. N : key[x][m] < key[y][m] /\ \A i \in 1 .. m - 1 : key[x][i] = key[y][i]
    BY <1>3 DEF Keyed, Sooner
  <2>2. PICK n \in 1 .. N : key[y][n] < key[z][n] /\ \A i \in 1 .. n - 1 : key[y][i] = key[z][i]
    BY <1>3 DEF Keyed, Sooner
  <2> DEFINE l == IF m <= n THEN m ELSE n
  <2>3. l \in 1 .. N /\ DOMAIN key[x] = 1 .. N
    BY DEF Keyed
  <2>4. \A i \in 1 .. N : key[x][i] \in Int /\ key[y][i] \in Int /\ key[z][i] \in Int
    BY DEF Keyed
  <2>5. key[x][l] < key[z][l]
    <3>1. CASE m < n
      BY <3>1, <2>1, <2>2, <2>4
    <3>2. CASE m = n
      BY <3>2, <2>1, <2>2, <2>4
    <3>3. CASE n < m
      BY <3>3, <2>1, <2>2, <2>4
    <3> QED BY <3>1, <3>2, <3>3, <2>1, <2>2 DEF Keyed
  <2>6. \A i \in 1 .. l - 1 : key[x][i] = key[z][i]
    BY <2>1, <2>2 DEF Keyed
  <2> HIDE DEF l
  <2> QED BY <2>3, <2>5, <2>6 DEF Sooner
<1> QED BY <1>1, <1>2, <1>3

(* The place of x in S: how many members come sooner.                        *)
Place(S, key, x) == Cardinality({y \in S : Sooner(key[y], key[x])})

(* Every place is taken by exactly one member.                               *)
LEMMA PlaceIsOneToOne ==
  ASSUME NEW S, NEW key, NEW N, Keyed(S, key, N)
  PROVE  /\ \A x \in S : Place(S, key, x) \in 0 .. Cardinality(S) - 1
         /\ \A x, y \in S : Place(S, key, x) = Place(S, key, y) => x = y
         /\ \A i \in 0 .. Cardinality(S) - 1 : \E x \in S : Place(S, key, x) = i
<1> DEFINE Less(x) == {y \in S : Sooner(key[y], key[x])}
<1>1. Cardinality(S) \in Nat /\ IsFiniteSet(S)
  BY FS_CardinalityType DEF Keyed
<1>2. \A x \in S : IsFiniteSet(Less(x)) /\ Cardinality(Less(x)) \in Nat
  BY <1>1, FS_Subset, FS_CardinalityType
<1>3. \A x \in S : Cardinality(Less(x)) < Cardinality(S)
  <2> TAKE x \in S
  <2>1. x \notin Less(x) /\ Less(x) \in SUBSET S
    BY SoonerIsTotal
  <2> QED BY <2>1, <1>1, <1>2, FS_Subset
<1>4. ASSUME NEW x \in S, NEW y \in S, Sooner(key[x], key[y])
      PROVE  Cardinality(Less(x)) < Cardinality(Less(y))
  <2>1. Less(x) \in SUBSET Less(y)
    BY <1>4, SoonerIsTotal
  <2>2. x \in Less(y) /\ x \notin Less(x)
    BY <1>4, SoonerIsTotal
  <2> HIDE DEF Less
  <2>3. Cardinality(Less(x)) <= Cardinality(Less(y))
        /\ (Cardinality(Less(y)) = Cardinality(Less(x)) => Less(x) = Less(y))
    BY <2>1, <1>2, FS_Subset
  <2> QED BY <2>2, <2>3, <1>2
<1>5. ASSUME NEW x \in S, NEW y \in S, Cardinality(Less(x)) = Cardinality(Less(y)) PROVE x = y
  <2>1. ~ Sooner(key[x], key[y]) /\ ~ Sooner(key[y], key[x])
    BY <1>5, <1>4, <1>2
  <2> QED BY <2>1, SoonerIsTotal
<1> HIDE DEF Less
<1> DEFINE place == [x \in S |-> Cardinality(Less(x))]
           T == 0 .. Cardinality(S) - 1
<1>6. IsFiniteSet(T) /\ Cardinality(T) = Cardinality(S)
  BY <1>1, FS_Interval
<1>7. place \in Injection(S, T)
  <2>1. \A x \in S : Cardinality(Less(x)) \in T
    BY <1>1, <1>2, <1>3
  <2>3. place \in [S -> T]
    BY <2>1
  <2>2. \A x, y \in S : place[x] = place[y] => x = y
    BY <1>5
  <2> QED BY <2>3, <2>2 DEF Injection, IsInjective
<1> HIDE DEF place, T
<1>8. place \in Surjection(S, T)
  BY <1>6, <1>7, FS_Injection
<1>9. \A i \in T : \E x \in S : place[x] = i
  BY <1>8 DEF Surjection
<1> USE DEF T
<1>10. \A i \in T : \E x \in S : Cardinality(Less(x)) = i
  BY <1>9 DEF place
<1>11. \A x \in S : Cardinality(Less(x)) \in T
  BY <1>1, <1>2, <1>3
<1> QED BY <1>5, <1>10, <1>11 DEF Place, Less

(* Sorting keeps every member, once.                                         *)
LEMMA SortedProperties ==
  ASSUME NEW S, NEW key, NEW N, Keyed(S, key, N)
  PROVE  /\ Sorted(S, key) \in Seq(S) /\ Len(Sorted(S, key)) = Cardinality(S)
         /\ \A x \in S : \E i \in DOMAIN Sorted(S, key) : Sorted(S, key)[i] = x
<1> DEFINE placed == {<<Place(S, key, x), x>> : x \in S}
           At1(i) == (CHOOSE p \in placed : p[1] = i - 1)[2]
           n == Cardinality(S)
<1>1. n \in Nat
  BY FS_CardinalityType DEF Keyed
<1>2. Sorted(S, key) = [i \in 1 .. n |-> At1(i)]
  BY DEF Sorted, Place
<1>3. ASSUME NEW i \in 1 .. n PROVE At1(i) \in S /\ Place(S, key, At1(i)) = i - 1
  <2>1. i - 1 \in 0 .. n - 1
    BY <1>1
  <2> HIDE DEF n
  <2>2. \E x \in S : Place(S, key, x) = i - 1
    BY <2>1, PlaceIsOneToOne DEF n
  <2>7. PICK x \in S : Place(S, key, x) = i - 1
    BY <2>2
  <2>8. <<Place(S, key, x), x>> \in placed /\ <<Place(S, key, x), x>>[1] = i - 1
    BY <2>7
  <2>3. \E p \in placed : p[1] = i - 1
    BY <2>8
  <2> DEFINE c == CHOOSE p \in placed : p[1] = i - 1
  <2> HIDE DEF placed
  <2>4. c \in placed /\ c[1] = i - 1
    BY <2>3
  <2> HIDE DEF c
  <2> USE DEF placed
  <2>5. PICK y \in S : c = <<Place(S, key, y), y>>
    BY <2>4
  <2>6. c[2] \in S /\ Place(S, key, c[2]) = i - 1
    BY <2>4, <2>5
  <2> QED BY <2>6 DEF c
<1> HIDE DEF At1, placed
<1>4. Sorted(S, key) \in [1 .. n -> S]
  BY <1>2, <1>3
<1>5. Sorted(S, key) \in Seq(S) /\ Len(Sorted(S, key)) = n
  <2>1. Sorted(S, key) \in Seq(S)
    BY <1>1, <1>4, SeqDef
  <2>2. DOMAIN Sorted(S, key) = 1 .. Len(Sorted(S, key)) /\ Len(Sorted(S, key)) \in Nat
    BY <2>1, LenProperties
  <2> QED BY <2>1, <2>2, <1>4, <1>1
<1>6. ASSUME NEW x \in S PROVE \E i \in 1 .. n : At1(i) = x
  <2>1. Place(S, key, x) \in 0 .. n - 1
    BY PlaceIsOneToOne
  <2>2. Place(S, key, x) + 1 \in 1 .. n
    BY <2>1, <1>1
  <2>3. Place(S, key, At1(Place(S, key, x) + 1)) = Place(S, key, x)
        /\ At1(Place(S, key, x) + 1) \in S
    BY <2>2, <2>1, <1>3
  <2> QED BY <2>2, <2>3, PlaceIsOneToOne
<1> QED BY <1>2, <1>5, <1>6

(* The rows at the indices in I, sorted: each of them, and nothing else.      *)
LEMMA RowsProperties ==
  ASSUME NEW list, NEW I, NEW key, NEW N, Keyed(I, key, N), NEW T, \A i \in I : list[i] \in T
  PROVE  /\ Rows(list, I, key) \in Seq(T) /\ Len(Rows(list, I, key)) = Cardinality(I)
         /\ \A k \in DOMAIN Rows(list, I, key) : \E i \in I : Rows(list, I, key)[k] = list[i]
         /\ \A i \in I : \E k \in DOMAIN Rows(list, I, key) : Rows(list, I, key)[k] = list[i]
<1> DEFINE order == Sorted(I, key)
           n == Cardinality(I)
<1>1. /\ order \in Seq(I) /\ Len(order) = n
      /\ \A i \in I : \E k \in DOMAIN order : order[k] = i
  BY SortedProperties
<1> HIDE DEF order, n
<1>2. n \in Nat /\ DOMAIN order = 1 .. n /\ \A k \in 1 .. n : order[k] \in I
  BY <1>1, LenProperties
<1>3. Rows(list, I, key) = [k \in 1 .. n |-> list[order[k]]]
  BY <1>2 DEF Rows, order
<1>4. Rows(list, I, key) \in Seq(T) /\ Len(Rows(list, I, key)) = n
  <2>1. Rows(list, I, key) \in [1 .. n -> T]
    BY <1>2, <1>3
  <2>2. Rows(list, I, key) \in Seq(T)
    BY <1>2, <2>1, SeqDef
  <2> QED BY <2>1, <2>2, <1>2, LenProperties
<1>5. DOMAIN Rows(list, I, key) = 1 .. n /\ \A k \in 1 .. n : Rows(list, I, key)[k] = list[order[k]]
  BY ONLY <1>3
<1>6. \A k \in DOMAIN Rows(list, I, key) : \E i \in I : Rows(list, I, key)[k] = list[i]
  BY ONLY <1>2, <1>5
<1>7. \A i \in I : \E k \in DOMAIN Rows(list, I, key) : Rows(list, I, key)[k] = list[i]
  BY ONLY <1>1, <1>2, <1>5
<1> QED BY <1>4, <1>6, <1>7 DEF n

(* The state of the program has these fields.                                *)
AppFields ==
  {"main_tab", "panel", "mode", "files", "file_index", "expanded", "tree", "tree_index",
   "revisions", "revision_index", "timeline", "timeline_index", "timeline_changes_only",
   "marked_revision", "compare_current", "diff", "diff_context", "selected_item", "inspect",
   "input", "search_results", "search_index", "restore_rendered", "filters", "filter_field",
   "back_mode", "filter_origin", "quit"}
IsApp(a) == DOMAIN a = AppFields

-----------------------------------------------------------------------------
(* The lists.                                                                *)

(* Rows of the tree, of any files and directories.                           *)
Nodes == [directory : BOOLEAN, path : Paths \union ToSet(DirOrder)]

(* i is a row of the list, or 0 if it has none.                              *)
Inside(list, i) == IF list = <<>> THEN i = 0 ELSE Has(list, i)

(* What a sequence enumerates is finite.                                     *)
LEMMA FiniteRange ==
  ASSUME NEW n \in Nat, NEW f, DOMAIN f = 1 .. n
  PROVE  IsFiniteSet({f[i] : i \in 1 .. n})
<1> DEFINE T == {f[i] : i \in 1 .. n}
           g == [i \in 1 .. n |-> f[i]]
<1>1. g \in Surjection(1 .. n, T)
  BY DEF Surjection
<1>2. IsFiniteSet(1 .. n)
  BY FS_Interval
<1> HIDE DEF g, T
<1>3. IsFiniteSet(T)
  BY <1>1, <1>2, FS_Surjection
<1> QED BY <1>3 DEF T

(* At finds a member of a list.                                              *)
LEMMA AtProperties ==
  ASSUME NEW list, NEW T, list \in Seq(T), NEW x \in ToSet(list)
  PROVE  At(list, x) \in 1 .. Len(list) /\ list[At(list, x)] = x /\ At(list, x) \in Nat \ {0}
<1>1. \E i \in DOMAIN list : list[i] = x
  BY DEF ToSet
<1>2. At(list, x) \in DOMAIN list /\ list[At(list, x)] = x
  BY <1>1 DEF At
<1> QED BY <1>2, LenProperties

(* The order of files and directories.                                       *)
LEMMA PathsInOrder ==
  /\ \A p \in Paths : At(PathOrder, p) \in Nat \ {0} /\ PathOrder[At(PathOrder, p)] = p
  /\ \A d \in ToSet(DirOrder) : At(DirOrder, d) \in Nat \ {0} /\ DirOrder[At(DirOrder, d)] = d
  /\ IsFiniteSet(Paths) /\ IsFiniteSet(ToSet(DirOrder))
<1>1. \A p \in Paths : At(PathOrder, p) \in Nat \ {0} /\ PathOrder[At(PathOrder, p)] = p
  BY AtProperties, TuiAssumption DEF Paths
<1>2. \A d \in ToSet(DirOrder) : At(DirOrder, d) \in Nat \ {0} /\ DirOrder[At(DirOrder, d)] = d
  BY AtProperties, TuiAssumption
<1>3. /\ Len(PathOrder) \in Nat /\ DOMAIN PathOrder = 1 .. Len(PathOrder)
      /\ Len(DirOrder) \in Nat /\ DOMAIN DirOrder = 1 .. Len(DirOrder)
  BY LenProperties, TuiAssumption
<1>4. IsFiniteSet(Paths) /\ IsFiniteSet(ToSet(DirOrder))
  BY <1>3, FiniteRange DEF Paths, ToSet
<1> QED BY <1>1, <1>2, <1>4

(* A row that is searched for is found where it is, if anywhere.             *)
LEMMA FirstInside ==
  ASSUME NEW T, NEW list \in Seq(T), NEW I, I \subseteq DOMAIN list
  PROVE  First(I) \in Nat /\ Inside(list, First(I)) /\ (I # {} => First(I) + 1 \in I)
<1>1. Len(list) \in Nat /\ DOMAIN list = 1 .. Len(list) /\ (list # <<>> => Len(list) # 0)
  BY LenProperties, EmptySeq
<1>2. CASE I = {}
  BY <1>1, <1>2 DEF First, Inside, Has
<1>3. CASE I # {}
  <2>1. I \subseteq Nat
    BY <1>1
  <2>2. Min(I) \in I
    BY <2>1, <1>3, LeastOf
  <2>3. Min(I) \in 1 .. Len(list)
    BY <2>2, <1>1
  <2>4. First(I) = Min(I) - 1
    BY <1>3 DEF First
  <2>5. list # <<>>
    BY <2>3, <1>1, EmptySeq
  <2> QED BY <2>2, <2>3, <2>4, <2>5, <1>1 DEF Inside, Has
<1> QED BY <1>2, <1>3

(* Keys that move a row, and a list that got shorter, leave it in the list.  *)
LEMMA MovedInside ==
  ASSUME NEW T, NEW list \in Seq(T), NEW i \in Nat
  PROVE  /\ Clamped(i, Len(list)) \in Nat /\ Inside(list, Clamped(i, Len(list)))
         /\ Inside(list, 0) /\ (Inside(list, i) => Within(list, i))
         /\ \A down \in BOOLEAN :
              /\ Moved(i, Len(list), down) \in Nat
              /\ Inside(list, i) => Inside(list, Moved(i, Len(list), down))
              /\ Within(list, i) => Within(list, Moved(i, Len(list), down))
<1>1. Len(list) \in Nat /\ (list # <<>> <=> Len(list) # 0)
  BY LenProperties, EmptySeq
<1> QED BY <1>1 DEF Clamped, Moved, next, Before, Least, Inside, Within, Has

(* Files that have revisions, each once, and no others.                      *)
LEMMA FilesListed ==
  ASSUME NEW s \in Seq(Revisions)
  PROVE  /\ FilesOf(s) \in Seq(Paths) /\ (s = <<>> => FilesOf(s) = <<>>)
         /\ \A i \in DOMAIN s : \E k \in DOMAIN FilesOf(s) : FilesOf(s)[k] = s[i].path
<1> DEFINE paths == {s[i].path : i \in DOMAIN s}
           key == [p \in paths |-> <<At(PathOrder, p)>>]
<1>1. \A i \in DOMAIN s : s[i] \in Revisions
  BY LenProperties
<1>2. paths \subseteq Paths
  BY <1>1 DEF Revisions
<1>3. IsFiniteSet(paths)
  BY <1>2, PathsInOrder, FS_Subset
<1> HIDE DEF paths
<1>4. \A p \in paths : key[p] = <<At(PathOrder, p)>>
  OBVIOUS
<1>5. Keyed(paths, key, 1)
  <2>1. \A p \in paths : DOMAIN key[p] = 1 .. 1 /\ key[p][1] = At(PathOrder, p)
    BY <1>4
  <2> HIDE DEF key
  <2>2. \A p \in paths : \A n \in 1 .. 1 : key[p][n] \in Int
    BY <2>1, <1>2, PathsInOrder
  <2>3. \A p, q \in paths : (\A n \in 1 .. 1 : key[p][n] = key[q][n]) => p = q
    BY <2>1, <1>2, PathsInOrder
  <2> QED BY <2>1, <2>2, <2>3, <1>3 DEF Keyed
<1>6. FilesOf(s) = Sorted(paths, key)
  BY DEF FilesOf, paths
<1> HIDE DEF key
<1>7. /\ FilesOf(s) \in Seq(paths) /\ Len(FilesOf(s)) = Cardinality(paths)
      /\ \A p \in paths : \E k \in DOMAIN FilesOf(s) : FilesOf(s)[k] = p
  BY <1>5, <1>6, SortedProperties
<1>8. FilesOf(s) \in Seq(Paths)
  BY <1>2, <1>7, SeqMonotonic
<1>9. s = <<>> => FilesOf(s) = <<>>
  <2> HAVE s = <<>>
  <2>1. paths = {}
    BY LenProperties, EmptySeq DEF paths
  <2> QED BY <2>1, <1>7, FS_EmptySet, EmptySeq
<1> QED BY <1>7, <1>8, <1>9 DEF paths

(* Indices of a list, sorted by some numbers and, last, by themselves.       *)
LEMMA IndexKeys ==
  ASSUME NEW I, IsFiniteSet(I), NEW N \in Nat \ {0}, NEW key,
         \A i \in I : DOMAIN key[i] = 1 .. N /\ key[i][N] = i,
         \A i \in I : \A n \in 1 .. N : key[i][n] \in Int
  PROVE  Keyed(I, key, N)
<1>1. \A i, j \in I : (\A n \in 1 .. N : key[i][n] = key[j][n]) => i = j
  BY N \in 1 .. N
<1> QED BY <1>1 DEF Keyed

(* The bounds are numbers.                                                   *)
LEMMA Bounds == /\ MaxRevisions \in Nat /\ MaxInput \in Nat
                /\ MaxKeys \in Nat /\ MaxPublished \in Nat
BY TuiAssumption

(* What a list of revisions holds.                                           *)
LEMMA RevisionNumbers ==
  ASSUME NEW s \in Seq(Revisions)
  PROVE  /\ \A i \in DOMAIN s :
              /\ s[i] \in Revisions /\ s[i].path \in Paths /\ i \in Nat
              /\ -s[i].number \in Int /\ -s[i].epoch \in Int
              /\ At(PathOrder, s[i].path) \in Int
         /\ \A I \in SUBSET DOMAIN s : IsFiniteSet(I)
<1>1. ASSUME NEW i \in DOMAIN s
      PROVE  /\ s[i] \in Revisions /\ s[i].path \in Paths /\ i \in Nat
             /\ -s[i].number \in Int /\ -s[i].epoch \in Int
             /\ At(PathOrder, s[i].path) \in Int
  <2>1. s[i] \in Revisions /\ i \in Nat
    BY LenProperties
  <2>2. s[i].path \in Paths /\ s[i].number \in 1 .. MaxRevisions /\ s[i].epoch \in Epochs
    BY <2>1 DEF Revisions
  <2>3. At(PathOrder, s[i].path) \in Int
    BY <2>2, PathsInOrder
  <2>4. s[i].number \in Int
    BY <2>2, Bounds
  <2>5. s[i].epoch \in Int
    BY <2>2, TuiAssumption
  <2> QED BY <2>1, <2>2, <2>3, <2>4, <2>5
<1>2. DOMAIN s = 1 .. Len(s) /\ Len(s) \in Nat
  BY LenProperties
<1>3. IsFiniteSet(DOMAIN s)
  BY <1>2, FS_Interval
<1>4. \A I \in SUBSET DOMAIN s : IsFiniteSet(I)
  BY <1>3, FS_Subset
<1> QED BY <1>1, <1>4

(* The timeline is of revisions.                                             *)
LEMMA TimelineRead == ASSUME NEW s \in Seq(Revisions) PROVE TimelineOf(s) \in Seq(Revisions)
<1> DEFINE key == [i \in DOMAIN s |->
                     <<-s[i].epoch, -s[i].number, At(PathOrder, s[i].path), i>>]
<1>1. \A i \in DOMAIN s :
        /\ DOMAIN key[i] = 1 .. 4 /\ key[i][1] = -s[i].epoch /\ key[i][2] = -s[i].number
        /\ key[i][3] = At(PathOrder, s[i].path) /\ key[i][4] = i
  OBVIOUS
<1>2. TimelineOf(s) = Rows(s, DOMAIN s, key)
  BY DEF TimelineOf
<1> HIDE DEF key
<1>3. \A i \in DOMAIN s : \A n \in 1 .. 4 : key[i][n] \in Int
  BY <1>1, RevisionNumbers
<1>4. Keyed(DOMAIN s, key, 4)
  <2>1. IsFiniteSet(DOMAIN s)
    BY RevisionNumbers
  <2>2. \A i \in DOMAIN s : DOMAIN key[i] = 1 .. 4 /\ key[i][4] = i
    BY <1>1
  <2>3. 4 \in Nat \ {0}
    OBVIOUS
  <2> QED BY <2>1, <2>2, <2>3, <1>3, IndexKeys
<1>5. \A i \in DOMAIN s : s[i] \in Revisions
  BY RevisionNumbers
<1> QED BY <1>2, <1>4, <1>5, RowsProperties

(* The history of a path has the revisions of that path, and all of them.    *)
LEMMA HistoryRead ==
  ASSUME NEW s \in Seq(Revisions), NEW path
  PROVE  /\ HistoryOf(s, path) \in Seq(Revisions)
         /\ \A k \in DOMAIN HistoryOf(s, path) :
              \E i \in DOMAIN s : s[i].path = path /\ HistoryOf(s, path)[k] = s[i]
         /\ \A i \in DOMAIN s : s[i].path = path =>
              \E k \in DOMAIN HistoryOf(s, path) : HistoryOf(s, path)[k] = s[i]
<1> DEFINE I == IndicesOf(s, path)
           key == [i \in I |-> <<-s[i].number, i>>]
<1>1. \A i \in I : DOMAIN key[i] = 1 .. 2 /\ key[i][1] = -s[i].number /\ key[i][2] = i
  OBVIOUS
<1>2. HistoryOf(s, path) = Rows(s, I, key)
  BY DEF HistoryOf
<1> HIDE DEF key
<1>3. I \subseteq DOMAIN s
  BY DEF IndicesOf
<1>4. \A i \in I : \A n \in 1 .. 2 : key[i][n] \in Int
  BY <1>1, <1>3, RevisionNumbers
<1>5. Keyed(I, key, 2)
  <2>1. IsFiniteSet(I)
    BY <1>3, RevisionNumbers
  <2>2. \A i \in I : DOMAIN key[i] = 1 .. 2 /\ key[i][2] = i
    BY <1>1
  <2>3. 2 \in Nat \ {0}
    OBVIOUS
  <2> QED BY <2>1, <2>2, <2>3, <1>3, <1>4, IndexKeys
<1>6. \A i \in I : s[i] \in Revisions
  BY <1>3, RevisionNumbers
<1>7. /\ HistoryOf(s, path) \in Seq(Revisions)
      /\ \A k \in DOMAIN HistoryOf(s, path) : \E i \in I : HistoryOf(s, path)[k] = s[i]
      /\ \A i \in I : \E k \in DOMAIN HistoryOf(s, path) : HistoryOf(s, path)[k] = s[i]
  BY <1>2, <1>5, <1>6, RowsProperties
<1> QED BY <1>7 DEF IndicesOf

(* What the timeline shows is of revisions.                                  *)
LEMMA VisibleRows ==
  ASSUME NEW a, a.timeline \in Seq(Revisions)
  PROVE  Visible(a) \in Seq(Revisions)
<1> DEFINE s == a.timeline
           I == {i \in DOMAIN a.timeline : a.timeline[i].kind # "Access"}
           key == [i \in I |-> <<i>>]
<1>1. \A i \in I : DOMAIN key[i] = 1 .. 1 /\ key[i][1] = i
  OBVIOUS
<1>2. Visible(a) = IF a.timeline_changes_only THEN Rows(s, I, key) ELSE s
  BY DEF Visible
<1> HIDE DEF key
<1>3. I \subseteq DOMAIN s
  OBVIOUS
<1> HIDE DEF I
<1>4. \A i \in I : \A n \in 1 .. 1 : key[i][n] \in Int
  BY <1>1, <1>3, RevisionNumbers
<1>5. Keyed(I, key, 1)
  <2>1. IsFiniteSet(I)
    BY <1>3, RevisionNumbers
  <2>2. \A i \in I : DOMAIN key[i] = 1 .. 1 /\ key[i][1] = i
    BY <1>1
  <2>3. 1 \in Nat \ {0}
    OBVIOUS
  <2> QED BY <2>1, <2>2, <2>3, <1>3, <1>4, IndexKeys
<1>6. \A i \in I : s[i] \in Revisions
  BY <1>3, RevisionNumbers
<1>7. Rows(s, I, key) \in Seq(Revisions)
  BY <1>5, <1>6, RowsProperties
<1> QED BY <1>2, <1>7

(* So are the results of a search, all of them or those found before it fails. *)
LEMMA HitRows ==
  ASSUME NEW s \in Seq(Revisions), NEW I \in SUBSET DOMAIN s
  PROVE  Rows(s, I, [i \in I |-> <<At(PathOrder, s[i].path), -s[i].epoch, -s[i].number, i>>])
           \in Seq(Revisions)
<1> DEFINE key == [i \in I |-> <<At(PathOrder, s[i].path), -s[i].epoch, -s[i].number, i>>]
<1>1. \A i \in I :
        /\ DOMAIN key[i] = 1 .. 4 /\ key[i][1] = At(PathOrder, s[i].path)
        /\ key[i][2] = -s[i].epoch /\ key[i][3] = -s[i].number /\ key[i][4] = i
  OBVIOUS
<1> HIDE DEF key
<1>2. \A i \in I : \A n \in 1 .. 4 : key[i][n] \in Int
  BY <1>1, RevisionNumbers
<1>3. Keyed(I, key, 4)
  <2>1. IsFiniteSet(I)
    BY RevisionNumbers
  <2>2. \A i \in I : DOMAIN key[i] = 1 .. 4 /\ key[i][4] = i
    BY <1>1
  <2>3. 4 \in Nat \ {0}
    OBVIOUS
  <2> QED BY <2>1, <2>2, <2>3, <1>2, IndexKeys
<1>4. \A i \in I : s[i] \in Revisions
  BY RevisionNumbers
<1>5. Rows(s, I, key) \in Seq(Revisions)
  BY <1>3, <1>4, RowsProperties
<1> QED BY <1>5 DEF key

LEMMA HitsBefore ==
  ASSUME NEW s \in Seq(Revisions), NEW I \in SUBSET DOMAIN s
  PROVE  Rows(s, I, [i \in DOMAIN s |-> <<At(PathOrder, s[i].path), s[i].number, i>>])
           \in Seq(Revisions)
<1> DEFINE key == [i \in DOMAIN s |-> <<At(PathOrder, s[i].path), s[i].number, i>>]
<1>1. \A i \in I :
        /\ DOMAIN key[i] = 1 .. 3 /\ key[i][1] = At(PathOrder, s[i].path)
        /\ key[i][2] = s[i].number /\ key[i][3] = i
  OBVIOUS
<1> HIDE DEF key
<1>2. \A i \in I : s[i].number \in Int
  <2> TAKE i \in I
  <2>1. s[i] \in Revisions
    BY RevisionNumbers
  <2> QED BY <2>1, Bounds DEF Revisions
<1>3. \A i \in I : \A n \in 1 .. 3 : key[i][n] \in Int
  BY <1>1, <1>2, RevisionNumbers
<1>4. Keyed(I, key, 3)
  <2>1. IsFiniteSet(I)
    BY RevisionNumbers
  <2>2. \A i \in I : DOMAIN key[i] = 1 .. 3 /\ key[i][3] = i
    BY <1>1
  <2>3. 3 \in Nat \ {0}
    OBVIOUS
  <2> QED BY <2>1, <2>2, <2>3, <1>3, IndexKeys
<1>5. \A i \in I : s[i] \in Revisions
  BY RevisionNumbers
<1>6. Rows(s, I, key) \in Seq(Revisions)
  BY <1>4, <1>5, RowsProperties
<1> QED BY <1>6 DEF key

(* Directories and files have a place each.                                  *)
LEMMA TreeRead ==
  ASSUME NEW files, files \subseteq Paths, NEW expanded
  PROVE  LET nodes == NodesOf(files, expanded)
             tree == Sorted(nodes, [n \in nodes |-> PlaceOf(n)])
         IN  tree \in Seq(Nodes) /\ (files = {} => tree = <<>>)
<1> DEFINE nodes == NodesOf(files, expanded)
           key == [n \in nodes |-> PlaceOf(n)]
           D == {Directory(d) : d \in ToSet(DirOrder)}
           F == {File(p) : p \in Paths}
<1>1. nodes \subseteq D \union F
  BY TuiAssumption DEF NodesOf, Paths
<1>2. IsFiniteSet(D)
  <2> DEFINE g == [d \in ToSet(DirOrder) |-> Directory(d)]
  <2>1. g \in Surjection(ToSet(DirOrder), D)
    BY DEF Surjection
  <2> HIDE DEF g, D
  <2> QED BY <2>1, PathsInOrder, FS_Surjection
<1>3. IsFiniteSet(F)
  <2> DEFINE g == [p \in Paths |-> File(p)]
  <2>1. g \in Surjection(Paths, F)
    BY DEF Surjection
  <2> HIDE DEF g, F
  <2> QED BY <2>1, PathsInOrder, FS_Surjection
<1>4. IsFiniteSet(nodes)
  <2> HIDE DEF nodes, D, F
  <2> QED BY <1>1, <1>2, <1>3, FS_Union, FS_Subset
<1>5. \A n \in nodes :
        \/ \E d \in ToSet(DirOrder) :
             /\ n = Directory(d) /\ DOMAIN key[n] = 1 .. 2
             /\ key[n][1] = At(DirOrder, d) /\ key[n][2] = 0
        \/ \E p \in Paths :
             /\ n = File(p) /\ DOMAIN key[n] = 1 .. 2
             /\ key[n][1] = At(DirOrder, DirOf[p]) /\ key[n][2] = At(PathOrder, p)
  <2> HIDE DEF nodes
  <2> TAKE n \in nodes
  <2>1. CASE n \in D
    <3>1. PICK d \in ToSet(DirOrder) : n = Directory(d)
      BY <2>1
    <3>2. key[n] = <<At(DirOrder, d), 0>>
      BY <3>1 DEF PlaceOf, Directory
    <3> QED BY <3>1, <3>2
  <2>2. CASE n \in F
    <3>1. PICK p \in Paths : n = File(p)
      BY <2>2
    <3>2. key[n] = <<At(DirOrder, DirOf[p]), At(PathOrder, p)>>
      BY <3>1 DEF PlaceOf, File
    <3> QED BY <3>1, <3>2
  <2> QED BY <1>1, <2>1, <2>2
<1> HIDE DEF key, nodes
<1>6. \A p \in Paths : DirOf[p] \in ToSet(DirOrder)
  BY TuiAssumption DEF Paths
<1>7. Keyed(nodes, key, 2)
  <2>1. \A n \in nodes : DOMAIN key[n] = 1 .. 2
    BY <1>5
  <2>2. \A n \in nodes : key[n][1] \in Int /\ key[n][2] \in Int
    BY <1>5, <1>6, PathsInOrder
  <2>3. ASSUME NEW m \in nodes, NEW n \in nodes, key[m][1] = key[n][1], key[m][2] = key[n][2]
        PROVE  m = n
    BY <1>5, <2>3, PathsInOrder
  <2>4. \A n \in nodes : \A i \in 1 .. 2 : key[n][i] \in Int
    BY <2>2
  <2>5. \A m, n \in nodes : (\A i \in 1 .. 2 : key[m][i] = key[n][i]) => m = n
    BY <2>3
  <2> QED BY <2>1, <2>4, <2>5, <1>4 DEF Keyed
<1>8. Sorted(nodes, key) \in Seq(nodes) /\ Len(Sorted(nodes, key)) = Cardinality(nodes)
  BY <1>7, SortedProperties
<1>9. nodes \subseteq Nodes
  <2>1. \A d \in ToSet(DirOrder) : Directory(d) \in Nodes
    BY DEF Directory, Nodes
  <2>2. \A p \in Paths : File(p) \in Nodes
    BY DEF File, Nodes
  <2> QED BY <1>5, <2>1, <2>2
<1>10. Sorted(nodes, key) \in Seq(Nodes)
  BY <1>8, <1>9, SeqMonotonic
<1>11. files = {} => Sorted(nodes, key) = <<>>
  <2> HAVE files = {}
  <2>1. nodes = {}
    BY DEF nodes, NodesOf
  <2> QED BY <2>1, <1>8, FS_EmptySet, EmptySeq
<1> QED BY <1>10, <1>11 DEF nodes, key


-----------------------------------------------------------------------------
(* What holds of the state a of the program after every handler, of those too *)
(* that failed.                                                              *)

(* What the repository holds.                                                *)
RepoTyped(s) == s \in Seq(Revisions) /\ Len(s) <= MaxRevisions

(* The types of tabs, modes and what is typed,                               *)
ControlTyped(a) ==
  /\ a.main_tab \in Tabs /\ a.panel \in Panels
  /\ a.mode \in Modes /\ a.back_mode \in Modes /\ a.filter_origin \in Modes
  /\ a.input \in Inputs /\ a.filters \in [ToSet(FieldOrder) -> Inputs]

(* of what the diff is about,                                                *)
Targets == Ids \union {NoTarget}
ItemsTyped(a) ==
  /\ a.diff_context \in Targets /\ a.selected_item \in Targets /\ a.inspect \in Targets
  /\ a.marked_revision \in 1 .. MaxRevisions \union {None}

(* and of the lists and their selected rows.                                 *)
ListsTyped(a) ==
  /\ a.files \in Seq(Paths) /\ a.tree \in Seq(Nodes)
  /\ a.revisions \in Seq(Revisions) /\ a.timeline \in Seq(Revisions)
  /\ a.search_results \in Seq(Revisions)
  /\ a.file_index \in Nat /\ a.tree_index \in Nat /\ a.revision_index \in Nat
  /\ a.timeline_index \in Nat /\ a.search_index \in Nat

(* Selections are in their lists, 0 in one that is empty; that of a tree that *)
(* has become empty stays where it was.                                      *)
AllInside(a) ==
  /\ Inside(a.files, a.file_index) /\ Inside(a.revisions, a.revision_index)
  /\ Inside(Visible(a), a.timeline_index) /\ Within(a.tree, a.tree_index)

(* The history is of one file, not always the selected one.                   *)
OneFile(a) ==
  /\ a.revisions # <<>> => a.files # <<>>
  /\ \A k, l \in DOMAIN a.revisions : a.revisions[k].path = a.revisions[l].path
HistoryOfFile(a) == \A k \in DOMAIN a.revisions : a.revisions[k].path = selected_file(a)

Readable(a) ==
  IsApp(a) /\ ControlTyped(a) /\ ItemsTyped(a) /\ ListsTyped(a) /\ AllInside(a) /\ OneFile(a)

(* Parts of the state that a handler leaves alone.                           *)
SameFile(a, b) ==
  b.files = a.files /\ b.file_index = a.file_index /\ b.revisions = a.revisions
SameHistory(a, b) == SameFile(a, b) /\ b.revision_index = a.revision_index
SameTree(a, b) == b.tree = a.tree /\ b.tree_index = a.tree_index
SameTimeline(a, b) ==
  /\ b.timeline = a.timeline /\ b.timeline_index = a.timeline_index
  /\ b.timeline_changes_only = a.timeline_changes_only
SameResults(a, b) == b.search_results = a.search_results /\ b.search_index = a.search_index
SameLists(a, b) ==
  SameHistory(a, b) /\ SameTree(a, b) /\ SameTimeline(a, b) /\ SameResults(a, b)
SameControl(a, b) ==
  /\ b.main_tab = a.main_tab /\ b.panel = a.panel
  /\ b.mode = a.mode /\ b.back_mode = a.back_mode /\ b.filter_origin = a.filter_origin
  /\ b.input = a.input /\ b.filters = a.filters
SameDiff(a, b) ==
  /\ b.diff = a.diff /\ b.diff_context = a.diff_context
  /\ b.marked_revision = a.marked_revision
SameItems(a, b) ==
  SameDiff(a, b) /\ b.selected_item = a.selected_item /\ b.inspect = a.inspect

(* What a handler that succeeds does: it reads the history of the selected    *)
(* file or leaves both alone, shows a diff under its label or leaves that     *)
(* alone, and keeps the selection of the results.                            *)
ResultsKept(a, b) ==
  \/ ResultInRange(b)
  \/ b.search_results = a.search_results /\ (ResultInRange(a) => ResultInRange(b))
Kept(a, b) ==
  /\ Readable(b)
  /\ SameFile(a, b) \/ HistoryOfFile(b)
  /\ SameDiff(a, b) \/ Labelled(b)
  /\ ResultsKept(a, b)

(* A row that is in range is one of the list.                                *)
LEMMA RowIn ==
  ASSUME NEW T, NEW list \in Seq(T), NEW i \in Nat, Has(list, i)
  PROVE  i + 1 \in DOMAIN list /\ Row(list, i) \in T /\ Row(list, i) = list[i + 1]
BY LenProperties DEF Has, Row

(* The Id of a revision has its path and its number.                         *)
LEMMA IdParts ==
  ASSUME NEW r
  PROVE  /\ Id(r)[1] = r.path /\ Id(r)[2] = r.number
         /\ r \in Revisions => Id(r) \in Targets /\ Id(r) \in Ids
BY DEF Id, Revisions, Targets, Ids

(* The dialogue agrees if the history is that of the selected file.          *)
LEMMA AgreeIs ==
  ASSUME NEW a, Readable(a)
  PROVE  Agree(a) <=> HistoryOfFile(a)
<1>1. HasRevision(a) =>
        /\ a.revision_index + 1 \in DOMAIN a.revisions
        /\ selected_revision(a) = a.revisions[a.revision_index + 1]
  BY RowIn DEF Readable, ListsTyped, HasRevision, selected_revision
<1>2. ~ HasRevision(a) => DOMAIN a.revisions = {}
  BY DEF Readable, AllInside, Inside, HasRevision
<1>3. HasRevision(a) => (Agree(a) <=> selected_revision(a).path = selected_file(a))
  BY DEF Agree, Asked, SelectedId, Id
<1>4. CASE HasRevision(a)
  <2> DEFINE k == a.revision_index + 1
  <2>1. k \in DOMAIN a.revisions /\ selected_revision(a) = a.revisions[k]
    BY <1>1, <1>4
  <2> HIDE DEF k
  <2>2. \A l \in DOMAIN a.revisions : a.revisions[l].path = a.revisions[k].path
    BY <2>1 DEF Readable, OneFile
  <2> QED BY <1>3, <1>4, <2>1, <2>2 DEF HistoryOfFile
<1>5. CASE ~ HasRevision(a)
  BY <1>2, <1>5 DEF Agree, HistoryOfFile
<1> QED BY <1>4, <1>5

(* Each part rests on its own fields.                                        *)
LEMMA PartsKept ==
  ASSUME NEW a, NEW b
  PROVE  /\ SameControl(a, b) /\ ControlTyped(a) => ControlTyped(b)
         /\ SameItems(a, b) /\ ItemsTyped(a) => ItemsTyped(b)
         /\ SameLists(a, b) /\ ListsTyped(a) => ListsTyped(b)
         /\ SameTimeline(a, b) => Visible(b) = Visible(a)
         /\ SameLists(a, b) /\ AllInside(a) => AllInside(b)
         /\ SameFile(a, b) /\ OneFile(a) => OneFile(b)
         /\ SameHistory(a, b) => SelectedId(b) = SelectedId(a)
         /\ SameResults(a, b) => ResultsKept(a, b)
<1>1. SameControl(a, b) /\ ControlTyped(a) => ControlTyped(b)
  BY DEF SameControl, ControlTyped
<1>2. SameItems(a, b) /\ ItemsTyped(a) => ItemsTyped(b)
  BY DEF SameItems, SameDiff, ItemsTyped
<1>3. SameLists(a, b) /\ ListsTyped(a) => ListsTyped(b)
  BY DEF SameLists, SameHistory, SameFile, SameTree, SameTimeline, SameResults, ListsTyped
<1>4. SameTimeline(a, b) => Visible(b) = Visible(a)
  BY DEF SameTimeline, Visible
<1>5. SameLists(a, b) /\ AllInside(a) => AllInside(b)
  BY <1>4 DEF SameLists, SameHistory, SameFile, SameTree, SameTimeline, AllInside
<1>6. SameFile(a, b) /\ OneFile(a) => OneFile(b)
  BY DEF SameFile, OneFile
<1>7. SameHistory(a, b) => SelectedId(b) = SelectedId(a)
  BY DEF SameHistory, SameFile, SelectedId, HasRevision, selected_revision
<1>8. SameResults(a, b) => ResultsKept(a, b)
  BY DEF SameResults, ResultsKept, ResultInRange
<1> QED BY <1>1, <1>2, <1>3, <1>4, <1>5, <1>6, <1>7, <1>8

-----------------------------------------------------------------------------
(* The diff.  An operator that shows one changes nothing else, and puts a      *)
(* label to it; where it fails it changes nothing else either.               *)
Redraws(a, b) ==
  /\ IsApp(b) /\ SameLists(a, b) /\ SameControl(a, b) /\ ItemsTyped(b)
  /\ b.marked_revision = a.marked_revision
Drawn(a, b, F) == Redraws(a, b) /\ Labelled(b) /\ \A c \in F : Redraws(a, c)

(* A state whose diff, label and item alone are other ones.                  *)
Redrawn(a, diff, context, item) ==
  [a EXCEPT !.diff = diff, !.diff_context = context, !.selected_item = item]
LEMMA ItemsChanged ==
  ASSUME NEW a, IsApp(a), ItemsTyped(a), NEW diff, NEW context \in Targets, NEW item \in Targets
  PROVE  /\ Redraws(a, Redrawn(a, diff, context, item))
         /\ Redrawn(a, diff, context, item).diff = diff
         /\ Redrawn(a, diff, context, item).diff_context = context
<1> DEFINE b == Redrawn(a, diff, context, item)
<1>1. /\ IsApp(b) /\ SameLists(a, b) /\ SameControl(a, b)
      /\ b.marked_revision = a.marked_revision /\ b.inspect = a.inspect
      /\ b.diff = diff /\ b.diff_context = context /\ b.selected_item = item
  BY DEF Redrawn, IsApp, AppFields, SameLists, SameHistory, SameFile, SameTree, SameTimeline,
         SameResults, SameControl
<1> HIDE DEF b
<1>2. ItemsTyped(b)
  BY <1>1 DEF ItemsTyped
<1> QED BY <1>1, <1>2 DEF Redraws, b

(* Nothing changes, or the diff alone.                                       *)
LEMMA DiffChanged ==
  ASSUME NEW a, IsApp(a), ItemsTyped(a)
  PROVE  /\ a.diff_context \in Targets /\ a.selected_item \in Targets /\ NoTarget \in Targets
         /\ Redraws(a, a)
         /\ Drawn(a, [a EXCEPT !.diff = NoDiff], {a})
<1>1. a.diff_context \in Targets /\ a.selected_item \in Targets /\ NoTarget \in Targets
  BY DEF ItemsTyped, Targets
<1>2. Redraws(a, a)
  BY DEF Redraws, SameLists, SameHistory, SameFile, SameTree, SameTimeline, SameResults,
         SameControl
<1>3. [a EXCEPT !.diff = NoDiff] = Redrawn(a, NoDiff, a.diff_context, a.selected_item)
  BY DEF IsApp, AppFields, Redrawn
<1>4. /\ Redraws(a, Redrawn(a, NoDiff, a.diff_context, a.selected_item))
      /\ Redrawn(a, NoDiff, a.diff_context, a.selected_item).diff = NoDiff
  BY <1>1, ItemsChanged
<1> QED BY <1>1, <1>2, <1>3, <1>4 DEF Drawn, Labelled

(* An event of the timeline or of the results is shown under its own Id,     *)
LEMMA EventDrawn ==
  ASSUME NEW a, NEW r \in Revisions, IsApp(a), ItemsTyped(a)
  PROVE  Drawn(a, ShowEvent(a, r), ShowEventFails(a, r))
<1> DEFINE b == Redrawn(a, EventDiff(r), Id(r), Id(r))
           c == Redrawn(a, a.diff, Id(r), Id(r))
<1>1. ShowEvent(a, r) = b /\ \A d \in ShowEventFails(a, r) : d = c
  BY DEF ShowEvent, ShowEventFails, Redrawn, IsApp, AppFields
<1>2. Id(r) \in Targets
  BY IdParts
<1>3. Redraws(a, b) /\ b.diff = EventDiff(r) /\ b.diff_context = Id(r) /\ Redraws(a, c)
  BY <1>2, ItemsChanged
<1> HIDE DEF b, c
<1>4. Labelled(b)
  BY <1>3, IdParts DEF Labelled, EventDiff, Current, Previous
<1> QED BY <1>1, <1>3, <1>4 DEF Drawn

(* and nothing under no label.                                               *)
LEMMA NothingDrawn ==
  ASSUME NEW a, IsApp(a), ItemsTyped(a)
  PROVE  Drawn(a, ShowNothing(a), {})
<1> DEFINE b == Redrawn(a, NoDiff, NoTarget, a.selected_item)
<1>1. ShowNothing(a) = b
  BY DEF ShowNothing, Redrawn, IsApp, AppFields
<1>2. a.selected_item \in Targets /\ NoTarget \in Targets
  BY DEF ItemsTyped, Targets
<1>3. Redraws(a, b) /\ b.diff = NoDiff
  BY <1>2, ItemsChanged
<1> HIDE DEF b
<1> QED BY <1>1, <1>3 DEF Drawn, Labelled

(* The selected row of the timeline,                                         *)
LEMMA TimelineDrawn ==
  ASSUME NEW a, IsApp(a), ItemsTyped(a), ListsTyped(a)
  PROVE  Drawn(a, select_timeline(a), TimelineFails(a))
<1>1. Visible(a) \in Seq(Revisions) /\ a.timeline_index \in Nat
  BY VisibleRows DEF ListsTyped
<1>2. CASE Has(Visible(a), a.timeline_index)
  <2>1. Row(Visible(a), a.timeline_index) \in Revisions
    BY <1>1, <1>2, RowIn
  <2> QED BY <1>2, <2>1, EventDrawn DEF select_timeline, TimelineFails
<1>3. CASE ~ Has(Visible(a), a.timeline_index)
  BY <1>3, NothingDrawn DEF select_timeline, TimelineFails
<1> QED BY <1>2, <1>3

(* What is found in the repository is one of its revisions.                  *)
LEMMA FoundIn ==
  ASSUME NEW s \in Seq(Revisions), NEW id \in Listed(s)
  PROVE  Found(s, id) \in Revisions /\ Id(Found(s, id)) = id
<1>1. \E i \in DOMAIN s : Id(s[i]) = id
  BY DEF Listed
<1>2. \A i \in DOMAIN s : s[i] \in Revisions
  BY RevisionNumbers
<1> QED BY <1>1, <1>2 DEF Found

(* or of the results, if it is there,                                        *)
LEMMA ResultDrawn ==
  ASSUME NEW a, IsApp(a), ItemsTyped(a), ListsTyped(a), NEW s \in Seq(Revisions)
  PROVE  Drawn(a, select_search_result(a, s), ResultFails(a, s))
<1> DEFINE id == Id(Row(a.search_results, a.search_index))
<1>1. CASE ~ Has(a.search_results, a.search_index)
  BY <1>1, NothingDrawn DEF select_search_result, ResultFails
<1>2. CASE Has(a.search_results, a.search_index) /\ id \in Listed(s)
  <2>1. Drawn(a, ShowEvent(a, Found(s, id)), ShowEventFails(a, Found(s, id)))
    BY <1>2, FoundIn, EventDrawn
  <2>2. Redraws(a, a)
    BY DiffChanged
  <2>3. /\ select_search_result(a, s) = ShowEvent(a, Found(s, id))
        /\ ResultFails(a, s) = {a} \union ShowEventFails(a, Found(s, id))
    BY <1>2 DEF select_search_result, ResultFails
  <2> HIDE DEF id
  <2> QED BY <2>1, <2>2, <2>3 DEF Drawn
<1>3. CASE Has(a.search_results, a.search_index) /\ id \notin Listed(s)
  <2>1. Drawn(a, [a EXCEPT !.diff = NoDiff], {a})
    BY DiffChanged
  <2>2. select_search_result(a, s) = [a EXCEPT !.diff = NoDiff] /\ ResultFails(a, s) = {a}
    BY <1>3 DEF select_search_result, ResultFails
  <2> HIDE DEF id
  <2> QED BY <2>1, <2>2 DEF Drawn, Labelled
<1> QED BY <1>1, <1>2, <1>3

(* or the selected revision of the history, under its own Id.                *)
LEMMA HistoryDrawn ==
  ASSUME NEW a, IsApp(a), ItemsTyped(a), ListsTyped(a)
  PROVE  /\ Drawn(a, update_diff(a), HistoryFails(a))
         /\ HasRevision(a) /\ update_diff(a).diff # NoDiff =>
              update_diff(a).diff_context = SelectedId(a)
<1>1. CASE ~ HasRevision(a)
  BY <1>1, NothingDrawn DEF update_diff, HistoryFails
<1>2. CASE HasRevision(a) /\ ~ HasLeft(a)
  <2>1. Drawn(a, [a EXCEPT !.diff = NoDiff], {a})
    BY DiffChanged
  <2>2. update_diff(a) = [a EXCEPT !.diff = NoDiff] /\ HistoryFails(a) = {}
    BY <1>2 DEF update_diff, HistoryFails
  <2> QED BY <2>1, <2>2 DEF Drawn, Labelled
<1>3. CASE HasRevision(a) /\ HasLeft(a)
  <2> DEFINE r == selected_revision(a)
             d == [path |-> r.path, left |-> LeftNumber(a),
                   right |-> IF a.compare_current THEN Current ELSE r.number]
             b == Redrawn(a, d, Id(r), Id(r))
             c == Redrawn(a, d, Id(r), a.selected_item)
  <2>1. r \in Revisions
    BY <1>3, RowIn DEF ListsTyped, HasRevision, selected_revision
  <2>2. SelectedId(a) = Id(r)
    BY <1>3 DEF SelectedId
  <2>3. Compared(a) = [a EXCEPT !.diff = d, !.diff_context = Id(r)]
    BY DEF Compared
  <2>4. LeftNumber(a) \in {Id(r)[2], a.marked_revision}
    BY IdParts DEF LeftNumber
  <2>5. update_diff(a) = [Compared(a) EXCEPT !.selected_item = SelectedId(a)]
    BY <1>3 DEF update_diff
  <2>6. \A x \in HistoryFails(a) : x = a \/ x = Compared(a)
    BY DEF HistoryFails
  <2>7. d.path = Id(r)[1] /\ d.left \in {Id(r)[2], a.marked_revision}
        /\ (d.right = Current \/ d.right = Id(r)[2])
    BY <2>4, IdParts
  <2>8. Id(r) \in Targets
    BY <2>1, IdParts
  <2> HIDE DEF d, r
  <2>9. b = update_diff(a) /\ c = Compared(a)
    BY <2>2, <2>3, <2>5 DEF IsApp, AppFields, Redrawn
  <2>10. a.selected_item \in Targets
    BY DEF ItemsTyped
  <2> HIDE DEF b, c
  <2>11. /\ Redraws(a, b) /\ b.diff = d /\ b.diff_context = Id(r) /\ Redraws(a, c)
    BY <2>8, <2>10, ItemsChanged DEF b, c
  <2>12. Redraws(a, a) /\ b.marked_revision = a.marked_revision
    BY <2>11, DiffChanged DEF Redraws
  <2>13. Labelled(b)
    BY <2>7, <2>11, <2>12 DEF Labelled
  <2> QED BY <2>2, <2>6, <2>9, <2>11, <2>12, <2>13 DEF Drawn
<1> QED BY <1>1, <1>2, <1>3

(* Whatever the tab shows.                                                   *)
LEMMA TabDrawn ==
  ASSUME NEW a, IsApp(a), ItemsTyped(a), ListsTyped(a), a.main_tab \in Tabs,
         NEW s \in Seq(Revisions)
  PROVE  Drawn(a, ShowTab(a, s), TabFails(a, s))
<1>1. CASE a.main_tab = "Timeline"
  <2>1. ShowTab(a, s) = select_timeline(a) /\ TabFails(a, s) = TimelineFails(a)
    BY Zenon, <1>1 DEF ShowTab, TabFails
  <2> QED BY <2>1, TimelineDrawn
<1>2. CASE a.main_tab = "ReposFiles"
  <2>1. ShowTab(a, s) = update_diff(a) /\ TabFails(a, s) = HistoryFails(a)
    BY <1>2 DEF ShowTab, TabFails
  <2> QED BY <2>1, HistoryDrawn
<1>3. CASE a.main_tab = "Search"
  <2>1. ShowTab(a, s) = select_search_result(a, s) /\ TabFails(a, s) = ResultFails(a, s)
    BY <1>3 DEF ShowTab, TabFails
  <2> QED BY <2>1, ResultDrawn
<1> QED BY <1>1, <1>2, <1>3 DEF Tabs

(* What a handler leaves of a: b if it succeeds, a member of F if it fails.   *)
Works(a, b, F) == Kept(a, b) /\ \A c \in F : Readable(c)
Steady(a, b, F) == Works(a, b, F) /\ \A c \in F \union {b} : SelectedId(c) = SelectedId(a)

(* One that changes what it needs in c, and then shows a diff.               *)
LEMMA ThenDrawn ==
  ASSUME NEW a, NEW c, Readable(c), SameFile(a, c) \/ HistoryOfFile(c), ResultsKept(a, c),
         NEW b, NEW F, Drawn(c, b, F)
  PROVE  /\ Works(a, b, F) /\ (HistoryOfFile(c) => HistoryOfFile(b))
         /\ \A d \in F \union {b} : SelectedId(d) = SelectedId(c) /\ SameHistory(c, d)
<1>1. ASSUME NEW d \in F \union {b}
      PROVE  Readable(d) /\ SelectedId(d) = SelectedId(c) /\ SameHistory(c, d) /\ SameResults(c, d)
  <2>1. Redraws(c, d)
    BY DEF Drawn
  <2> QED BY <2>1, PartsKept DEF Redraws, Readable, SameLists, SameHistory
<1>2. SameFile(a, b) \/ HistoryOfFile(b)
  BY <1>1 DEF SameHistory, SameFile, HistoryOfFile, selected_file
<1>3. ResultsKept(a, b)
  BY <1>1 DEF SameResults, ResultsKept, ResultInRange
<1>4. HistoryOfFile(c) => HistoryOfFile(b)
  BY <1>1 DEF SameHistory, SameFile, HistoryOfFile, selected_file
<1> QED BY <1>1, <1>2, <1>3, <1>4 DEF Works, Kept, Drawn

-----------------------------------------------------------------------------
(* refresh.                                                                  *)

(* rebuild_tree changes the tree only.                                       *)
LEMMA TreeRebuilt ==
  ASSUME NEW a, IsApp(a), a.files \in Seq(Paths)
  PROVE  LET b == rebuild_tree(a) IN
         /\ IsApp(b) /\ SameHistory(a, b) /\ SameTimeline(a, b) /\ SameResults(a, b)
         /\ SameControl(a, b) /\ SameItems(a, b) /\ b.tree_index = a.tree_index
         /\ b.tree \in Seq(Nodes) /\ (a.files = <<>> => b.tree = <<>>)
<1> DEFINE nodes == NodesOf(ToSet(a.files), a.expanded)
           t == Sorted(nodes, [n \in nodes |-> PlaceOf(n)])
           b == rebuild_tree(a)
<1>1. b = [a EXCEPT !.tree = t]
  BY DEF rebuild_tree
<1>2. ToSet(a.files) \subseteq Paths
  BY LenProperties DEF ToSet
<1>3. t \in Seq(Nodes) /\ (ToSet(a.files) = {} => t = <<>>)
  BY <1>2, TreeRead
<1>4. a.files = <<>> => ToSet(a.files) = {}
  BY DEF ToSet
<1> HIDE DEF t, b
<1>5. /\ IsApp(b) /\ SameHistory(a, b) /\ SameTimeline(a, b) /\ SameResults(a, b)
      /\ SameControl(a, b) /\ SameItems(a, b) /\ b.tree_index = a.tree_index /\ b.tree = t
  BY <1>1 DEF IsApp, AppFields, SameHistory, SameFile, SameTimeline, SameResults, SameControl,
              SameItems, SameDiff
<1> QED BY <1>3, <1>4, <1>5 DEF b

(* What refresh selects and reads.                                           *)
FileIndexRead(a, s) ==
  IF Has(a.files, a.file_index)
  THEN Position(FilesOf(s), LAMBDA p : p = selected_file(a)) ELSE a.file_index
HistoryRowsRead(a, s) ==
  IF Has(FilesOf(s), FileIndexRead(a, s))
  THEN HistoryOf(s, Row(FilesOf(s), FileIndexRead(a, s))) ELSE <<>>
RevisionIndexRead(a, s) ==
  IF HasRevision(a)
  THEN Position(HistoryRowsRead(a, s), LAMBDA r : r.number = selected_revision(a).number)
  ELSE a.revision_index
TreeIndexRead(a, s, tree) ==
  IF FilesRead(a, s).files = <<>> THEN a.tree_index
  ELSE Position(tree, LAMBDA n : n = File(selected_file(FilesRead(a, s))))

(* Position finds a row of the list, whatever is looked for.                 *)
LEMMA FileIndexInside ==
  ASSUME NEW a, NEW s, s \in Seq(Revisions), Readable(a)
  PROVE  FileIndexRead(a, s) \in Nat /\ Inside(FilesOf(s), FileIndexRead(a, s))
<1>1. FilesOf(s) \in Seq(Paths)
  BY FilesListed
<1>2. CASE Has(a.files, a.file_index)
  BY <1>1, <1>2, FirstInside DEF FileIndexRead, Position
<1>3. CASE ~ Has(a.files, a.file_index)
  <2>1. a.file_index = 0
    BY <1>3 DEF Readable, AllInside, Inside
  <2>2. Len(FilesOf(s)) \in Nat /\ (FilesOf(s) # <<>> => Len(FilesOf(s)) # 0)
    BY <1>1, LenProperties, EmptySeq
  <2> QED BY <1>3, <2>1, <2>2 DEF FileIndexRead, Inside, Has
<1> QED BY <1>2, <1>3

(* The history read is that of the file found, and a row of it is selected.  *)
LEMMA HistoryRowsInside ==
  ASSUME NEW a, NEW s, s \in Seq(Revisions), Readable(a)
  PROVE  /\ HistoryRowsRead(a, s) \in Seq(Revisions)
         /\ HistoryRowsRead(a, s) # <<>> => FilesOf(s) # <<>>
         /\ \A k \in DOMAIN HistoryRowsRead(a, s) :
              HistoryRowsRead(a, s)[k].path = Row(FilesOf(s), FileIndexRead(a, s))
         /\ RevisionIndexRead(a, s) \in Nat
         /\ Inside(HistoryRowsRead(a, s), RevisionIndexRead(a, s))
<1> DEFINE h == HistoryRowsRead(a, s)
           p == Row(FilesOf(s), FileIndexRead(a, s))
<1>3. /\ h \in Seq(Revisions)
      /\ h # <<>> => FilesOf(s) # <<>>
      /\ \A k \in DOMAIN h : h[k].path = p
  <2>1. CASE ~ Has(FilesOf(s), FileIndexRead(a, s))
    <3>1. h = <<>>
      BY <2>1 DEF HistoryRowsRead
    <3> HIDE DEF h
    <3> QED BY <3>1, EmptySeq
  <2>2. CASE Has(FilesOf(s), FileIndexRead(a, s))
    <3>1. h = HistoryOf(s, p)
      BY <2>2 DEF HistoryRowsRead
    <3>2. FilesOf(s) # <<>>
      BY <2>2, FileIndexInside, EmptySeq DEF Has
    <3> HIDE DEF h, p
    <3>3. /\ h \in Seq(Revisions)
          /\ \A k \in DOMAIN h : \E i \in DOMAIN s : s[i].path = p /\ h[k] = s[i]
      BY <3>1, HistoryRead
    <3> QED BY <3>2, <3>3
  <2> QED BY <2>1, <2>2
<1> HIDE DEF h, p
<1>4. RevisionIndexRead(a, s) \in Nat /\ Inside(h, RevisionIndexRead(a, s))
  <2>1. CASE HasRevision(a)
    <3> DEFINE I == {k \in DOMAIN h : h[k].number = selected_revision(a).number}
    <3>1. RevisionIndexRead(a, s) = First(I)
      BY <2>1 DEF RevisionIndexRead, Position, h
    <3>2. I \subseteq DOMAIN h
      OBVIOUS
    <3> HIDE DEF I
    <3> QED BY <3>1, <3>2, <1>3, FirstInside
  <2>2. CASE ~ HasRevision(a)
    <3>1. a.revision_index = 0
      BY <2>2 DEF Readable, AllInside, Inside, HasRevision
    <3>2. Len(h) \in Nat /\ (h # <<>> => Len(h) # 0)
      BY <1>3, LenProperties, EmptySeq
    <3> QED BY <2>2, <3>1, <3>2 DEF RevisionIndexRead, Inside, Has
  <2> QED BY <2>1, <2>2
<1> QED BY <1>3, <1>4 DEF h, p

(* The files are read first, beside the history read before.                 *)
LEMMA FilesReadFirst ==
  ASSUME NEW a, NEW s, s \in Seq(Revisions), Readable(a)
  PROVE  LET b == FilesRead(a, s) IN
         /\ IsApp(b) /\ SameControl(a, b) /\ SameItems(a, b) /\ SameTree(a, b)
         /\ SameTimeline(a, b) /\ SameResults(a, b)
         /\ b.files = FilesOf(s) /\ b.file_index = FileIndexRead(a, s)
         /\ b.revisions = a.revisions /\ b.revision_index = a.revision_index
         /\ SelectedId(b) = SelectedId(a)
         /\ s # <<>> => Readable(b)
<1> DEFINE files == FilesOf(s)
           fi == FileIndexRead(a, s)
           b == FilesRead(a, s)
<1>1. b = [a EXCEPT !.files = files, !.file_index = fi]
  BY DEF FilesRead, FileIndexRead
<1>2. IsApp(a)
  BY DEF Readable
<1>3. files \in Seq(Paths) /\ fi \in Nat /\ Inside(files, fi)
  BY FilesListed, FileIndexInside
<1>4. s # <<>> => files # <<>>
  <2> HAVE s # <<>>
  <2>1. 1 \in DOMAIN s
    BY LenProperties, EmptySeq
  <2>2. PICK k \in DOMAIN files : files[k] = s[1].path
    BY <2>1, FilesListed
  <2> HIDE DEF files
  <2>3. DOMAIN files # {}
    BY <2>2
  <2> QED BY <2>3, EmptySeq
<1> HIDE DEF files, fi, b
<1>5. /\ IsApp(b) /\ SameControl(a, b) /\ SameItems(a, b) /\ SameTree(a, b)
      /\ SameTimeline(a, b) /\ SameResults(a, b)
      /\ b.files = files /\ b.file_index = fi
      /\ b.revisions = a.revisions /\ b.revision_index = a.revision_index
  BY <1>1, <1>2 DEF IsApp, AppFields, SameControl, SameItems, SameDiff, SameTree, SameTimeline,
                    SameResults
<1>6. SelectedId(b) = SelectedId(a)
  BY <1>5 DEF SelectedId, HasRevision, selected_revision
<1>7. s # <<>> => Readable(b)
  <2> HAVE s # <<>>
  <2>1. ControlTyped(b) /\ ItemsTyped(b) /\ Visible(b) = Visible(a)
    BY <1>5, PartsKept DEF Readable
  <2>2. ListsTyped(b)
    BY <1>3, <1>5 DEF Readable, ListsTyped, SameTree, SameTimeline, SameResults
  <2>3. AllInside(b)
    BY <1>3, <1>5, <2>1 DEF Readable, AllInside, SameTree, SameTimeline
  <2>4. OneFile(b)
    BY <1>4, <1>5 DEF Readable, OneFile
  <2> QED BY <1>5, <2>1, <2>2, <2>3, <2>4 DEF Readable
<1> QED BY <1>5, <1>6, <1>7 DEF b, files, fi

(* Then all lists are, before a diff is shown.                               *)
LEMMA ListsRead ==
  ASSUME NEW a, NEW s, s \in Seq(Revisions), Readable(a)
  PROVE  LET c == Reselected(a, s) IN
         /\ Readable(c) /\ HistoryOfFile(c)
         /\ SameControl(a, c) /\ SameItems(a, c) /\ SameResults(a, c)
         /\ c.files = FilesOf(s) /\ c.file_index = FileIndexRead(a, s)
         /\ c.revisions = HistoryRowsRead(a, s) /\ c.revision_index = RevisionIndexRead(a, s)
<1> DEFINE files == FilesOf(s)
           fi == FileIndexRead(a, s)
           h == HistoryRowsRead(a, s)
           ri == RevisionIndexRead(a, s)
           t == TimelineOf(s)
           first == FilesRead(a, s)
           base == [first EXCEPT !.timeline = t, !.revisions = h]
           read == rebuild_tree(base)
           ti == Clamped(read.timeline_index, Len(Visible(read)))
           ni == TreeIndexRead(a, s, read.tree)
           r == [read EXCEPT !.timeline_index = ti, !.tree_index = ni]
           c == [r EXCEPT !.revision_index = ri]
<1>1. files \in Seq(Paths) /\ t \in Seq(Revisions)
  BY FilesListed, TimelineRead
<1>2. /\ IsApp(first) /\ SameControl(a, first) /\ SameItems(a, first) /\ SameTree(a, first)
      /\ SameTimeline(a, first) /\ SameResults(a, first)
      /\ first.files = files /\ first.file_index = fi
      /\ first.revisions = a.revisions /\ first.revision_index = a.revision_index
  BY FilesReadFirst
<1>3. base.timeline = t /\ base.revisions = h /\ Reread(a, s) = r
  <2>1. (IF Has(first.files, first.file_index) THEN HistoryOf(s, selected_file(first)) ELSE <<>>)
          = h
    BY <1>2 DEF selected_file, HistoryRowsRead
  <2>2. base.timeline = t /\ base.revisions = h
    BY <1>2 DEF IsApp, AppFields
  <2>3. read.tree_index = a.tree_index
    <3> HIDE DEF first, h, t
    <3>1. IsApp(base) /\ base.files = files /\ base.tree_index = a.tree_index
      BY <1>2 DEF IsApp, AppFields, SameTree
    <3> HIDE DEF base
    <3> QED BY <1>1, <3>1, TreeRebuilt
  <2>4. Reread(a, s)
          = [read EXCEPT !.timeline_index = ti,
               !.tree_index = IF first.files = <<>> THEN read.tree_index
                              ELSE Position(read.tree, LAMBDA n : n = File(selected_file(first)))]
    BY <2>1 DEF Reread
  <2>5. Reread(a, s) = r
    BY <2>3, <2>4 DEF TreeIndexRead
  <2> QED BY <2>2, <2>5
<1> HIDE DEF first
<1>4. /\ IsApp(base) /\ base.files = files /\ base.file_index = fi
      /\ base.tree_index = a.tree_index /\ base.revision_index = a.revision_index
      /\ base.timeline_index = a.timeline_index
      /\ base.timeline_changes_only = a.timeline_changes_only
      /\ SameResults(a, base) /\ SameControl(a, base) /\ SameItems(a, base)
  BY <1>2 DEF IsApp, AppFields, SameResults, SameControl, SameItems, SameDiff, SameTree,
              SameTimeline
<1> HIDE DEF base
<1>5. /\ IsApp(read) /\ SameHistory(base, read) /\ SameTimeline(base, read)
      /\ SameResults(base, read) /\ SameControl(base, read) /\ SameItems(base, read)
      /\ read.tree_index = a.tree_index
      /\ read.tree \in Seq(Nodes) /\ (files = <<>> => read.tree = <<>>)
  BY <1>1, <1>4, TreeRebuilt
<1>6. Reselected(a, s) = c
  <2> HIDE DEF read, ti, ni, h
  <2>1. r.revisions = h /\ r.revision_index = a.revision_index
    BY <1>3, <1>4, <1>5 DEF IsApp, AppFields, SameHistory, SameFile
  <2> HIDE DEF r
  <2> QED BY <1>3, <2>1 DEF Reselected, RevisionIndexRead, h
<1> HIDE DEF read
<1>7. Visible(read) \in Seq(Revisions)
  BY <1>1, <1>3, <1>5, VisibleRows DEF SameTimeline
<1>8. ti \in Nat /\ Inside(Visible(read), ti)
  BY <1>4, <1>5, <1>7, MovedInside DEF SameTimeline, Readable, ListsTyped
<1>9. ni \in Nat /\ Within(read.tree, ni)
  <2>1. CASE files = <<>>
    BY <2>1, <1>2, <1>5 DEF TreeIndexRead, Within, Readable, ListsTyped, first
  <2>2. CASE files # <<>>
    <3> DEFINE I == {k \in DOMAIN read.tree : read.tree[k] = File(selected_file(FilesRead(a, s)))}
    <3>1. ni = First(I)
      BY <2>2, <1>2 DEF TreeIndexRead, Position, first
    <3>2. I \subseteq DOMAIN read.tree
      OBVIOUS
    <3> HIDE DEF I, ni
    <3>3. ni \in Nat /\ Inside(read.tree, ni)
      BY <3>1, <3>2, <1>5, FirstInside
    <3> QED BY <3>3, <1>5, MovedInside
  <2> QED BY <2>1, <2>2
<1>10. /\ fi \in Nat /\ Inside(files, fi)
       /\ h \in Seq(Revisions) /\ ri \in Nat /\ Inside(h, ri)
       /\ h # <<>> => files # <<>>
       /\ \A k \in DOMAIN h : h[k].path = Row(files, fi)
  BY FileIndexInside, HistoryRowsInside
<1> HIDE DEF files, fi, h, ri, t, ti, ni
<1>11. /\ IsApp(c) /\ c.timeline_index = ti /\ c.tree_index = ni /\ c.revision_index = ri
       /\ c.files = files /\ c.file_index = fi /\ c.revisions = h
       /\ c.tree = read.tree /\ c.timeline = t
       /\ c.timeline_changes_only = read.timeline_changes_only
       /\ SameResults(a, c) /\ SameControl(a, c) /\ SameItems(a, c)
  BY <1>3, <1>4, <1>5 DEF IsApp, AppFields, SameHistory, SameFile, SameTimeline, SameResults,
                          SameControl, SameItems, SameDiff
<1>12. read.timeline = t
  BY <1>3, <1>5 DEF SameTimeline
<1> HIDE DEF c
<1>13. ControlTyped(c) /\ ItemsTyped(c)
  BY <1>11, PartsKept DEF Readable
<1>14. ListsTyped(c)
  BY <1>1, <1>5, <1>8, <1>9, <1>10, <1>11 DEF Readable, ListsTyped, SameResults
<1>15. Visible(c) = Visible(read)
  BY <1>11, <1>12 DEF Visible
<1>16. AllInside(c)
  BY <1>8, <1>9, <1>10, <1>11, <1>15 DEF AllInside
<1>17. OneFile(c) /\ HistoryOfFile(c)
  BY <1>10, <1>11 DEF OneFile, HistoryOfFile, selected_file
<1> QED BY <1>6, <1>11, <1>13, <1>14, <1>16, <1>17 DEF Readable, files, fi, h, ri

(* refresh, whether it succeeds or not.                                      *)
LEMMA RefreshWorks ==
  ASSUME NEW a, NEW s, s \in Seq(Revisions), Readable(a)
  PROVE  LET b == refresh(a, s) IN
         /\ Works(a, b, RefreshFails(a, s)) /\ HistoryOfFile(b) /\ Labelled(b)
         /\ SameControl(a, b) /\ SameResults(a, b)
         /\ b.files = FilesOf(s) /\ b.file_index = FileIndexRead(a, s)
         /\ b.revisions = HistoryRowsRead(a, s) /\ b.revision_index = RevisionIndexRead(a, s)
         /\ \A d \in RefreshFails(a, s) : SelectedId(d) \in {SelectedId(a), SelectedId(b)}
<1> DEFINE b == refresh(a, s)
           c == Reselected(a, s)
           F == TabFails(c, s)
<1>1. /\ Readable(c) /\ HistoryOfFile(c)
      /\ SameControl(a, c) /\ SameResults(a, c)
      /\ c.files = FilesOf(s) /\ c.file_index = FileIndexRead(a, s)
      /\ c.revisions = HistoryRowsRead(a, s) /\ c.revision_index = RevisionIndexRead(a, s)
  BY ListsRead
<1>2. b = ShowTab(c, s)
  BY DEF refresh
<1>3. RefreshFails(a, s)
        = {a} \union {FilesRead(a, s) : i \in {j \in DOMAIN s : s[j].kind # "Access"}} \union F
  BY DEF RefreshFails
<1> HIDE DEF b, c
<1>4. Drawn(c, b, F)
  BY <1>1, <1>2, TabDrawn DEF Readable, ControlTyped
<1> HIDE DEF F
<1>5. ResultsKept(a, c)
  BY <1>1, PartsKept
<1>6. /\ Works(a, b, F) /\ HistoryOfFile(b)
      /\ \A d \in F \union {b} : SelectedId(d) = SelectedId(c) /\ SameHistory(c, d)
  BY <1>1, <1>4, <1>5, ThenDrawn
<1>7. Labelled(b) /\ SameControl(a, b) /\ SameResults(a, b) /\ SameHistory(c, b)
  BY <1>1, <1>4 DEF Drawn, Redraws, SameControl, SameLists, SameResults
<1>8. ASSUME NEW d \in {FilesRead(a, s) : i \in {j \in DOMAIN s : s[j].kind # "Access"}}
      PROVE  Readable(d) /\ SelectedId(d) = SelectedId(a)
  <2>1. PICK i \in DOMAIN s : d = FilesRead(a, s)
    BY <1>8
  <2>2. s # <<>>
    BY <2>1
  <2> QED BY <2>1, <2>2, FilesReadFirst
<1>9. ASSUME NEW d \in RefreshFails(a, s)
      PROVE  Readable(d) /\ SelectedId(d) \in {SelectedId(a), SelectedId(b)}
  BY <1>3, <1>6, <1>8 DEF Works
<1>10. Works(a, b, RefreshFails(a, s))
  BY <1>6, <1>9 DEF Works
<1> QED BY <1>1, <1>6, <1>7, <1>9, <1>10 DEF b, SameHistory, SameFile

(* The selected file stays selected while it has a revision,                 *)
LEMMA RefreshFindsFile ==
  ASSUME NEW a, NEW s, s \in Seq(Revisions), Readable(a), Has(a.files, a.file_index),
         NEW i \in DOMAIN s, s[i].path = selected_file(a)
  PROVE  /\ Row(FilesOf(s), FileIndexRead(a, s)) = selected_file(a)
         /\ HistoryRowsRead(a, s) = HistoryOf(s, selected_file(a))
<1> DEFINE files == FilesOf(s)
           I == {k \in DOMAIN files : files[k] = selected_file(a)}
           fi == FileIndexRead(a, s)
<1>1. files \in Seq(Paths) /\ \E k \in DOMAIN files : files[k] = s[i].path
  BY FilesListed
<1>2. fi = First(I)
  BY DEF FileIndexRead, Position
<1>3. I \subseteq DOMAIN files /\ I # {}
  BY <1>1
<1> HIDE DEF I, fi, files
<1>4. fi \in Nat /\ fi + 1 \in I
  BY <1>1, <1>2, <1>3, FirstInside
<1>5. fi + 1 \in DOMAIN files /\ files[fi + 1] = selected_file(a)
  BY <1>4 DEF I
<1>6. Has(files, fi)
  BY <1>1, <1>4, <1>5, LenProperties DEF Has
<1> QED BY <1>5, <1>6 DEF Row, HistoryRowsRead, files, fi

(* What the dialogue agrees on: the selected revision is of the selected file. *)
LEMMA AgreedFile ==
  ASSUME NEW a, Readable(a), Agree(a), HasRevision(a)
  PROVE  /\ selected_revision(a) \in Revisions /\ SelectedId(a) = Id(selected_revision(a))
         /\ selected_revision(a).path = selected_file(a) /\ Has(a.files, a.file_index)
<1>1. /\ a.revision_index + 1 \in DOMAIN a.revisions
      /\ selected_revision(a) = a.revisions[a.revision_index + 1]
      /\ selected_revision(a) \in Revisions
  BY RowIn DEF Readable, ListsTyped, HasRevision, selected_revision
<1>2. selected_revision(a).path = selected_file(a)
  BY <1>1, AgreeIs DEF HistoryOfFile
<1>3. a.revisions # <<>>
  BY <1>1, EmptySeq
<1>4. Has(a.files, a.file_index)
  BY <1>3 DEF Readable, OneFile, AllInside, Inside
<1> QED BY <1>1, <1>2, <1>4 DEF SelectedId

(* and the selected revision while it is listed.                             *)
LEMMA RefreshFindsRevision ==
  ASSUME NEW a, NEW s, s \in Seq(Revisions), Readable(a), Agree(a), HasRevision(a),
         SelectedId(a) \in Listed(s)
  PROVE  SelectedId(refresh(a, s)) = SelectedId(a)
<1> DEFINE r == selected_revision(a)
           b == refresh(a, s)
           h == HistoryRowsRead(a, s)
           ri == RevisionIndexRead(a, s)
           I == {k \in DOMAIN h : h[k].number = r.number}
<1>1. r.path = selected_file(a) /\ Has(a.files, a.file_index) /\ SelectedId(a) = Id(r)
  BY AgreedFile
<1>2. PICK i \in DOMAIN s : Id(s[i]) = Id(r)
  BY <1>1 DEF Listed
<1>3. s[i].path = r.path /\ s[i].number = r.number
  BY <1>2, IdParts
<1>6. h = HistoryOf(s, r.path) /\ Row(FilesOf(s), FileIndexRead(a, s)) = r.path
  BY <1>1, <1>3, RefreshFindsFile
<1>7. h \in Seq(Revisions) /\ \A k \in DOMAIN h : h[k].path = r.path
  BY <1>6, HistoryRowsInside
<1>8. \E k \in DOMAIN h : h[k] = s[i]
  BY <1>3, <1>6, HistoryRead
<1>9. ri = First(I)
  BY DEF RevisionIndexRead, Position
<1>10. b.revisions = h /\ b.revision_index = ri
  BY RefreshWorks
<1>11. I \subseteq DOMAIN h /\ I # {}
  BY <1>3, <1>8
<1> HIDE DEF I, h, ri, b, r
<1>12. ri \in Nat /\ ri + 1 \in I
  BY <1>7, <1>9, <1>11, FirstInside
<1>13. ri + 1 \in DOMAIN h /\ h[ri + 1].number = r.number
  BY <1>12 DEF I
<1>14. Has(h, ri) /\ Row(h, ri).number = r.number /\ Row(h, ri).path = r.path
  BY <1>7, <1>12, <1>13, LenProperties DEF Has, Row
<1> QED BY <1>1, <1>10, <1>14 DEF SelectedId, HasRevision, selected_revision, Id, b, r

-----------------------------------------------------------------------------
(* What is typed, and what is written.                                       *)

(* Inputs are the words of at most MaxInput characters.                      *)
LEMMA InputsAre == \A x : x \in Inputs <=> x \in Seq(Chars) /\ Len(x) <= MaxInput
<1>1. Inputs = UNION {[1 .. m -> Chars] : m \in 0 .. MaxInput}
  BY DEF Inputs, BoundedSeq, SeqOf
<1>2. ASSUME NEW x \in Inputs PROVE x \in Seq(Chars) /\ Len(x) <= MaxInput
  <2>1. PICK m \in 0 .. MaxInput : x \in [1 .. m -> Chars]
    BY <1>1
  <2>2. m \in Nat
    BY <2>1, Bounds
  <2>3. x \in Seq(Chars)
    BY <2>1, <2>2, SeqDef
  <2>4. DOMAIN x = 1 .. m /\ DOMAIN x = 1 .. Len(x) /\ Len(x) \in Nat
    BY <2>1, <2>3, LenProperties
  <2> QED BY <2>1, <2>2, <2>3, <2>4, Bounds
<1>3. ASSUME NEW x \in Seq(Chars), Len(x) <= MaxInput PROVE x \in Inputs
  <2>1. x \in [1 .. Len(x) -> Chars] /\ Len(x) \in 0 .. MaxInput
    BY <1>3, LenProperties, Bounds
  <2> QED BY <1>1, <2>1
<1> QED BY <1>2, <1>3

(* An empty field is one of them.                                            *)
LEMMA EmptyInput == <<>> \in Inputs
<1> DEFINE e == <<>>
<1>1. e \in Seq(Chars) /\ Len(e) = 0
  BY EmptySeq
<1> HIDE DEF e
<1>2. Len(e) <= MaxInput
  BY <1>1, Bounds
<1>3. e \in Inputs
  BY <1>1, <1>2, InputsAre
<1> QED BY <1>3 DEF e

(* Editing a field, and trimming what is in it.                              *)
LEMMA InputsEdited ==
  ASSUME NEW w \in Inputs
  PROVE  /\ <<>> \in Inputs
         /\ \A c \in Chars : Len(w) < MaxInput => Append(w, c) \in Inputs
         /\ w # <<>> => Front(w) \in Inputs
         /\ Trimmed(w) \in Inputs
<1>1. w \in Seq(Chars) /\ Len(w) <= MaxInput /\ Len(w) \in Nat
  BY InputsAre, LenProperties
<1>2. <<>> \in Inputs
  BY EmptyInput
<1>3. ASSUME NEW c \in Chars, Len(w) < MaxInput PROVE Append(w, c) \in Inputs
  <2>1. Append(w, c) \in Seq(Chars) /\ Len(Append(w, c)) = Len(w) + 1
    BY <1>1, AppendProperties
  <2>2. Len(Append(w, c)) <= MaxInput
    BY <2>1, <1>1, <1>3, Bounds
  <2> QED BY <2>1, <2>2, InputsAre
<1>4. ASSUME NEW m \in 1 .. Len(w), NEW n \in Nat, n <= Len(w) PROVE SubSeq(w, m, n) \in Inputs
  <2>1. \A i \in m .. n : w[i] \in Chars
    BY <1>1, <1>4, ElementOfSeq
  <2>2. /\ SubSeq(w, m, n) \in Seq(Chars)
        /\ Len(SubSeq(w, m, n)) = IF m <= n THEN n - m + 1 ELSE 0
    BY <2>1, SubSeqProperties
  <2>3. Len(SubSeq(w, m, n)) <= MaxInput
    BY <2>2, <1>1, <1>4, Bounds
  <2> QED BY <2>2, <2>3, InputsAre
<1>5. ASSUME w # <<>> PROVE Front(w) \in Inputs
  <2>1. Len(w) # 0
    BY <1>1, <1>5, EmptySeq
  <2>2. 1 \in 1 .. Len(w) /\ Len(w) - 1 \in Nat /\ Len(w) - 1 <= Len(w)
    BY <2>1, <1>1
  <2> QED BY <2>2, <1>4 DEF Front
<1>6. Trimmed(w) \in Inputs
  <2> DEFINE solid == {i \in DOMAIN w : w[i] # Blank}
             m == CHOOSE i \in solid : \A j \in solid : i <= j
             n == CHOOSE i \in solid : \A j \in solid : j <= i
  <2>1. CASE solid = {}
    BY <2>1, <1>2 DEF Trimmed
  <2>2. CASE solid # {}
    <3>1. DOMAIN w = 1 .. Len(w)
      BY <1>1, LenProperties
    <3>2. solid \subseteq Nat /\ \A i \in solid : i \in 1 .. Len(w)
      BY <3>1, <1>1
    <3>3. Trimmed(w) = SubSeq(w, m, n)
      BY <2>2 DEF Trimmed
    <3> HIDE DEF solid
    <3>4. m \in solid
      BY <2>2, <3>2, LeastOf DEF Min
    <3>5. n \in solid
      <4> DEFINE I == {Len(w) - i : i \in solid}
      <4>6. \A i \in solid : Len(w) - i \in Nat
        BY <3>2, <1>1
      <4>1. I \subseteq Nat /\ I # {}
        BY <2>2, <4>6
      <4> HIDE DEF I
      <4>2. Min(I) \in I /\ \A i \in I : Min(I) <= i
        BY <4>1, LeastOf
      <4>3. PICK k \in solid : Min(I) = Len(w) - k
        BY <4>2 DEF I
      <4>4. \A j \in solid : Len(w) - k <= Len(w) - j
        BY <4>2, <4>3 DEF I
      <4>5. \A j \in solid : j <= k
        BY <4>4, <3>2, <1>1
      <4> QED BY <4>5
    <3> HIDE DEF m, n
    <3>6. m \in 1 .. Len(w) /\ n \in Nat /\ n <= Len(w)
      BY <3>2, <3>4, <3>5
    <3> QED BY <3>3, <3>6, <1>4
  <2> QED BY <2>1, <2>2
<1> QED BY <1>2, <1>3, <1>5, <1>6

(* Publishing appends a revision of the file, with a number that the bound     *)
(* allows.                                                                   *)
LEMMA MadeTyped ==
  ASSUME NEW s, RepoTyped(s), Len(s) < MaxRevisions,
         NEW path \in Paths, NEW kind \in Kinds, NEW epoch \in Epochs, NEW text \in Texts
  PROVE  LET t == Made(s, path, kind, epoch, text) IN
         /\ RepoTyped(t) /\ Len(t) = Len(s) + 1
         /\ t[Len(t)] \in Revisions /\ t[Len(t)].path = path
<1> DEFINE r == [path |-> path, number |-> NumberOf(s, path), kind |-> kind,
                 epoch |-> epoch, text |-> text]
           t == Made(s, path, kind, epoch, text)
<1>1. s \in Seq(Revisions) /\ DOMAIN s = 1 .. Len(s) /\ Len(s) \in Nat
  BY LenProperties DEF RepoTyped
<1>2. NumberOf(s, path) \in 1 .. MaxRevisions
  <2>1. IndicesOf(s, path) \in SUBSET (1 .. Len(s))
    BY <1>1 DEF IndicesOf
  <2>2. IsFiniteSet(1 .. Len(s)) /\ Cardinality(1 .. Len(s)) = Len(s)
    BY <1>1, FS_Interval
  <2>3. Cardinality(IndicesOf(s, path)) <= Len(s) /\ Cardinality(IndicesOf(s, path)) \in Nat
    BY <2>1, <2>2, FS_Subset, FS_CardinalityType
  <2> QED BY <2>3, <1>1, Bounds DEF NumberOf
<1>3. r \in Revisions /\ r.path = path
  BY <1>2 DEF Revisions
<1>4. t = Append(s, r)
  BY DEF Made
<1> HIDE DEF r, t
<1>5. t \in Seq(Revisions) /\ Len(t) = Len(s) + 1 /\ t[Len(s) + 1] = r
  BY <1>1, <1>3, <1>4, AppendProperties
<1> QED BY <1>1, <1>3, <1>5, Bounds DEF RepoTyped, t

(* It is one longer in any case.                                             *)
LEMMA MadeIsLonger ==
  ASSUME NEW T, NEW s \in Seq(T), NEW path, NEW kind, NEW epoch, NEW text
  PROVE  \E U : /\ Made(s, path, kind, epoch, text) \in Seq(U)
                /\ Len(Made(s, path, kind, epoch, text)) = Len(s) + 1
<1> DEFINE q == [path |-> path, number |-> NumberOf(s, path), kind |-> kind,
                 epoch |-> epoch, text |-> text]
<1>1. s \in Seq(T \union {q})
  BY SeqMonotonic
<1> HIDE DEF q
<1>2. Append(s, q) \in Seq(T \union {q}) /\ Len(Append(s, q)) = Len(s) + 1
  BY <1>1, AppendProperties
<1> QED BY <1>2 DEF Made, q

(* What restore_revision publishes first, if its bound allows it.            *)
LEMMA SyncedTyped ==
  ASSUME NEW s, RepoTyped(s), NEW path \in Paths, NEW t \in Synced(s, path),
         Len(t) <= MaxRevisions
  PROVE  RepoTyped(t) /\ Len(t) = Len(s) + 1
<1>1. PICK epoch \in Epochs, live \in Texts : t = Made(s, path, "Edit", epoch, live)
  BY DEF Synced
<1>2. s \in Seq(Revisions) /\ Len(s) \in Nat /\ "Edit" \in Kinds
  BY LenProperties DEF RepoTyped, Kinds
<1>3. Len(t) = Len(s) + 1
  BY <1>1, <1>2, MadeIsLonger
<1>4. Len(s) < MaxRevisions
  BY <1>2, <1>3, Bounds
<1> QED BY <1>1, <1>2, <1>4, MadeTyped

(* One revision of the file or two are published; the last is the restored.  *)
Words(s, id, rendered) == IF rendered THEN {Found(s, id).text} ELSE Texts
LEMMA RepublishedIs ==
  ASSUME NEW s, NEW id, NEW rendered, NEW new \in Republished(s, id, rendered)
  PROVE  \E u \in {s} \union Synced(s, id[1]), kind \in Kinds, epoch \in Epochs,
            text \in Words(s, id, rendered) : new = Made(u, id[1], kind, epoch, text)
BY DEF Republished, Words

LEMMA RepublishedTyped ==
  ASSUME NEW s, RepoTyped(s), NEW id \in Listed(s), id[1] \in Paths, NEW rendered,
         NEW new \in Republished(s, id, rendered), Len(new) <= MaxRevisions
  PROVE  RepoTyped(new) /\ Last(new).path = id[1] /\ new # <<>>
<1>1. PICK u \in {s} \union Synced(s, id[1]), kind \in Kinds, epoch \in Epochs,
           text \in Words(s, id, rendered) : new = Made(u, id[1], kind, epoch, text)
  BY RepublishedIs
<1>2. s \in Seq(Revisions) /\ Len(s) \in Nat
  BY LenProperties DEF RepoTyped
<1>3. text \in Texts
  BY <1>2, FoundIn DEF Revisions, Words
<1>4. ASSUME NEW T, u \in Seq(T) PROVE Len(u) < MaxRevisions /\ Len(u) \in Nat
  BY <1>1, <1>4, MadeIsLonger, LenProperties, Bounds
<1>5. RepoTyped(u) /\ Len(u) < MaxRevisions
  <2>1. CASE u = s
    BY <2>1, <1>2, <1>4
  <2>2. CASE u \in Synced(s, id[1])
    <3>1. PICK e \in Epochs, live \in Texts : u = Made(s, id[1], "Edit", e, live)
      BY <2>2 DEF Synced
    <3>2. PICK U : u \in Seq(U)
      BY <3>1, <1>2, MadeIsLonger
    <3>3. Len(u) < MaxRevisions /\ Len(u) \in Nat
      BY <3>2, <1>4
    <3> QED BY <3>3, <2>2, SyncedTyped, Bounds
  <2> QED BY <1>1, <2>1, <2>2
<1>6. RepoTyped(new) /\ Len(new) = Len(u) + 1 /\ new[Len(new)].path = id[1]
  BY <1>1, <1>3, <1>5, MadeTyped
<1>7. new # <<>>
  BY <1>5, <1>6, LenProperties, EmptySeq DEF RepoTyped
<1> QED BY <1>6, <1>7 DEF Last

(* A revision that is withdrawn was the last one.                            *)
LEMMA FrontTyped == ASSUME NEW s, RepoTyped(s) PROVE RepoTyped(Front(s))
<1>1. s \in Seq(Revisions) /\ Len(s) \in Nat /\ Len(s) <= MaxRevisions
  BY LenProperties DEF RepoTyped
<1>2. \A i \in 1 .. Len(s) - 1 : s[i] \in Revisions
  BY <1>1, ElementOfSeq
<1>3. /\ SubSeq(s, 1, Len(s) - 1) \in Seq(Revisions)
      /\ Len(SubSeq(s, 1, Len(s) - 1))
           = IF 1 <= Len(s) - 1 THEN Len(s) - 1 - 1 + 1 ELSE 0
  BY <1>1, <1>2, SubSeqProperties
<1> QED BY <1>1, <1>3, Bounds DEF RepoTyped, Front

-----------------------------------------------------------------------------
(* The handlers.  Each works, and most leave the selection of the history     *)
(* alone, whether they succeed or not.                                       *)

(* One that touches neither the lists nor the diff.                          *)
LEMMA ControlChanged ==
  ASSUME NEW a, Readable(a),
         NEW b, IsApp(b), SameLists(a, b), ControlTyped(b), ItemsTyped(b)
  PROVE  /\ Readable(b) /\ SameFile(a, b) /\ ResultsKept(a, b) /\ SelectedId(b) = SelectedId(a)
         /\ SameDiff(a, b) => Steady(a, b, {})
<1>1. ListsTyped(b) /\ AllInside(b) /\ OneFile(b)
  BY PartsKept DEF Readable, SameLists, SameHistory
<1>2. Readable(b) /\ SameFile(a, b) /\ ResultsKept(a, b) /\ SelectedId(b) = SelectedId(a)
  BY <1>1, PartsKept DEF Readable, SameLists, SameHistory
<1> QED BY <1>2 DEF Steady, Works, Kept

(* One that touches the tab or what is typed and then shows a diff.          *)
LEMMA ControlThenDrawn ==
  ASSUME NEW a, Readable(a),
         NEW c, IsApp(c), SameLists(a, c), ControlTyped(c), ItemsTyped(c),
         NEW b, NEW F, Drawn(c, b, F)
  PROVE  Steady(a, b, F)
BY ControlChanged, ThenDrawn DEF Steady

(* Where a handler failed, its error is recorded.                            *)
LEMMA ErrorRecorded ==
  ASSUME NEW a, Readable(a)
  PROVE  Readable(record_error(a)) /\ SelectedId(record_error(a)) = SelectedId(a)
<1> DEFINE b == record_error(a)
<1>1. IsApp(b) /\ SameLists(a, b) /\ ControlTyped(b) /\ ItemsTyped(b)
  BY DEF record_error, Readable, IsApp, AppFields, SameLists, SameHistory, SameFile, SameTree,
         SameTimeline, SameResults, ControlTyped, ItemsTyped, Modes
<1> HIDE DEF b
<1>2. Readable(b) /\ SelectedId(b) = SelectedId(a)
  BY <1>1, ControlChanged
<1> QED BY <1>2 DEF b

(* Tab: another tab is shown.                                                *)
LEMMA TabActivated ==
  ASSUME NEW a, Readable(a), NEW tab \in Tabs, NEW d, d = [a EXCEPT !.main_tab = tab],
         repo \in Seq(Revisions)
  PROVE  Steady(a, activate_tab(d), TabFails(d, repo))
<1> DEFINE m == IF tab = "Search" THEN "SearchInput" ELSE "Main"
           c == [a EXCEPT !.main_tab = tab, !.mode = m]
<1>1. m \in Modes
  BY DEF Modes
<1> HIDE DEF m
<1>2. /\ IsApp(c) /\ SameLists(a, c) /\ ControlTyped(c) /\ ItemsTyped(c) /\ c.main_tab = tab
      /\ IsApp(d) /\ SameLists(a, d) /\ ControlTyped(d) /\ ItemsTyped(d) /\ d.main_tab = tab
  BY <1>1 DEF Readable, IsApp, AppFields, SameLists, SameHistory, SameFile, SameTree,
              SameTimeline, SameResults, ControlTyped, ItemsTyped
<1>3. activate_tab(d) = ShowTab(c, repo)
  <2>1. d.main_tab = tab
    BY DEF Readable, IsApp, AppFields
  <2>2. [d EXCEPT !.mode = m] = c
    BY DEF Readable, IsApp, AppFields
  <2> HIDE DEF c
  <2> QED BY <2>1, <2>2 DEF activate_tab, m
<1> HIDE DEF c
<1>4. ListsTyped(c) /\ ListsTyped(d)
  BY <1>2, PartsKept DEF Readable
<1>5. Drawn(c, ShowTab(c, repo), TabFails(c, repo)) /\ Drawn(d, ShowTab(d, repo), TabFails(d, repo))
  BY <1>2, <1>4, TabDrawn
<1>6. /\ Steady(a, ShowTab(c, repo), TabFails(c, repo))
      /\ Steady(a, ShowTab(d, repo), TabFails(d, repo))
  BY <1>2, <1>5, ControlThenDrawn
<1> QED BY <1>3, <1>6 DEF Steady, Works

(* Esc.                                                                      *)
LEMMA EscapedSteady ==
  ASSUME NEW a, Readable(a)
  PROVE  Steady(a, Escaped(a), {})
<1>1. Escaped(a) = [a EXCEPT !.input = <<>>, !.mode = "Main"]
      \/ Escaped(a) = [a EXCEPT !.mode = a.filter_origin]
      \/ Escaped(a) = [a EXCEPT !.mode = a.back_mode]
      \/ Escaped(a) = [a EXCEPT !.mode = "Main"]
  BY Zenon DEF Escaped
<1>2. "Main" \in Modes /\ a.filter_origin \in Modes /\ a.back_mode \in Modes /\ <<>> \in Inputs
  BY EmptyInput DEF Modes, Readable, ControlTyped
<1>3. ASSUME NEW m \in Modes, NEW b, b = [a EXCEPT !.mode = m] PROVE Steady(a, b, {})
  <2>1. /\ IsApp(b) /\ SameLists(a, b) /\ SameDiff(a, b) /\ ItemsTyped(b)
        /\ b.main_tab = a.main_tab /\ b.panel = a.panel /\ b.input = a.input
        /\ b.back_mode = a.back_mode /\ b.filter_origin = a.filter_origin
        /\ b.filters = a.filters /\ b.mode = m
    BY <1>3 DEF Readable, IsApp, AppFields, SameLists, SameHistory, SameFile, SameTree,
                SameTimeline, SameResults, ItemsTyped, SameDiff
  <2>2. ControlTyped(b)
    BY <2>1 DEF Readable, ControlTyped
  <2> QED BY <2>1, <2>2, ControlChanged
<1>4. ASSUME NEW b, b = [a EXCEPT !.input = <<>>, !.mode = "Main"] PROVE Steady(a, b, {})
  <2> DEFINE e == <<>>
  <2>0. b = [a EXCEPT !.input = e, !.mode = "Main"] /\ e \in Inputs
    BY <1>4, <1>2
  <2> HIDE DEF e
  <2>1. /\ IsApp(b) /\ SameLists(a, b) /\ SameDiff(a, b) /\ ItemsTyped(b)
        /\ b.main_tab = a.main_tab /\ b.panel = a.panel /\ b.input = e
        /\ b.back_mode = a.back_mode /\ b.filter_origin = a.filter_origin
        /\ b.filters = a.filters /\ b.mode = "Main"
    BY <2>0 DEF Readable, IsApp, AppFields, SameLists, SameHistory, SameFile, SameTree,
                SameTimeline, SameResults, ItemsTyped, SameDiff
  <2>2. ControlTyped(b)
    BY <2>0, <2>1, <1>2 DEF Readable, ControlTyped
  <2> QED BY <2>1, <2>2, ControlChanged
<1> QED BY <1>1, <1>2, <1>3, <1>4

(* A key that does nothing, and Enter on an item.                            *)
LEMMA InspectSteady ==
  ASSUME NEW a, Readable(a)
  PROVE  Steady(a, a, {}) /\ Steady(a, inspect_selected(a), InspectFails(a))
<1>1. Steady(a, a, {})
  BY DEF Steady, Works, Kept, SameFile, SameDiff, ResultsKept
<1> DEFINE b == [a EXCEPT !.inspect = a.selected_item, !.back_mode = a.mode, !.mode = "Inspect"]
<1>2. IsApp(b) /\ SameLists(a, b) /\ SameDiff(a, b) /\ ControlTyped(b) /\ ItemsTyped(b)
  <2>1. "Inspect" \in Modes
    BY DEF Modes
  <2> QED BY <2>1 DEF Readable, IsApp, AppFields, SameLists, SameHistory, SameFile, SameTree,
                      SameTimeline, SameResults, ControlTyped, ItemsTyped, SameDiff
<1>3. inspect_selected(a) = a \/ inspect_selected(a) = b
  BY DEF inspect_selected
<1> HIDE DEF b
<1>4. Steady(a, b, {})
  BY <1>2, ControlChanged
<1>5. \A d \in InspectFails(a) : d = a
  BY DEF InspectFails
<1> QED BY <1>1, <1>3, <1>4, <1>5 DEF Steady, Works

(* Another row of the timeline is selected, of all its rows or of the changes. *)
LEMMA TimelineMoved ==
  ASSUME NEW a, Readable(a),
         NEW c, IsApp(c), SameHistory(a, c), SameTree(a, c), SameResults(a, c),
         ControlTyped(c), ItemsTyped(c), c.timeline = a.timeline,
         c.timeline_index \in Nat, Inside(Visible(c), c.timeline_index)
  PROVE  Steady(a, select_timeline(c), TimelineFails(c))
<1>1. ListsTyped(c)
  BY DEF Readable, ListsTyped, SameHistory, SameFile, SameTree, SameResults
<1>2. AllInside(c)
  BY DEF Readable, AllInside, SameHistory, SameFile, SameTree
<1>3. Readable(c) /\ SameFile(a, c) /\ ResultsKept(a, c) /\ SelectedId(c) = SelectedId(a)
  BY <1>1, <1>2, PartsKept DEF Readable, SameHistory
<1>4. Drawn(c, select_timeline(c), TimelineFails(c))
  BY <1>1, TimelineDrawn
<1> QED BY <1>3, <1>4, ThenDrawn DEF Steady

(* Another result is selected.                                               *)
LEMMA ResultMoved ==
  ASSUME NEW a, Readable(a), NEW s \in Seq(Revisions), NEW down \in BOOLEAN
  PROVE  LET c == [a EXCEPT !.search_index = Moved(@, Len(a.search_results), down)] IN
         Steady(a, select_search_result(c, s), ResultFails(c, s))
<1> DEFINE i == Moved(a.search_index, Len(a.search_results), down)
           c == [a EXCEPT !.search_index = i]
<1>1. i \in Nat /\ (ResultInRange(a) => Within(a.search_results, i))
  BY MovedInside DEF Readable, ListsTyped, ResultInRange
<1> HIDE DEF i
<1>2. /\ IsApp(c) /\ SameHistory(a, c) /\ SameTree(a, c) /\ SameTimeline(a, c)
      /\ SameControl(a, c) /\ SameItems(a, c)
      /\ c.search_results = a.search_results /\ c.search_index = i
  BY DEF Readable, IsApp, AppFields, SameHistory, SameFile, SameTree, SameTimeline, SameControl,
         SameItems, SameDiff
<1> HIDE DEF c
<1>3. ListsTyped(c)
  BY <1>1, <1>2 DEF Readable, ListsTyped, SameHistory, SameFile, SameTree, SameTimeline
<1>4. Visible(c) = Visible(a)
  BY <1>2, PartsKept
<1>5. AllInside(c)
  BY <1>2, <1>4 DEF Readable, AllInside, SameHistory, SameFile, SameTree, SameTimeline
<1>6. Readable(c) /\ SameFile(a, c) /\ SelectedId(c) = SelectedId(a)
  BY <1>2, <1>3, <1>5, PartsKept DEF Readable, SameHistory
<1>7. ResultsKept(a, c)
  BY <1>1, <1>2 DEF ResultsKept, ResultInRange
<1>8. Drawn(c, select_search_result(c, s), ResultFails(c, s))
  BY <1>6, ResultDrawn DEF Readable
<1>9. Steady(a, select_search_result(c, s), ResultFails(c, s))
  BY <1>6, <1>7, <1>8, ThenDrawn DEF Steady
<1> QED BY <1>9 DEF c, i

(* The history is moved in, and shown; the label is the revision selected.    *)
LEMMA HistoryMoved ==
  ASSUME NEW a, Readable(a), NEW i \in Nat, Inside(a.revisions, i),
         NEW c, c = [a EXCEPT !.revision_index = i]
  PROVE  LET b == update_diff(c) IN
         /\ Works(a, b, HistoryFails(c)) /\ Labelled(b)
         /\ HistoryOfFile(a) => HistoryOfFile(b)
         /\ SameResults(a, b)
         /\ b.revisions = a.revisions /\ b.revision_index = i
         /\ HasRevision(b) /\ b.diff # NoDiff => b.diff_context = SelectedId(b)
<1> DEFINE b == update_diff(c)
<1>1. /\ IsApp(c) /\ SameFile(a, c) /\ SameTree(a, c) /\ SameTimeline(a, c) /\ SameResults(a, c)
      /\ SameControl(a, c) /\ SameItems(a, c) /\ c.revision_index = i
  BY DEF Readable, IsApp, AppFields, SameFile, SameTree, SameTimeline, SameResults, SameControl,
         SameItems, SameDiff
<1>2. ListsTyped(c)
  BY <1>1 DEF Readable, ListsTyped, SameFile, SameTree, SameTimeline, SameResults
<1>3. Visible(c) = Visible(a)
  BY <1>1, PartsKept
<1>4. AllInside(c)
  BY <1>1, <1>3 DEF Readable, AllInside, SameFile, SameTree, SameTimeline
<1>5. Readable(c) /\ ResultsKept(a, c)
  BY <1>1, <1>2, <1>4, PartsKept DEF Readable
<1>6. HistoryOfFile(a) => HistoryOfFile(c)
  BY <1>1 DEF SameFile, HistoryOfFile, selected_file
<1>7. /\ Drawn(c, b, HistoryFails(c))
      /\ HasRevision(c) /\ b.diff # NoDiff => b.diff_context = SelectedId(c)
  BY <1>2, <1>5, HistoryDrawn DEF Readable
<1> HIDE DEF b
<1>8. /\ Works(a, b, HistoryFails(c)) /\ (HistoryOfFile(c) => HistoryOfFile(b))
      /\ SelectedId(b) = SelectedId(c) /\ SameHistory(c, b)
  BY <1>1, <1>5, <1>7, ThenDrawn
<1>9. SameResults(a, b) /\ Labelled(b)
  BY <1>1, <1>7 DEF Drawn, Redraws, SameLists, SameResults
<1>10. b.revisions = a.revisions /\ b.revision_index = i /\ (HasRevision(b) => HasRevision(c))
  BY <1>1, <1>8 DEF SameHistory, SameFile, HasRevision
<1> QED BY <1>6, <1>7, <1>8, <1>9, <1>10 DEF b

(* What is changed first, in rows that Kept does not speak of, does not count. *)
LEMMA KeptFrom ==
  ASSUME NEW a, NEW c, SameFile(a, c), SameDiff(a, c), SameResults(a, c),
         NEW b, NEW F, Works(c, b, F)
  PROVE  Works(a, b, F)
BY DEF Works, Kept, SameFile, SameDiff, SameResults, ResultsKept, ResultInRange

(* Revisions are marked, or compared to the current state.                   *)
LEMMA MarkedSteady ==
  ASSUME NEW a, Readable(a), NEW current, NEW mark \in 1 .. MaxRevisions \union {None},
         NEW c, c = [a EXCEPT !.marked_revision = mark, !.compare_current = current]
  PROVE  Steady(a, update_diff(c), HistoryFails(c))
<1>1. IsApp(c) /\ SameLists(a, c) /\ ControlTyped(c) /\ ItemsTyped(c)
  BY DEF Readable, IsApp, AppFields, SameLists, SameHistory, SameFile, SameTree, SameTimeline,
         SameResults, ControlTyped, ItemsTyped
<1>2. ListsTyped(c)
  BY <1>1, PartsKept DEF Readable
<1>3. Drawn(c, update_diff(c), HistoryFails(c))
  BY <1>1, <1>2, HistoryDrawn
<1> QED BY <1>1, <1>3, ControlThenDrawn

(* f on the timeline keeps its row in the shorter list,                      *)
LEMMA FilteredSteady ==
  ASSUME NEW a, Readable(a)
  PROVE  Steady(a, select_timeline(Filtered(a)), TimelineFails(Filtered(a)))
<1> DEFINE only == ~ a.timeline_changes_only
           b == [a EXCEPT !.timeline_changes_only = only]
           i == Clamped(b.timeline_index, Len(Visible(b)))
           c == [b EXCEPT !.timeline_index = i]
<1>1. Filtered(a) = c
  BY DEF Filtered
<1> HIDE DEF only
<1>2. b.timeline_index = a.timeline_index /\ b.timeline = a.timeline
  BY DEF Readable, IsApp, AppFields
<1>3. Visible(b) \in Seq(Revisions)
  BY <1>2, VisibleRows DEF Readable, ListsTyped
<1>4. i \in Nat /\ Inside(Visible(b), i)
  BY <1>2, <1>3, MovedInside DEF Readable, ListsTyped
<1> HIDE DEF i
<1>5. Visible(c) = Visible(b)
  BY DEF Visible, Readable, IsApp, AppFields
<1>6. /\ IsApp(c) /\ SameHistory(a, c) /\ SameTree(a, c) /\ SameResults(a, c)
      /\ SameControl(a, c) /\ SameItems(a, c)
      /\ c.timeline = a.timeline /\ c.timeline_index = i
  BY DEF Readable, IsApp, AppFields, SameHistory, SameFile, SameTree, SameResults, SameControl,
         SameItems, SameDiff
<1> HIDE DEF c, b
<1>7. ControlTyped(c) /\ ItemsTyped(c) /\ Inside(Visible(c), c.timeline_index)
  BY <1>4, <1>5, <1>6, PartsKept DEF Readable
<1>8. Steady(a, select_timeline(c), TimelineFails(c))
  BY <1>4, <1>6, <1>7, TimelineMoved
<1> QED BY <1>1, <1>8

(* and g shows the timeline.                                                 *)
LEMMA HomeSteady ==
  ASSUME NEW a, Readable(a), NEW c, c = [a EXCEPT !.main_tab = "Timeline", !.mode = "Main"]
  PROVE  Steady(a, select_timeline(c), TimelineFails(c))
<1>1. "Timeline" \in Tabs /\ "Main" \in Modes
  BY DEF Tabs, Modes
<1>2. IsApp(c) /\ SameLists(a, c) /\ ControlTyped(c) /\ ItemsTyped(c)
  BY <1>1 DEF Readable, IsApp, AppFields, SameLists, SameHistory, SameFile, SameTree,
              SameTimeline, SameResults, ControlTyped, ItemsTyped
<1>3. ListsTyped(c)
  BY <1>2, PartsKept DEF Readable
<1>4. Drawn(c, select_timeline(c), TimelineFails(c))
  BY <1>2, <1>3, TimelineDrawn
<1> QED BY <1>2, <1>4, ControlThenDrawn

(* A directory is opened or closed: its row is looked for in the new tree.    *)
LEMMA ToggleSteady ==
  ASSUME NEW a, Readable(a), NEW expand
  PROVE  Steady(a, toggle_tree(a, expand), {})
<1>1. CASE ~ Has(a.tree, a.tree_index)
  BY <1>1, InspectSteady DEF toggle_tree
<1>2. CASE Has(a.tree, a.tree_index)
  <2> DEFINE node == Row(a.tree, a.tree_index)
             d == IF node.directory THEN node.path ELSE DirOf[node.path]
             e == IF expand THEN a.expanded \union {d} ELSE a.expanded \ {d}
             c == [a EXCEPT !.expanded = e]
             r == rebuild_tree(c)
             I == {k \in DOMAIN r.tree : r.tree[k].path = d}
             b == [r EXCEPT !.tree_index = First(I)]
  <2>1. /\ IsApp(c) /\ SameHistory(a, c) /\ SameTimeline(a, c) /\ SameResults(a, c)
        /\ SameControl(a, c) /\ SameItems(a, c)
    <3> HIDE DEF e
    <3> QED BY DEF Readable, IsApp, AppFields, SameHistory, SameFile, SameTimeline, SameResults,
                   SameControl, SameItems, SameDiff
  <2>2. toggle_tree(a, expand) = b
    BY <1>2 DEF toggle_tree, Position
  <2> HIDE DEF c
  <2>3. c.files \in Seq(Paths)
    BY <2>1 DEF SameHistory, SameFile, Readable, ListsTyped
  <2>4. /\ IsApp(r) /\ SameHistory(c, r) /\ SameTimeline(c, r) /\ SameResults(c, r)
        /\ SameControl(c, r) /\ SameItems(c, r) /\ r.tree \in Seq(Nodes)
    BY <2>1, <2>3, TreeRebuilt
  <2>5. I \subseteq DOMAIN r.tree
    OBVIOUS
  <2> HIDE DEF r, I
  <2>6. First(I) \in Nat /\ Inside(r.tree, First(I))
    BY <2>4, <2>5, FirstInside
  <2>7. /\ IsApp(b) /\ SameHistory(a, b) /\ SameTimeline(a, b) /\ SameResults(a, b)
        /\ SameControl(a, b) /\ SameItems(a, b)
        /\ b.tree = r.tree /\ b.tree_index = First(I)
    BY <2>1, <2>4 DEF IsApp, AppFields, SameHistory, SameFile, SameTimeline, SameResults,
                      SameControl, SameItems, SameDiff
  <2> HIDE DEF b
  <2>8. Visible(b) = Visible(a)
    BY <2>7, PartsKept
  <2>9. ListsTyped(b)
    BY <2>4, <2>6, <2>7 DEF Readable, ListsTyped, SameHistory, SameFile, SameTimeline, SameResults
  <2>10. AllInside(b)
    BY <2>6, <2>7, <2>8 DEF Readable, AllInside, SameHistory, SameFile, SameTimeline, Inside,
                            Within
  <2>11. ControlTyped(b) /\ ItemsTyped(b) /\ OneFile(b) /\ SameFile(a, b) /\ ResultsKept(a, b)
         /\ SelectedId(b) = SelectedId(a) /\ SameDiff(a, b)
    BY <2>7, PartsKept DEF Readable, SameHistory, SameItems
  <2>12. Readable(b)
    BY <2>7, <2>9, <2>10, <2>11 DEF Readable
  <2> QED BY <2>2, <2>11, <2>12 DEF Steady, Works, Kept
<1> QED BY <1>1, <1>2

(* The file of the row of the tree is selected, and its history read: if that  *)
(* fails, the history may be the one before.                                 *)
LEMMA TreeFileWorks ==
  ASSUME NEW a, NEW s, s \in Seq(Revisions), Readable(a)
  PROVE  Works(a, select_tree_file(a, s), TreeFileFails(a, s))
<1>1. CASE ~ OnFile(a)
  <2>1. Works(a, a, {})
    BY InspectSteady DEF Steady
  <2> QED BY <1>1, <2>1 DEF select_tree_file, TreeFileFails
<1>2. CASE OnFile(a)
  <2> DEFINE I == {k \in DOMAIN a.files : a.files[k] = Row(a.tree, a.tree_index).path}
             c == [a EXCEPT !.revision_index = 0, !.file_index = First(I)]
             b == refresh(c, s)
  <2>1. c = TreeFile(a)
    BY DEF TreeFile, Position
  <2>2. I \subseteq DOMAIN a.files
    OBVIOUS
  <2> HIDE DEF I
  <2>3. First(I) \in Nat /\ Inside(a.files, First(I))
    BY <2>2, FirstInside DEF Readable, ListsTyped
  <2>4. /\ IsApp(c) /\ SameTree(a, c) /\ SameTimeline(a, c) /\ SameResults(a, c)
        /\ SameControl(a, c) /\ SameItems(a, c)
        /\ c.files = a.files /\ c.file_index = First(I)
        /\ c.revisions = a.revisions /\ c.revision_index = 0
    BY DEF Readable, IsApp, AppFields, SameTree, SameTimeline, SameResults, SameControl,
           SameItems, SameDiff
  <2> HIDE DEF c
  <2>5. Inside(a.revisions, 0)
    BY LenProperties, EmptySeq DEF Readable, ListsTyped, Inside, Has
  <2>6. Visible(c) = Visible(a)
    BY <2>4, PartsKept
  <2>7. ListsTyped(c) /\ AllInside(c)
    BY <2>3, <2>4, <2>5, <2>6 DEF Readable, ListsTyped, AllInside, SameTree, SameTimeline,
                                  SameResults
  <2>8. ControlTyped(c) /\ ItemsTyped(c) /\ OneFile(c)
    BY <2>4, PartsKept DEF Readable, OneFile
  <2>9. Readable(c)
    BY <2>4, <2>7, <2>8 DEF Readable
  <2>10. /\ Works(c, b, RefreshFails(c, s)) /\ HistoryOfFile(b) /\ Labelled(b)
         /\ SameResults(c, b)
    BY <2>9, RefreshWorks
  <2> HIDE DEF b
  <2>11. ResultsKept(a, b)
    BY <2>4, <2>10 DEF SameResults, ResultsKept, ResultInRange
  <2>12. Works(a, b, RefreshFails(c, s))
    BY <2>10, <2>11 DEF Works, Kept
  <2> QED BY <1>2, <2>1, <2>12 DEF select_tree_file, TreeFileFails, b
<1> QED BY <1>1, <1>2

(* The row of the tree is moved first.                                       *)
LEMMA FilesMoved ==
  ASSUME NEW a, NEW s, s \in Seq(Revisions), Readable(a), NEW down \in BOOLEAN,
         NEW c, c = [a EXCEPT !.tree_index = Moved(a.tree_index, Len(a.tree), down)]
  PROVE  Works(a, select_tree_file(c, s), TreeFileFails(c, s))
<1> DEFINE i == Moved(a.tree_index, Len(a.tree), down)
<1>1. i \in Nat /\ Within(a.tree, i)
  BY MovedInside DEF Readable, ListsTyped, AllInside
<1>2. c = [a EXCEPT !.tree_index = i]
  OBVIOUS
<1> HIDE DEF i
<1>3. /\ IsApp(c) /\ SameHistory(a, c) /\ SameTimeline(a, c) /\ SameResults(a, c)
      /\ SameControl(a, c) /\ SameItems(a, c) /\ c.tree = a.tree /\ c.tree_index = i
  BY <1>2 DEF Readable, IsApp, AppFields, SameHistory, SameFile, SameTimeline, SameResults,
              SameControl, SameItems, SameDiff
<1>4. Visible(c) = Visible(a)
  BY <1>3, PartsKept
<1>5. ListsTyped(c) /\ AllInside(c)
  BY <1>1, <1>3, <1>4 DEF Readable, ListsTyped, AllInside, SameHistory, SameFile, SameTimeline,
                          SameResults
<1>6. ControlTyped(c) /\ ItemsTyped(c) /\ OneFile(c) /\ SameFile(a, c) /\ SameDiff(a, c)
  BY <1>3, PartsKept DEF Readable, SameHistory, SameItems
<1>7. Readable(c)
  BY <1>3, <1>5, <1>6 DEF Readable
<1>8. Works(c, select_tree_file(c, s), TreeFileFails(c, s))
  BY <1>7, TreeFileWorks
<1> QED BY <1>3, <1>6, <1>8, KeptFrom

(* The results are those of what is typed, the first of them selected.        *)
Listing(a, list, tab) ==
  [a EXCEPT !.search_results = list, !.search_index = 0, !.main_tab = tab]
LEMMA ResultsRead ==
  ASSUME NEW a, Readable(a), NEW list \in Seq(Revisions), NEW tab \in Tabs,
         NEW c, c = Listing(a, list, tab)
  PROVE  Readable(c) /\ SameFile(a, c) /\ ResultsKept(a, c) /\ SelectedId(c) = SelectedId(a)
<1>1. /\ IsApp(c) /\ SameHistory(a, c) /\ SameTree(a, c) /\ SameTimeline(a, c) /\ SameItems(a, c)
      /\ c.search_results = list /\ c.search_index = 0
  BY DEF Listing, Readable, IsApp, AppFields, SameHistory, SameFile, SameTree, SameTimeline,
         SameItems, SameDiff
<1>2. ControlTyped(c)
  BY DEF Listing, Readable, IsApp, AppFields, ControlTyped
<1>3. Inside(list, 0) /\ Within(list, 0)
  BY MovedInside
<1>4. Visible(c) = Visible(a)
  BY <1>1, PartsKept
<1>5. ListsTyped(c)
  BY <1>1 DEF Readable, ListsTyped, SameHistory, SameFile, SameTree, SameTimeline
<1>6. AllInside(c)
  BY <1>1, <1>4 DEF Readable, AllInside, SameHistory, SameFile, SameTree, SameTimeline
<1>7. ItemsTyped(c) /\ OneFile(c) /\ SameFile(a, c) /\ SelectedId(c) = SelectedId(a)
  BY <1>1, PartsKept DEF Readable, SameHistory
<1>8. ResultsKept(a, c)
  BY <1>1, <1>3 DEF ResultsKept, ResultInRange
<1> QED BY <1>1, <1>2, <1>5, <1>6, <1>7, <1>8 DEF Readable

(* A search that fails has replaced the list only.                           *)
LEMMA ResultsCut ==
  ASSUME NEW a, Readable(a), NEW list \in Seq(Revisions),
         NEW c, c = [a EXCEPT !.search_results = list]
  PROVE  Readable(c) /\ SelectedId(c) = SelectedId(a)
<1>1. /\ IsApp(c) /\ SameHistory(a, c) /\ SameTree(a, c) /\ SameTimeline(a, c) /\ SameItems(a, c)
      /\ SameControl(a, c) /\ c.search_results = list /\ c.search_index = a.search_index
  BY DEF Readable, IsApp, AppFields, SameHistory, SameFile, SameTree, SameTimeline, SameItems,
         SameDiff, SameControl
<1>2. Visible(c) = Visible(a)
  BY <1>1, PartsKept
<1>3. ListsTyped(c)
  BY <1>1 DEF Readable, ListsTyped, SameHistory, SameFile, SameTree, SameTimeline
<1>4. AllInside(c)
  BY <1>1, <1>2 DEF Readable, AllInside, SameHistory, SameFile, SameTree, SameTimeline
<1>5. ControlTyped(c) /\ ItemsTyped(c) /\ OneFile(c) /\ SelectedId(c) = SelectedId(a)
  BY <1>1, PartsKept DEF Readable, SameHistory
<1> QED BY <1>1, <1>3, <1>4, <1>5 DEF Readable

(* search, whether it succeeds or not.                                       *)
LEMMA SearchSteady ==
  ASSUME NEW a, Readable(a), RepoTyped(repo)
  PROVE  Steady(a, search(a), SearchFails(a))
<1> DEFINE found == Rows(repo, Hits(a), [i \in Hits(a) |->
                     <<At(PathOrder, repo[i].path), -repo[i].epoch, -repo[i].number, i>>])
           t == "Search"
           c == [a EXCEPT !.search_results = found, !.search_index = 0, !.main_tab = t]
           place == [i \in DOMAIN repo |-> <<At(PathOrder, repo[i].path), repo[i].number, i>>]
           Until(I) == [a EXCEPT !.search_results = Rows(repo, I, place)]
<1>1. repo \in Seq(Revisions) /\ t \in Tabs /\ Hits(a) \in SUBSET DOMAIN repo
  BY DEF RepoTyped, Tabs, Hits, Searched
<1>2. found \in Seq(Revisions)
  BY <1>1, HitRows
<1>3. Results(a) = c
  BY DEF Results
<1> HIDE DEF found, t
<1>0. c = Listing(a, found, t)
  BY DEF Listing
<1> HIDE DEF c
<1>4. Readable(c) /\ SameFile(a, c) /\ ResultsKept(a, c) /\ SelectedId(c) = SelectedId(a)
  BY <1>0, <1>1, <1>2, ResultsRead
<1>5. Drawn(c, select_search_result(c, repo), ResultFails(c, repo))
  BY <1>1, <1>4, ResultDrawn DEF Readable
<1>6. Steady(a, select_search_result(c, repo), ResultFails(c, repo))
  BY <1>4, <1>5, ThenDrawn DEF Steady
<1>7. search(a) = select_search_result(c, repo)
  BY <1>3 DEF search
<1>8. ASSUME NEW I \in SUBSET DOMAIN repo
      PROVE  Readable(Until(I)) /\ SelectedId(Until(I)) = SelectedId(a)
  <2> DEFINE cut == Rows(repo, I, place)
  <2>1. cut \in Seq(Revisions)
    BY <1>1, HitsBefore
  <2> HIDE DEF cut
  <2>2. /\ Readable([a EXCEPT !.search_results = cut])
        /\ SelectedId([a EXCEPT !.search_results = cut]) = SelectedId(a)
    BY <2>1, ResultsCut
  <2> QED BY <2>2 DEF cut
<1> DEFINE Earlier(i) == {j \in Hits(a) : Sooner(place[j], place[i])}
<1>9. SearchFails(a) = {Until({})} \union {Until(Earlier(i)) : i \in Searched(a)}
                         \union ResultFails(c, repo)
  BY <1>3 DEF SearchFails
<1>10. {} \in SUBSET DOMAIN repo /\ \A i \in Searched(a) : Earlier(i) \in SUBSET DOMAIN repo
  BY <1>1
<1> HIDE DEF Until, Earlier
<1>11. \A d \in SearchFails(a) : Readable(d) /\ SelectedId(d) = SelectedId(a)
  BY <1>6, <1>8, <1>9, <1>10 DEF Steady, Works
<1> QED BY <1>6, <1>7, <1>11 DEF Steady, Works

(* A query typed on: new results, or none.                                   *)
LEMMA QueryTyped ==
  ASSUME NEW a, Readable(a), RepoTyped(repo)
  PROVE  Steady(a, update_incremental_search(a), IF a.input = <<>> THEN {} ELSE SearchFails(a))
<1>1. ASSUME NEW b, NEW F, Steady(a, b, F), NEW c, c = [b EXCEPT !.mode = "SearchInput"]
      PROVE  Steady(a, c, F)
  <2>1. Readable(b)
    BY <1>1 DEF Steady, Works, Kept
  <2>2. "SearchInput" \in Modes
    BY DEF Modes
  <2>3. IsApp(c) /\ SameLists(b, c) /\ SameDiff(b, c) /\ ControlTyped(c) /\ ItemsTyped(c)
    BY <1>1, <2>1, <2>2
       DEF Readable, IsApp, AppFields, SameLists, SameHistory, SameFile, SameTree, SameTimeline,
           SameResults, ControlTyped, ItemsTyped, SameDiff
  <2>4. Readable(c) /\ SelectedId(c) = SelectedId(b) /\ SameFile(b, c)
    BY <2>1, <2>3, ControlChanged
  <2>5. SameFile(a, c) \/ HistoryOfFile(c)
    BY <1>1, <2>4 DEF Steady, Works, Kept, SameFile, HistoryOfFile, selected_file
  <2>6. SameDiff(a, c) \/ Labelled(c)
    BY <1>1, <2>3 DEF Steady, Works, Kept, SameDiff, Labelled
  <2>7. ResultsKept(a, c)
    BY <1>1, <2>3 DEF Steady, Works, Kept, SameLists, SameResults, ResultsKept, ResultInRange
  <2> QED BY <1>1, <2>4, <2>5, <2>6, <2>7 DEF Steady, Works, Kept
<1>2. CASE a.input = <<>>
  <2> DEFINE b == ShowNothing(a)
             e == <<>>
             c == [b EXCEPT !.search_results = e, !.search_index = 0, !.selected_item = NoTarget]
  <2>1. Drawn(a, b, {})
    BY NothingDrawn DEF Readable
  <2>2. ResultsKept(a, a)
    BY DEF ResultsKept
  <2>3. Works(a, b, {}) /\ SelectedId(b) = SelectedId(a) /\ SameHistory(a, b) /\ Labelled(b)
    BY <2>1, <2>2, ThenDrawn DEF SameFile, Drawn
  <2>4. Readable(b)
    BY <2>3 DEF Works, Kept
  <2>5. update_incremental_search(a) = [c EXCEPT !.mode = "SearchInput"]
    BY <1>2 DEF update_incremental_search
  <2> HIDE DEF b
  <2>6. e \in Seq(Revisions) /\ Within(e, 0)
    BY EmptySeq DEF Within
  <2>7. /\ IsApp(c) /\ SameHistory(b, c) /\ SameTree(b, c) /\ SameTimeline(b, c)
        /\ SameControl(b, c) /\ SameDiff(b, c)
        /\ c.search_results = e /\ c.search_index = 0
    BY <2>4 DEF Readable, IsApp, AppFields, SameHistory, SameFile, SameTree, SameTimeline,
                SameControl, SameDiff
  <2>8. ItemsTyped(c)
    BY <2>4 DEF Readable, IsApp, AppFields, ItemsTyped, Targets
  <2> HIDE DEF c, e
  <2>9. Visible(c) = Visible(b)
    BY <2>7, PartsKept
  <2>10. ListsTyped(c)
    BY <2>4, <2>6, <2>7 DEF Readable, ListsTyped, SameHistory, SameFile, SameTree, SameTimeline
  <2>11. AllInside(c)
    BY <2>4, <2>7, <2>9 DEF Readable, AllInside, SameHistory, SameFile, SameTree, SameTimeline
  <2>12. ControlTyped(c) /\ OneFile(c) /\ SelectedId(c) = SelectedId(b)
    BY <2>4, <2>7, PartsKept DEF Readable, SameHistory
  <2>13. Readable(c) /\ SameFile(a, c) /\ SelectedId(c) = SelectedId(a)
    BY <2>3, <2>7, <2>8, <2>10, <2>11, <2>12 DEF Readable, SameHistory, SameFile
  <2>14. Labelled(c) /\ ResultInRange(c)
    BY <2>3, <2>6, <2>7 DEF SameDiff, Labelled, ResultInRange
  <2>15. Steady(a, c, {})
    BY <2>13, <2>14 DEF Steady, Works, Kept, ResultsKept
  <2> QED BY <1>1, <1>2, <2>5, <2>15
<1>3. CASE a.input # <<>>
  <2>1. update_incremental_search(a) = [search(a) EXCEPT !.mode = "SearchInput"]
    BY <1>3 DEF update_incremental_search
  <2> QED BY <1>1, <1>3, <2>1, SearchSteady
<1> QED BY <1>2, <1>3

(* A tag is written and the lists are read anew: the selected revision stays   *)
(* selected while it is listed, if the history is of the selected file.       *)
LEMMA TagSaved ==
  ASSUME NEW a, NEW s, s \in Seq(Revisions), Readable(a),
         NEW c, c = [a EXCEPT !.input = <<>>, !.mode = "Main"]
  PROVE  /\ Works(a, refresh(c, s), RefreshFails(c, s))
         /\ \/ \A d \in RefreshFails(c, s) \union {refresh(c, s)} : SelectedId(d) = SelectedId(a)
            \/ a.revisions = <<>> \/ ~ Agree(a) \/ SelectedId(a) \notin Listed(s)
<1> DEFINE b == refresh(c, s)
           e == <<>>
<1>1. "Main" \in Modes /\ e \in Inputs /\ c = [a EXCEPT !.input = e, !.mode = "Main"]
  BY EmptyInput DEF Modes
<1> HIDE DEF e
<1>2. IsApp(c) /\ SameLists(a, c) /\ SameDiff(a, c) /\ ControlTyped(c) /\ ItemsTyped(c)
  BY <1>1 DEF Readable, IsApp, AppFields, SameLists, SameHistory, SameFile, SameTree,
              SameTimeline, SameResults, ControlTyped, ItemsTyped, SameDiff
<1>3. Readable(c) /\ SelectedId(c) = SelectedId(a) /\ SameFile(a, c)
  BY <1>2, ControlChanged
<1>4. /\ Works(c, b, RefreshFails(c, s))
      /\ \A d \in RefreshFails(c, s) : SelectedId(d) \in {SelectedId(c), SelectedId(b)}
  BY <1>3, RefreshWorks
<1> HIDE DEF b
<1>5. Works(a, b, RefreshFails(c, s))
  BY <1>2, <1>3, <1>4, KeptFrom DEF SameLists
<1>6. HasRevision(c) \/ a.revisions = <<>>
  BY <1>2 DEF Readable, AllInside, Inside, HasRevision, SameLists, SameHistory, SameFile
<1>7. HistoryOfFile(a) => HistoryOfFile(c)
  BY <1>3 DEF SameFile, HistoryOfFile, selected_file
<1>8. Agree(a) => Agree(c)
  BY <1>3, <1>7, AgreeIs
<1>9. HasRevision(c) /\ Agree(c) /\ SelectedId(c) \in Listed(s) => SelectedId(b) = SelectedId(c)
  BY <1>3, RefreshFindsRevision DEF b
<1> QED BY <1>3, <1>4, <1>5, <1>6, <1>8, <1>9 DEF b

(* After a restore the revision that was published last is selected, and the  *)
(* diff is its own.                                                          *)
LEMMA RestoredShows ==
  ASSUME NEW a, NEW s, RepoTyped(s), Readable(a), HasRevision(a),
         s # <<>>, Last(s).path = selected_revision(a).path,
         NEW c, c = [a EXCEPT !.mode = "Main"]
  PROVE  LET b == Restored(c, s)
             d == update_diff(b)
         IN  /\ Works(a, d, RefreshFails(c, s) \union HistoryFails(b))
             /\ Agree(a) => /\ SelectedId(d) = Id(Last(s))
                            /\ d.diff # NoDiff => d.diff_context = Id(Last(s))
<1> DEFINE r == refresh(c, s)
           last == Last(s)
           h == HistoryRowsRead(c, s)
           I == {k \in DOMAIN h : h[k].number = last.number}
           b == [r EXCEPT !.revision_index = First(I)]
           d == update_diff(b)
<1>1. "Main" \in Modes /\ s \in Seq(Revisions)
  BY DEF Modes, RepoTyped
<1>2. IsApp(c) /\ SameLists(a, c) /\ SameDiff(a, c) /\ ControlTyped(c) /\ ItemsTyped(c)
  BY <1>1 DEF Readable, IsApp, AppFields, SameLists, SameHistory, SameFile, SameTree,
              SameTimeline, SameResults, ControlTyped, ItemsTyped, SameDiff
<1>3. Readable(c) /\ SameFile(a, c)
  BY <1>2, ControlChanged
<1>4. /\ Works(c, r, RefreshFails(c, s)) /\ HistoryOfFile(r) /\ SameResults(c, r)
      /\ r.revisions = h
  BY <1>1, <1>3, RefreshWorks
<1>5. Restored(c, s) = b
  BY <1>4 DEF Restored, Position
<1> HIDE DEF r
<1>6. h \in Seq(Revisions) /\ Readable(r)
  BY <1>1, <1>3, <1>4, HistoryRowsInside DEF Works, Kept
<1>7. I \subseteq DOMAIN h
  OBVIOUS
<1> HIDE DEF h, last, I
<1>8. First(I) \in Nat /\ Inside(h, First(I)) /\ (I # {} => First(I) + 1 \in I)
  BY <1>6, <1>7, FirstInside
<1>9. /\ Works(r, d, HistoryFails(b)) /\ Labelled(d) /\ HistoryOfFile(d) /\ SameResults(r, d)
      /\ d.revisions = h /\ d.revision_index = First(I)
      /\ HasRevision(d) /\ d.diff # NoDiff => d.diff_context = SelectedId(d)
  BY <1>4, <1>6, <1>8, HistoryMoved
<1> HIDE DEF b, d
<1>10. ResultsKept(a, d)
  BY <1>2, <1>4, <1>9 DEF SameLists, SameResults, ResultsKept, ResultInRange
<1>11. Works(a, d, RefreshFails(c, s) \union HistoryFails(b))
  BY <1>4, <1>9, <1>10 DEF Works, Kept
<1>12. ASSUME Agree(a)
       PROVE  /\ SelectedId(d) = Id(last)
              /\ d.diff # NoDiff => d.diff_context = Id(last)
  <2>1. Len(s) \in DOMAIN s /\ last = s[Len(s)]
    BY <1>1, LenProperties, EmptySeq DEF Last, last
  <2>2. selected_revision(a).path = selected_file(a) /\ Has(a.files, a.file_index)
    BY <1>12, AgreedFile
  <2>3. selected_file(c) = selected_file(a) /\ Has(c.files, c.file_index)
    BY <1>3, <2>2 DEF SameFile, selected_file
  <2>4. s[Len(s)].path = selected_file(c) /\ last.path = selected_file(c)
    BY <2>1, <2>2, <2>3 DEF last
  <2>5. h = HistoryOf(s, last.path)
    BY <1>1, <1>3, <2>1, <2>3, <2>4, RefreshFindsFile DEF h
  <2>6. /\ \A k \in DOMAIN h : \E i \in DOMAIN s : s[i].path = last.path /\ h[k] = s[i]
        /\ \E k \in DOMAIN h : h[k] = last
    BY <1>1, <2>1, <2>5, HistoryRead
  <2>7. \A k \in DOMAIN h : h[k].path = last.path
    BY <2>6
  <2>8. I # {}
    BY <2>6 DEF I
  <2>9. /\ First(I) + 1 \in DOMAIN h /\ h[First(I) + 1].number = last.number
        /\ h[First(I) + 1].path = last.path
    BY <1>8, <2>7, <2>8 DEF I
  <2>10. First(I) < Len(h)
    BY <1>6, <1>8, <2>9, LenProperties
  <2>11. HasRevision(d) /\ SelectedId(d) = Id(last)
    BY <1>9, <2>9, <2>10 DEF HasRevision, Has, SelectedId, selected_revision, Row, Id
  <2> QED BY <1>9, <2>11
<1> QED BY <1>5, <1>11, <1>12 DEF d, last

(* App::load leaves the program in a state of the invariant.                 *)
LEMMA LoadedKeeps ==
  ASSUME NEW s \in Seq(Revisions)
  PROVE  Readable(Loaded(s)) /\ HistoryOfFile(Loaded(s)) /\ Labelled(Loaded(s))
<1> DEFINE e == <<>>
           files == FilesOf(s)
           expanded == {DirOf[s[i].path] : i \in DOMAIN s}
           filters == [f \in ToSet(FieldOrder) |-> e]
           field == FieldOrder[1]
           a == [main_tab |-> "Timeline", panel |-> "Files", mode |-> "Main",
                 files |-> files, file_index |-> 0,
                 expanded |-> expanded, tree |-> e, tree_index |-> 0,
                 revisions |-> e, revision_index |-> 0,
                 timeline |-> e, timeline_index |-> 0, timeline_changes_only |-> FALSE,
                 marked_revision |-> None, compare_current |-> TRUE,
                 diff |-> NoDiff, diff_context |-> NoTarget, selected_item |-> NoTarget,
                 inspect |-> NoTarget, input |-> e, search_results |-> e, search_index |-> 0,
                 restore_rendered |-> TRUE, filters |-> filters,
                 filter_field |-> field, back_mode |-> "Main", filter_origin |-> "Main",
                 quit |-> FALSE]
<1>1. Loaded(s) = refresh(a, s)
  BY DEF Loaded
<1>2. e \in Inputs /\ e \in Seq(Revisions) /\ e \in Seq(Nodes) /\ Inside(e, 0) /\ Within(e, 0)
      /\ DOMAIN e = {}
  BY EmptyInput, EmptySeq DEF Inside, Within
<1>3. filters \in [ToSet(FieldOrder) -> Inputs]
  BY <1>2
<1>4. files \in Seq(Paths) /\ Inside(files, 0)
  <2>1. files \in Seq(Paths)
    BY FilesListed
  <2> HIDE DEF files
  <2> QED BY <2>1, MovedInside
<1> HIDE DEF files, expanded, filters, field
<1>5. /\ a.main_tab = "Timeline" /\ a.panel = "Files" /\ a.mode = "Main"
      /\ a.back_mode = "Main" /\ a.filter_origin = "Main" /\ a.input = e /\ a.filters = filters
      /\ a.diff_context = NoTarget /\ a.selected_item = NoTarget /\ a.inspect = NoTarget
      /\ a.marked_revision = None
  OBVIOUS
<1>6. /\ a.files = files /\ a.file_index = 0 /\ a.tree = e /\ a.tree_index = 0
      /\ a.revisions = e /\ a.revision_index = 0 /\ a.timeline = e /\ a.timeline_index = 0
      /\ a.timeline_changes_only = FALSE /\ a.search_results = e /\ a.search_index = 0
  OBVIOUS
<1>7. IsApp(a)
  BY DEF IsApp, AppFields
<1>8. e = <<>>
  OBVIOUS
<1> HIDE DEF a, e
<1>9. ControlTyped(a) /\ ItemsTyped(a)
  BY <1>2, <1>3, <1>5 DEF ControlTyped, ItemsTyped, Targets, Tabs, Panels, Modes
<1>10. Visible(a) = e
  BY <1>6 DEF Visible
<1>11. ListsTyped(a) /\ AllInside(a)
  BY <1>2, <1>4, <1>6, <1>10 DEF ListsTyped, AllInside
<1>12. OneFile(a)
  BY <1>2, <1>6, <1>8 DEF OneFile
<1>13. Readable(a)
  BY <1>7, <1>9, <1>11, <1>12 DEF Readable
<1> QED BY <1>1, <1>13, RefreshWorks DEF Works, Kept

-----------------------------------------------------------------------------
(* The steps.                                                                *)
IInv ==
  /\ RepoTyped(repo) /\ tags \in [Ids -> Inputs] /\ Readable(app)
  /\ keys \in 0 .. MaxKeys /\ published \in 0 .. MaxPublished
  /\ result \in {"Ok", "Err"} /\ pending \in Targets

(* Where the selection of the history may move: choosing a file or a row, and *)
(* restoring; a history that is empty or is not the selected file's, and a     *)
(* revision that is not listed, are lost.                                    *)
Choosing(a) == a.mode = "Main" /\ a.main_tab # "Timeline" /\ a.panel \in {"Files", "History"}
Chosen ==
  \/ Choosing(app) \/ app.mode = "ConfirmRestore"
  \/ app.revisions = <<>> \/ ~ Agree(app) \/ SelectedId(app) \notin Listed(repo')

(* What a restore that succeeds shows.                                       *)
Shown(b) ==
  /\ SelectedId(b) = Id(Last(repo'))
  /\ b.diff # NoDiff => b.diff_context = Id(Last(repo'))

(* What a step leaves, and what it does to the selection of the history.      *)
Advances ==
  /\ RepoTyped(repo') /\ tags' \in [Ids -> Inputs] /\ Readable(app')
  /\ keys' \in 0 .. MaxKeys /\ published' \in 0 .. MaxPublished
  /\ result' \in {"Ok", "Err"} /\ pending' \in Targets
  /\ result' = "Ok" => Kept(app, app')
  /\ SelectedId(app') = SelectedId(app) \/ Chosen
  /\ Len(repo') > Len(repo) /\ keys' # keys /\ result' = "Ok" /\ Agree(app) => Shown(app')

(* A key whose handler works, and is answered.                               *)
LEMMA AnsweredAdvances ==
  ASSUME IInv, NEW b, NEW F, Answered(b, F), RepoTyped(repo'), tags' \in [Ids -> Inputs],
         Works(app, b, F),
         Chosen \/ \A d \in F \union {b} : SelectedId(d) = SelectedId(app),
         Len(repo') > Len(repo) /\ Agree(app) => Shown(b)
  PROVE  Advances
<1>1. keys' = keys + 1 /\ keys < MaxKeys /\ published' = published /\ pending' = pending
  BY DEF Answered, Press
<1>2. keys' \in 0 .. MaxKeys /\ published' \in 0 .. MaxPublished /\ pending' \in Targets
  BY <1>1, Bounds DEF IInv
<1>3. CASE app' = b /\ result' = "Ok"
  BY <1>2, <1>3 DEF Works, Kept, Advances
<1>4. CASE (\E d \in F : app' = record_error(d)) /\ result' = "Err"
  <2>1. PICK d \in F : app' = record_error(d)
    BY <1>4
  <2>2. Readable(d)
    BY DEF Works
  <2>3. Readable(app') /\ SelectedId(app') = SelectedId(d)
    BY <2>1, <2>2, ErrorRecorded
  <2> QED BY <1>2, <1>4, <2>3 DEF Advances
<1>5. \/ app' = b /\ result' = "Ok"
      \/ (\E d \in F : app' = record_error(d)) /\ result' = "Err"
  BY DEF Answered, Press
<1> QED BY <1>3, <1>4, <1>5

(* One that leaves the repository alone,                                     *)
LEMMA HandledAdvances ==
  ASSUME IInv, NEW b, NEW F, Handled(b, F), Works(app, b, F),
         Chosen \/ \A d \in F \union {b} : SelectedId(d) = SelectedId(app)
  PROVE  Advances
<1>1. Answered(b, F) /\ repo' = repo /\ tags' = tags
  BY DEF Handled
<1>2. RepoTyped(repo') /\ tags' \in [Ids -> Inputs] /\ ~ (Len(repo') > Len(repo))
  BY <1>1, LenProperties DEF IInv, RepoTyped
<1> QED BY <1>1, <1>2, AnsweredAdvances

(* does not move the selection of the history,                               *)
LEMMA SteadyAdvances ==
  ASSUME IInv, NEW b, NEW F, Handled(b, F), Steady(app, b, F)
  PROVE  Advances
BY HandledAdvances DEF Steady

(* and only changes what is typed, the mode or the panel.                    *)
LEMMA ControlAdvances ==
  ASSUME IInv, NEW b, Set(b),
         IsApp(b), SameLists(app, b), SameDiff(app, b), ControlTyped(b), ItemsTyped(b)
  PROVE  Advances
<1>1. Steady(app, b, {})
  BY ControlChanged DEF IInv
<1> QED BY <1>1, SteadyAdvances DEF Set

(* The keys that only change the mode or a field.                            *)
LEMMA ControlStep ==
  ASSUME IInv,
         Interrupt \/ Search \/ AskTag \/ Help \/ AskRestore \/ NextField \/ EditField
           \/ SaveFilters
  PROVE  Advances
<1> USE DEF Readable, IsApp, AppFields, SameLists, SameHistory, SameFile, SameTree, SameTimeline,
            SameResults, ControlTyped, ItemsTyped, SameDiff
<1>1. Readable(app)
  BY DEF IInv
<1>2. Tabs = {"Timeline", "ReposFiles", "Search"} /\ <<>> \in Inputs
      /\ {"Main", "Help", "SearchInput", "TagInput", "ConfirmRestore"} \subseteq Modes
  BY EmptyInput DEF Tabs, Modes
<1>3. CASE Interrupt
  <2> DEFINE b == [app EXCEPT !.quit = TRUE]
  <2>1. IsApp(b) /\ SameLists(app, b) /\ SameDiff(app, b) /\ ControlTyped(b) /\ ItemsTyped(b)
    BY <1>1
  <2>2. Set(b)
    BY <1>3 DEF Interrupt
  <2> HIDE DEF b
  <2> QED BY ONLY IInv, <2>1, <2>2, ControlAdvances
<1>4. CASE Search
  <2> DEFINE e == <<>>
             b == [app EXCEPT !.main_tab = "Search", !.input = e, !.mode = "SearchInput"]
  <2>1. Set(b) /\ e \in Inputs
    BY <1>4, <1>2 DEF Search
  <2> HIDE DEF e
  <2>2. IsApp(b) /\ SameLists(app, b) /\ SameDiff(app, b) /\ ControlTyped(b) /\ ItemsTyped(b)
    BY <1>1, <1>2, <2>1
  <2> HIDE DEF b
  <2> QED BY ONLY IInv, <2>1, <2>2, ControlAdvances
<1>5. CASE AskTag
  <2> DEFINE e == <<>>
             b == [app EXCEPT !.input = e, !.mode = "TagInput"]
  <2>1. Set(b) /\ e \in Inputs
    BY <1>5, <1>2 DEF AskTag
  <2> HIDE DEF e
  <2>2. IsApp(b) /\ SameLists(app, b) /\ SameDiff(app, b) /\ ControlTyped(b) /\ ItemsTyped(b)
    BY <1>1, <1>2, <2>1
  <2> HIDE DEF b
  <2> QED BY ONLY IInv, <2>1, <2>2, ControlAdvances
<1>6. CASE Help \/ SaveFilters
  <2>0. PICK mode \in Modes : Set([app EXCEPT !.mode = mode])
    BY <1>2, <1>6 DEF Help, SaveFilters
  <2> DEFINE b == [app EXCEPT !.mode = mode]
  <2>1. IsApp(b) /\ SameLists(app, b) /\ SameDiff(app, b) /\ ControlTyped(b) /\ ItemsTyped(b)
    BY <1>1
  <2>2. Set(b)
    BY <2>0
  <2> HIDE DEF b
  <2> QED BY ONLY IInv, <2>1, <2>2, ControlAdvances
<1>7. CASE AskRestore
  <2>0. PICK rendered \in BOOLEAN :
          Set([app EXCEPT !.restore_rendered = rendered, !.mode = "ConfirmRestore"])
    BY <1>7 DEF AskRestore
  <2> DEFINE b == [app EXCEPT !.restore_rendered = rendered, !.mode = "ConfirmRestore"]
  <2>1. IsApp(b) /\ SameLists(app, b) /\ SameDiff(app, b) /\ ControlTyped(b) /\ ItemsTyped(b)
    BY <1>1, <1>2
  <2>2. Set(b)
    BY <2>0
  <2> HIDE DEF b
  <2> QED BY ONLY IInv, <2>1, <2>2, ControlAdvances
<1>8. CASE NextField
  <2>0. PICK field : Set([app EXCEPT !.filter_field = field])
    BY <1>8 DEF NextField
  <2> DEFINE b == [app EXCEPT !.filter_field = field]
  <2>1. IsApp(b) /\ SameLists(app, b) /\ SameDiff(app, b) /\ ControlTyped(b) /\ ItemsTyped(b)
    BY <1>1
  <2>2. Set(b)
    BY <2>0
  <2> HIDE DEF b
  <2> QED BY ONLY IInv, <2>1, <2>2, ControlAdvances
<1>9. CASE EditField
  <2> DEFINE field == app.filter_field
             value == app.filters[field]
  <2>0. PICK c \in Chars \union {None} :
          /\ c # None => Len(value) < MaxInput
          /\ Set([app EXCEPT !.filters[field] =
                    IF c # None THEN Append(value, c)
                    ELSE IF value = <<>> THEN <<>> ELSE Front(value)])
    BY <1>9 DEF EditField
  <2> DEFINE new == IF c # None THEN Append(value, c)
                    ELSE IF value = <<>> THEN <<>> ELSE Front(value)
             filters == [app.filters EXCEPT ![field] = new]
             b == [app EXCEPT !.filters = filters]
  <2>1. Set(b)
    BY <2>0
  <2>2. app.filters \in [ToSet(FieldOrder) -> Inputs]
    BY <1>1
  <2>3. field \in ToSet(FieldOrder) => new \in Inputs
    <3> SUFFICES ASSUME field \in ToSet(FieldOrder) PROVE new \in Inputs
      OBVIOUS
    <3>1. value \in Inputs
      BY <2>2
    <3> HIDE DEF value
    <3> QED BY <3>1, <2>0, InputsEdited
  <2> HIDE DEF new, field
  <2>4. filters \in [ToSet(FieldOrder) -> Inputs]
    BY <2>2, <2>3
  <2> HIDE DEF filters
  <2>5. IsApp(b) /\ SameLists(app, b) /\ SameDiff(app, b) /\ ControlTyped(b) /\ ItemsTyped(b)
    BY <1>1, <2>4
  <2> HIDE DEF b
  <2> QED BY ONLY IInv, <2>1, <2>5, ControlAdvances
<1> QED BY <1>3, <1>4, <1>5, <1>6, <1>7, <1>8, <1>9

(* The panel is changed, a field is edited, the program is left.             *)
LEMMA PanelChanged ==
  ASSUME NEW a, Readable(a), NEW panel \in Panels, NEW b, b = [a EXCEPT !.panel = panel]
  PROVE  Steady(a, b, {})
<1>1. IsApp(b) /\ SameLists(a, b) /\ SameDiff(a, b) /\ ControlTyped(b) /\ ItemsTyped(b)
  BY DEF Readable, IsApp, AppFields, SameLists, SameHistory, SameFile, SameTree, SameTimeline,
         SameResults, ControlTyped, ItemsTyped, SameDiff
<1> QED BY <1>1, ControlChanged

LEMMA FieldEdited ==
  ASSUME NEW a, Readable(a), NEW input \in Inputs, NEW b, b = [a EXCEPT !.input = input]
  PROVE  /\ Steady(a, b, {}) /\ Readable(b) /\ b.input = input
         /\ SameFile(a, b) /\ SameDiff(a, b) /\ SameResults(a, b)
<1>1. IsApp(b) /\ SameLists(a, b) /\ SameDiff(a, b) /\ ControlTyped(b) /\ ItemsTyped(b)
  BY DEF Readable, IsApp, AppFields, SameLists, SameHistory, SameFile, SameTree, SameTimeline,
         SameResults, ControlTyped, ItemsTyped, SameDiff
<1>2. b.input = input
  BY DEF Readable, IsApp, AppFields
<1> QED BY <1>1, <1>2, ControlChanged DEF SameLists

LEMMA QuitSteady ==
  ASSUME NEW a, Readable(a), NEW b, b = [a EXCEPT !.quit = TRUE]
  PROVE  Steady(a, b, {})
<1>1. IsApp(b) /\ SameLists(a, b) /\ SameDiff(a, b) /\ ControlTyped(b) /\ ItemsTyped(b)
  BY DEF Readable, IsApp, AppFields, SameLists, SameHistory, SameFile, SameTree, SameTimeline,
         SameResults, ControlTyped, ItemsTyped, SameDiff
<1> QED BY <1>1, ControlChanged

(* The keys of the tabs and modes.                                           *)
LEMMA TabStep ==
  ASSUME IInv, SwitchTab \/ Escape \/ Quit \/ Home \/ Filter
  PROVE  Advances
<1>1. Readable(app) /\ repo \in Seq(Revisions)
  BY DEF IInv, RepoTyped
<1>2. CASE SwitchTab
  <2>1. PICK to \in {NextOf, PreviousOf} :
          LET d == [app EXCEPT !.main_tab = to[app.main_tab]] IN
          Handled(activate_tab(d), TabFails(d, repo))
    BY <1>2 DEF SwitchTab
  <2>2. app.main_tab \in Tabs
    BY <1>1 DEF Readable, ControlTyped
  <2> DEFINE tab == to[app.main_tab]
             d == [app EXCEPT !.main_tab = tab]
  <2>3. tab \in Tabs
    BY <2>2 DEF NextOf, PreviousOf, Tabs
  <2>4. Handled(activate_tab(d), TabFails(d, repo)) /\ d = [app EXCEPT !.main_tab = tab]
    BY <2>1
  <2> HIDE DEF tab, d
  <2>5. Steady(app, activate_tab(d), TabFails(d, repo))
    BY <1>1, <2>3, <2>4, TabActivated
  <2> QED BY <2>4, <2>5, SteadyAdvances
<1>3. CASE Escape
  BY <1>1, <1>3, EscapedSteady, SteadyAdvances DEF Escape, Set
<1>4. CASE Quit
  <2>1. CASE app.mode = "Main"
    BY <1>1, <1>4, <2>1, QuitSteady, SteadyAdvances DEF Quit, Set
  <2>2. CASE app.mode # "Main"
    BY <1>1, <1>4, <2>2, EscapedSteady, SteadyAdvances DEF Quit, Set
  <2> QED BY <2>1, <2>2
<1>5. CASE Home
  BY <1>1, <1>5, HomeSteady, SteadyAdvances DEF Home
<1>6. CASE Filter
  <2>1. CASE app.main_tab = "Timeline" /\ app.mode = "Main"
    BY <1>1, <1>6, <2>1, FilteredSteady, SteadyAdvances DEF Filter
  <2>2. CASE ~ (app.main_tab = "Timeline" /\ app.mode = "Main")
    <3> DEFINE b == [app EXCEPT !.filter_origin = app.mode, !.mode = "Filters"]
    <3>1. Set(b)
      BY <1>6, <2>2 DEF Filter
    <3>2. "Filters" \in Modes
      BY DEF Modes
    <3>3. IsApp(b) /\ SameLists(app, b) /\ SameDiff(app, b) /\ ControlTyped(b) /\ ItemsTyped(b)
      BY <1>1, <3>2 DEF Readable, IsApp, AppFields, SameLists, SameHistory, SameFile, SameTree,
                        SameTimeline, SameResults, ControlTyped, ItemsTyped, SameDiff
    <3> HIDE DEF b
    <3> QED BY <3>1, <3>3, ControlAdvances
  <2> QED BY <2>1, <2>2
<1> QED BY <1>2, <1>3, <1>4, <1>5, <1>6

(* Up and Down move the selection of the history only where it is chosen.    *)
LEMMA MoveStep == ASSUME IInv, Move PROVE Advances
<1>1. Readable(app) /\ repo \in Seq(Revisions)
  BY DEF IInv, RepoTyped
<1>2. CASE MoveTimeline
  <2>1. PICK down \in BOOLEAN :
          LET a == [app EXCEPT !.timeline_index =
                      Moved(app.timeline_index, Len(Visible(app)), down)]
          IN  Handled(select_timeline(a), TimelineFails(a))
    BY <1>2 DEF MoveTimeline
  <2> DEFINE i == Moved(app.timeline_index, Len(Visible(app)), down)
             c == [app EXCEPT !.timeline_index = i]
  <2>2. Handled(select_timeline(c), TimelineFails(c))
    BY <2>1
  <2>3. Visible(app) \in Seq(Revisions) /\ app.timeline_index \in Nat
        /\ Inside(Visible(app), app.timeline_index)
    BY <1>1, VisibleRows DEF Readable, ListsTyped, AllInside
  <2>4. i \in Nat /\ Inside(Visible(app), i)
    BY <2>3, MovedInside
  <2> HIDE DEF i
  <2>5. /\ IsApp(c) /\ SameHistory(app, c) /\ SameTree(app, c) /\ SameResults(app, c)
        /\ SameControl(app, c) /\ SameItems(app, c)
        /\ c.timeline = app.timeline /\ c.timeline_index = i
        /\ c.timeline_changes_only = app.timeline_changes_only
    BY <1>1 DEF Readable, IsApp, AppFields, SameHistory, SameFile, SameTree, SameResults,
                SameControl, SameItems, SameDiff
  <2> HIDE DEF c
  <2>6. Visible(c) = Visible(app)
    BY <2>5 DEF Visible
  <2>7. ControlTyped(c) /\ ItemsTyped(c)
    BY <1>1, <2>5, PartsKept DEF Readable
  <2>8. Steady(app, select_timeline(c), TimelineFails(c))
    BY <1>1, <2>4, <2>5, <2>6, <2>7, TimelineMoved
  <2> QED BY <2>2, <2>8, SteadyAdvances
<1>3. CASE MoveFiles
  <2>1. /\ Choosing(app)
        /\ \E down \in BOOLEAN :
             LET a == [app EXCEPT !.tree_index = Moved(app.tree_index, Len(app.tree), down)]
             IN  Handled(select_tree_file(a, repo), TreeFileFails(a, repo))
    BY <1>3 DEF MoveFiles, Moving, Choosing
  <2>2. PICK down \in BOOLEAN :
          LET a == [app EXCEPT !.tree_index = Moved(app.tree_index, Len(app.tree), down)]
          IN  Handled(select_tree_file(a, repo), TreeFileFails(a, repo))
    BY <2>1
  <2> DEFINE c == [app EXCEPT !.tree_index = Moved(app.tree_index, Len(app.tree), down)]
  <2>3. Handled(select_tree_file(c, repo), TreeFileFails(c, repo))
    BY <2>2
  <2>4. c = [app EXCEPT !.tree_index = Moved(app.tree_index, Len(app.tree), down)]
    OBVIOUS
  <2> HIDE DEF c
  <2>5. Works(app, select_tree_file(c, repo), TreeFileFails(c, repo))
    BY <1>1, <2>4, FilesMoved
  <2> QED BY <2>1, <2>3, <2>5, HandledAdvances DEF Chosen
<1>4. CASE MoveHistory
  <2>1. /\ Choosing(app)
        /\ \E down \in BOOLEAN :
             LET a == [app EXCEPT !.revision_index =
                         Moved(app.revision_index, Len(app.revisions), down)]
             IN  Handled(update_diff(a), HistoryFails(a))
    BY <1>4 DEF MoveHistory, Moving, Choosing
  <2>2. PICK down \in BOOLEAN :
          LET a == [app EXCEPT !.revision_index =
                      Moved(app.revision_index, Len(app.revisions), down)]
          IN  Handled(update_diff(a), HistoryFails(a))
    BY <2>1
  <2> DEFINE i == Moved(app.revision_index, Len(app.revisions), down)
             c == [app EXCEPT !.revision_index = i]
  <2>3. Handled(update_diff(c), HistoryFails(c)) /\ c = [app EXCEPT !.revision_index = i]
    BY <2>2
  <2>4. i \in Nat /\ Inside(app.revisions, i)
    BY <1>1, MovedInside DEF Readable, ListsTyped, AllInside
  <2> HIDE DEF i, c
  <2>5. Works(app, update_diff(c), HistoryFails(c))
    BY <1>1, <2>3, <2>4, HistoryMoved
  <2> QED BY <2>1, <2>3, <2>5, HandledAdvances DEF Chosen
<1>5. CASE Scroll
  BY <1>1, <1>5, InspectSteady, SteadyAdvances DEF Scroll, Set
<1> QED BY <1>2, <1>3, <1>4, <1>5 DEF Move

(* The keys that move in the panels, type a query or mark a revision.         *)
LEMMA ListStep ==
  ASSUME IInv,
         Type \/ Backspace \/ MoveResult \/ Left \/ Right \/ Open \/ MarkDiff
           \/ CompareToCurrent \/ RefuseTag \/ NothingToRestore
  PROVE  Advances
<1>1. Readable(app) /\ RepoTyped(repo) /\ repo \in Seq(Revisions)
  BY DEF IInv, RepoTyped
<1>2. ASSUME NEW input \in Inputs, Edited(input) PROVE Advances
  <2> DEFINE b == [app EXCEPT !.input = input]
             F == IF b.input = <<>> THEN {} ELSE SearchFails(b)
  <2>0. b = [app EXCEPT !.input = input] /\ b.input = input
    BY <1>1 DEF Readable, IsApp, AppFields
  <2>1. CASE app.mode = "SearchInput"
    <3>1. Handled(update_incremental_search(b), F)
      BY <1>2, <2>0, <2>1 DEF Edited
    <3> HIDE DEF b
    <3>2. /\ Readable(b) /\ Steady(app, b, {})
          /\ SameFile(app, b) /\ SameDiff(app, b) /\ SameResults(app, b)
      BY <1>1, <2>0, FieldEdited
    <3>3. Steady(b, update_incremental_search(b), F)
      BY <1>1, <3>2, QueryTyped
    <3> HIDE DEF F
    <3>4. Steady(app, update_incremental_search(b), F)
      BY <3>2, <3>3, KeptFrom DEF Steady
    <3> QED BY <3>1, <3>4, SteadyAdvances
  <2>2. CASE app.mode # "SearchInput"
    <3>1. Set(b)
      BY <1>2, <2>2 DEF Edited
    <3> HIDE DEF b
    <3>2. Steady(app, b, {})
      BY <1>1, <2>0, FieldEdited
    <3> QED BY <3>1, <3>2, SteadyAdvances DEF Set
  <2> QED BY <2>1, <2>2
<1>3. app.input \in Inputs
  BY <1>1 DEF Readable, ControlTyped
<1>4. CASE Type
  BY <1>2, <1>3, <1>4, InputsEdited DEF Type
<1>5. CASE Backspace
  <2>1. (IF app.input = <<>> THEN <<>> ELSE Front(app.input)) \in Inputs
    BY <1>3, InputsEdited
  <2> QED BY <1>2, <1>5, <2>1 DEF Backspace
<1>6. CASE MoveResult
  <2>1. PICK down \in BOOLEAN :
          LET c == [app EXCEPT !.search_index =
                      Moved(app.search_index, Len(app.search_results), down)]
          IN  Handled(select_search_result(c, repo), ResultFails(c, repo))
    BY <1>6 DEF MoveResult
  <2>2. LET c == [app EXCEPT !.search_index =
                    Moved(app.search_index, Len(app.search_results), down)]
        IN  Steady(app, select_search_result(c, repo), ResultFails(c, repo))
    BY <1>1, ResultMoved
  <2> QED BY <2>1, <2>2, SteadyAdvances
<1>7. ASSUME NEW panel \in Panels, Set([app EXCEPT !.panel = panel]) PROVE Advances
  BY <1>1, <1>7, PanelChanged, SteadyAdvances DEF Set
<1>8. ASSUME NEW expand, Set(toggle_tree(app, expand)) PROVE Advances
  BY <1>1, <1>8, ToggleSteady, SteadyAdvances DEF Set
<1>9. CASE Left
  <2>1. \/ \E panel \in Panels : Set([app EXCEPT !.panel = panel])
        \/ Set(toggle_tree(app, FALSE))
    BY <1>9 DEF Left, Panels
  <2> QED BY <1>7, <1>8, <2>1
<1>10. CASE Right
  <2>1. \/ \E panel \in Panels : Set([app EXCEPT !.panel = panel])
        \/ Set(toggle_tree(app, TRUE))
    BY <1>10 DEF Right, Panels
  <2> QED BY <1>7, <1>8, <2>1
<1>11. CASE Open
  <2>1. \/ \E expand : Set(toggle_tree(app, expand))
        \/ Handled(inspect_selected(app), InspectFails(app))
    BY <1>11 DEF Open
  <2>2. Handled(inspect_selected(app), InspectFails(app)) => Advances
    BY <1>1, InspectSteady, SteadyAdvances
  <2> QED BY <1>8, <2>1, <2>2
<1>12. ASSUME Set(app) PROVE Advances
  BY <1>1, <1>12, InspectSteady, SteadyAdvances DEF Set
<1>13. ASSUME NEW current, NEW mark \in 1 .. MaxRevisions \union {None}, NEW c,
              c = [app EXCEPT !.marked_revision = mark, !.compare_current = current],
              Handled(update_diff(c), HistoryFails(c))
       PROVE  Advances
  BY <1>1, <1>13, MarkedSteady, SteadyAdvances
<1>14. app.marked_revision \in 1 .. MaxRevisions \union {None}
  BY <1>1 DEF Readable, ItemsTyped
<1>15. CASE MarkDiff
  <2> DEFINE c == Marked(app)
  <2>1. CASE ~ HasRevision(app)
    BY <1>12, <1>15, <2>1 DEF MarkDiff
  <2>2. CASE HasRevision(app)
    <3>1. Handled(update_diff(c), HistoryFails(c))
      BY <1>15, <2>2 DEF MarkDiff
    <3> DEFINE mark == IF app.marked_revision # None THEN app.marked_revision
                       ELSE selected_revision(app).number
               current == IF app.marked_revision # None THEN FALSE ELSE app.compare_current
    <3>2. selected_revision(app) \in Revisions
      BY <1>1, <2>2, RowIn DEF Readable, ListsTyped, HasRevision, selected_revision
    <3>3. mark \in 1 .. MaxRevisions \union {None}
      BY <1>14, <3>2 DEF Revisions
    <3>4. c = [app EXCEPT !.marked_revision = mark, !.compare_current = current]
      BY <1>1 DEF Marked, Readable, IsApp, AppFields
    <3> HIDE DEF c, mark, current
    <3> QED BY <1>13, <3>1, <3>3, <3>4
  <2> QED BY <2>1, <2>2
<1>16. CASE CompareToCurrent
  <2> DEFINE c == [app EXCEPT !.compare_current = TRUE]
             mark == app.marked_revision
  <2>1. Handled(update_diff(c), HistoryFails(c))
    BY <1>16 DEF CompareToCurrent
  <2>2. c = [app EXCEPT !.marked_revision = mark, !.compare_current = TRUE]
    BY <1>1 DEF Readable, IsApp, AppFields
  <2>3. mark \in 1 .. MaxRevisions \union {None}
    BY <1>14
  <2> HIDE DEF c, mark
  <2> QED BY <1>13, <2>1, <2>2, <2>3
<1>17. CASE RefuseTag \/ NothingToRestore
  BY <1>12, <1>17 DEF RefuseTag, NothingToRestore
<1> QED BY <1>4, <1>5, <1>6, <1>9, <1>10, <1>11, <1>15, <1>16, <1>17

(* What is written is a tag of a revision.                                   *)
LEMMA TagsTyped ==
  ASSUME IInv
  PROVE  Tagged(app) \in [Ids -> Inputs]
<1>1. Readable(app) /\ tags \in [Ids -> Inputs]
  BY DEF IInv
<1>2. Trimmed(app.input) \in Inputs
  BY <1>1, InputsEdited DEF Readable, ControlTyped
<1> QED BY <1>1, <1>2 DEF Tagged

(* A handler that cannot write records the error and keeps the rest.         *)
LEMMA WriteFailed ==
  ASSUME IInv, Press(record_error(app), "Err"), RepoTyped(repo'), tags' \in [Ids -> Inputs]
  PROVE  Advances
<1>1. keys' = keys + 1 /\ keys < MaxKeys /\ published' = published /\ pending' = pending
      /\ app' = record_error(app) /\ result' = "Err"
  BY DEF Press
<1>2. Readable(app') /\ SelectedId(app') = SelectedId(app)
  BY <1>1, ErrorRecorded DEF IInv
<1>3. keys' \in 0 .. MaxKeys /\ published' \in 0 .. MaxPublished /\ pending' \in Targets
  BY <1>1, Bounds DEF IInv
<1> QED BY <1>1, <1>2, <1>3 DEF Advances

(* The steps that write to the repository,                                   *)
LEMMA WriteStep ==
  ASSUME IInv, SaveTag \/ TagFails \/ Restore \/ RestoreFails
  PROVE  Advances
<1>1. Readable(app) /\ RepoTyped(repo) /\ repo \in Seq(Revisions) /\ tags \in [Ids -> Inputs]
  BY DEF IInv, RepoTyped
<1>2. Len(repo) \in Nat
  BY <1>1, LenProperties
<1>3. HasRevision(app) => selected_revision(app) \in Revisions /\ SelectedId(app)[1] \in Paths
                          /\ SelectedId(app)[1] = selected_revision(app).path
  <2> HAVE HasRevision(app)
  <2>1. selected_revision(app) \in Revisions
    BY <1>1, RowIn DEF Readable, ListsTyped, HasRevision, selected_revision
  <2> QED BY <2>1, IdParts DEF SelectedId, Revisions
<1>4. CASE SaveTag
  <2> DEFINE c == [app EXCEPT !.input = <<>>, !.mode = "Main"]
             b == refresh(c, repo)
             F == RefreshFails(c, repo)
  <2>1. tags' = Tagged(app) /\ repo' = repo /\ Answered(b, F)
    BY <1>4 DEF SaveTag
  <2>2. c = [app EXCEPT !.input = <<>>, !.mode = "Main"]
    OBVIOUS
  <2> HIDE DEF c
  <2>3. /\ Works(app, b, F)
        /\ \/ \A d \in F \union {b} : SelectedId(d) = SelectedId(app)
           \/ app.revisions = <<>> \/ ~ Agree(app) \/ SelectedId(app) \notin Listed(repo)
    BY <1>1, <2>2, TagSaved
  <2> HIDE DEF b, F
  <2>4. Chosen \/ \A d \in F \union {b} : SelectedId(d) = SelectedId(app)
    BY <2>1, <2>3 DEF Chosen
  <2>5. RepoTyped(repo') /\ tags' \in [Ids -> Inputs] /\ ~ (Len(repo') > Len(repo))
    BY <1>1, <1>2, <2>1, TagsTyped
  <2> QED BY <2>1, <2>3, <2>4, <2>5, AnsweredAdvances
<1>5. CASE TagFails
  <2>1. repo' = repo /\ tags' \in {tags, Tagged(app)} /\ Press(record_error(app), "Err")
    BY <1>5 DEF TagFails
  <2> QED BY <1>1, <2>1, TagsTyped, WriteFailed
<1>6. CASE Restore
  <2> DEFINE id == SelectedId(app)
             rendered == app.restore_rendered
             c == [app EXCEPT !.mode = "Main"]
             b == Restored(c, repo')
             d == update_diff(b)
             F == RefreshFails(c, repo') \union HistoryFails(b)
  <2>1. /\ app.mode = "ConfirmRestore" /\ HasRevision(app) /\ id \in Listed(repo)
        /\ repo' \in Republished(repo, id, rendered) /\ Len(repo') <= MaxRevisions
        /\ tags' = tags /\ Answered(d, F)
    BY <1>6 DEF Restore
  <2>2. c = [app EXCEPT !.mode = "Main"]
    OBVIOUS
  <2>3. id[1] \in Paths /\ id[1] = selected_revision(app).path
    BY <1>3, <2>1
  <2> HIDE DEF id, rendered, c
  <2>4. RepoTyped(repo') /\ Last(repo').path = id[1] /\ repo' # <<>>
    BY <1>1, <2>1, <2>3, RepublishedTyped
  <2>5. /\ Works(app, d, F)
        /\ Agree(app) => Shown(d)
    BY <1>1, <2>1, <2>2, <2>3, <2>4, RestoredShows DEF Shown
  <2> HIDE DEF d, F
  <2>6. Chosen
    BY <2>1 DEF Chosen
  <2> QED BY <1>1, <2>1, <2>4, <2>5, <2>6, AnsweredAdvances
<1>7. CASE RestoreFails
  <2>1. /\ HasRevision(app) /\ Len(repo') <= MaxRevisions /\ tags' = tags
        /\ Press(record_error(app), "Err")
        /\ repo' = repo \/ repo' \in Synced(repo, SelectedId(app)[1])
    BY <1>7 DEF RestoreFails
  <2>2. RepoTyped(repo')
    BY <1>1, <1>3, <2>1, SyncedTyped
  <2> QED BY <1>1, <2>1, <2>2, WriteFailed
<1> QED BY <1>4, <1>5, <1>6, <1>7

(* and those of other processes.                                             *)
LEMMA OtherStep ==
  ASSUME IInv, Publish \/ Settle \/ Withdraw
  PROVE  Advances
<1>1. /\ app' = app /\ keys' = keys /\ result' = result /\ tags' = tags
      /\ published' \in {published, published + 1}
  BY DEF Publish, Settle, Withdraw
<1>2. published' \in 0 .. MaxPublished
  BY <1>1, Bounds DEF IInv, Publish, Settle, Withdraw
<1>3. Kept(app, app)
  BY DEF IInv, Kept, SameFile, SameDiff, ResultsKept
<1>4. RepoTyped(repo') /\ pending' \in Targets
  <2>1. CASE Publish
    <3>1. PICK path \in Paths, kind \in Kinds, epoch \in Epochs, text \in Texts :
            repo' = Made(repo, path, kind, epoch, text)
      BY <2>1 DEF Publish
    <3>2. Len(repo) < MaxRevisions /\ pending' = Id(Last(repo'))
      BY <2>1 DEF Publish
    <3>3. RepoTyped(repo') /\ repo'[Len(repo')] \in Revisions
      BY <3>1, <3>2, MadeTyped DEF IInv
    <3> QED BY <3>2, <3>3, IdParts DEF Last
  <2>2. CASE Settle
    BY <2>2 DEF Settle, IInv, Targets
  <2>3. CASE Withdraw
    BY <2>3, FrontTyped DEF Withdraw, IInv, Targets
  <2> QED BY <2>1, <2>2, <2>3
<1> QED BY <1>1, <1>2, <1>3, <1>4 DEF Advances, IInv

(* Every step is one of these.                                               *)
LEMMA EveryStep == ASSUME IInv, Next PROVE Advances
BY ControlStep, TabStep, MoveStep, ListStep, WriteStep, OtherStep DEF Next

-----------------------------------------------------------------------------
(* The theorems.                                                             *)

(* The program is loaded with the history of the selected file and a diff      *)
(* under its label.                                                          *)
LEMMA LoadedFirst ==
  ASSUME Init
  PROVE  IInv /\ HistoryOfFile(app) /\ Labelled(app)
<1>1. repo \in Starts /\ app = Loaded(repo) /\ result = "Ok" /\ keys = 0 /\ published = 0
      /\ pending = NoTarget /\ tags = [id \in Ids |-> <<>>]
  BY DEF Init
<1>2. RepoTyped(repo)
  BY <1>1, StartsAssumption DEF RepoTyped
<1>3. Readable(app) /\ HistoryOfFile(app) /\ Labelled(app)
  BY <1>1, <1>2, LoadedKeeps DEF RepoTyped
<1>4. tags \in [Ids -> Inputs]
  BY <1>1, EmptyInput
<1> QED BY <1>1, <1>2, <1>3, <1>4, Bounds DEF IInv, Targets

(* The invariant: after every handler, of those too that failed midway, every  *)
(* selection is in its list, and the history is of one file.                  *)
THEOREM TuiInvariant == Spec => []IInv
<1>1. Init => IInv
  BY LoadedFirst
<1>2. IInv /\ [Next]_vars => IInv'
  <2> SUFFICES ASSUME IInv, [Next]_vars PROVE IInv'
    OBVIOUS
  <2>1. CASE Next
    <3>1. Advances
      BY <2>1, EveryStep
    <3> QED BY <3>1 DEF Advances, IInv
  <2>2. CASE UNCHANGED vars
    BY <2>2 DEF vars, IInv
  <2> QED BY <2>1, <2>2
<1> QED BY <1>1, <1>2, PTL DEF Spec

(* Types, of whatever repository the program is started on, as long as it and *)
(* what is published to it are of revisions.                                  *)
THEOREM TuiTypeHolds == Spec => []TuiType
<1>1. IInv => TuiType
  <2> SUFFICES ASSUME IInv PROVE TuiType
    OBVIOUS
  <2>1. ASSUME NEW T, NEW list \in Seq(T) PROVE ToSet(list) \subseteq T
    BY <2>1, LenProperties, ElementOfSeq DEF ToSet
  <2>2. ToSet(repo) \subseteq Revisions /\ Len(repo) <= MaxRevisions
    BY <2>1 DEF IInv, RepoTyped
  <2>3. ToSet(app.files) \subseteq Paths
    BY <2>1 DEF IInv, Readable, ListsTyped
  <2>4. /\ ToSet(app.timeline) \subseteq Revisions /\ ToSet(app.revisions) \subseteq Revisions
        /\ ToSet(app.search_results) \subseteq Revisions
    BY <2>1 DEF IInv, Readable, ListsTyped
  <2>5. ControlTyped(app) /\ ItemsTyped(app)
    BY DEF IInv, Readable
  <2>6. /\ tags \in [Ids -> Inputs]
        /\ keys \in 0 .. MaxKeys /\ published \in 0 .. MaxPublished
        /\ result \in {"Ok", "Err"} /\ pending \in Targets
    BY DEF IInv
  <2> QED BY <2>2, <2>3, <2>4, <2>5, <2>6 DEF TuiType, ControlTyped, ItemsTyped, Targets
<1> QED BY <1>1, TuiInvariant, PTL

(* Whatever is published or withdrawn meanwhile, and wherever handlers fail,   *)
(* every list's selection is one of its rows.                                *)
THEOREM SelectionsStayInRange == Spec => SelectionsInRange
<1>1. IInv => InRange(app)
  BY DEF IInv, Readable, AllInside, Inside, Within, InRange
<1>2. IInv /\ [Next]_vars =>
        [/\ result' = "Ok"
         /\ ResultInRange(app) \/ app'.search_results # app.search_results
         => ResultInRange(app')]_vars
  <2> SUFFICES ASSUME IInv, Next, result' = "Ok",
                      ResultInRange(app) \/ app'.search_results # app.search_results
               PROVE  ResultInRange(app')
    OBVIOUS
  <2>1. Advances
    BY EveryStep
  <2> QED BY <2>1 DEF Advances, Kept, ResultsKept
<1> QED BY <1>1, <1>2, TuiInvariant, PTL DEF Spec, SelectionsInRange

(* The dialogue names the revision that restore takes, unless a handler failed *)
(* between the files and their history: no other key makes them disagree.      *)
THEOREM DialogueAgrees == Spec => DialogueNamesRestored
<1>1. Init => Agree(app)
  BY LoadedFirst, AgreeIs DEF IInv
<1>2. IInv /\ [Next]_vars =>
        [/\ result' = "Ok"
         /\ \/ Agree(app) \/ app'.files # app.files \/ app'.file_index # app.file_index
            \/ app'.revisions # app.revisions
         => Agree(app')]_vars
  <2> SUFFICES ASSUME IInv, Next, result' = "Ok",
                      \/ Agree(app) \/ app'.files # app.files \/ app'.file_index # app.file_index
                      \/ app'.revisions # app.revisions
               PROVE  Agree(app')
    OBVIOUS
  <2>1. Kept(app, app') /\ Readable(app) /\ Readable(app')
    BY EveryStep DEF Advances, IInv
  <2>2. CASE HistoryOfFile(app')
    BY <2>1, <2>2, AgreeIs
  <2>3. CASE SameFile(app, app')
    <3>1. HistoryOfFile(app)
      BY <2>1, <2>3, AgreeIs DEF SameFile
    <3>2. HistoryOfFile(app')
      BY <3>1, <2>3 DEF SameFile, HistoryOfFile, selected_file
    <3> QED BY <2>1, <3>2, AgreeIs
  <2> QED BY <2>1, <2>2, <2>3 DEF Kept
<1> QED BY <1>1, <1>2, TuiInvariant, PTL DEF Spec, DialogueNamesRestored

(* Whatever tabs, marks and results are visited, a diff that is shown bears    *)
(* its own label.                                                            *)
THEOREM DiffIsLabelled == Spec => DiffLabelled
<1>1. Init => Labelled(app)
  BY LoadedFirst
<1>2. IInv /\ [Next]_vars =>
        [/\ result' = "Ok"
         /\ \/ Labelled(app) \/ app'.diff # app.diff \/ app'.diff_context # app.diff_context
         => Labelled(app')]_vars
  <2> SUFFICES ASSUME IInv, Next, result' = "Ok",
                      \/ Labelled(app) \/ app'.diff # app.diff
                      \/ app'.diff_context # app.diff_context
               PROVE  Labelled(app')
    OBVIOUS
  <2>1. Kept(app, app')
    BY EveryStep DEF Advances
  <2> QED BY <2>1 DEF Kept, SameDiff, Labelled
<1> QED BY <1>1, <1>2, TuiInvariant, PTL DEF Spec, DiffLabelled

(* Neither tags nor what others publish move the selection of the history,     *)
(* nor do handlers that fail.                                                *)
THEOREM SelectionIsSteady == Spec => SelectionSteady
<1>1. IInv /\ [Next]_vars =>
        [\/ SelectedId(app') = SelectedId(app)
         \/ app.mode = "Main" /\ app.main_tab # "Timeline" /\ app.panel \in {"Files", "History"}
         \/ app.mode = "ConfirmRestore"
         \/ app.revisions = <<>> \/ ~ Agree(app) \/ SelectedId(app) \notin Listed(repo')]_vars
  <2> SUFFICES ASSUME IInv, Next PROVE SelectedId(app') = SelectedId(app) \/ Chosen
    BY DEF Choosing, Chosen
  <2> QED BY EveryStep DEF Advances
<1> QED BY <1>1, TuiInvariant, PTL DEF Spec, SelectionSteady

(* A restore that succeeds selects the revision it published, and shows no     *)
(* other's diff, if it was of the selected file.                              *)
THEOREM RestoreIsShown == Spec => RestoreShown
<1>1. IInv /\ [Next]_vars =>
        [Len(repo') > Len(repo) /\ keys' # keys /\ result' = "Ok" /\ Agree(app) =>
           /\ SelectedId(app') = Id(Last(repo'))
           /\ app'.diff # NoDiff => app'.diff_context = Id(Last(repo'))]_vars
  <2> SUFFICES ASSUME IInv, Next, Len(repo') > Len(repo), keys' # keys, result' = "Ok", Agree(app)
               PROVE  Shown(app')
    BY DEF Shown
  <2> QED BY EveryStep DEF Advances
<1> QED BY <1>1, TuiInvariant, PTL DEF Spec, RestoreShown
=============================================================================
