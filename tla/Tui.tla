--------------------------------- MODULE Tui ---------------------------------
(***************************************************************************)
(* The terminal user interface (src/src/tui.rs): one record of state, App,  *)
(* which the handler of each key turns into the next one, over a repository *)
(* that other processes publish to, and withdraw from, meanwhile.  Every    *)
(* handler reads the repository anew or works on what an earlier one kept;  *)
(* when a read fails it returns at once, with what it has changed so far:   *)
(* XFails(a) are the states in which a failing X leaves a.  Positions count *)
(* from 0, as in the code.  Widths, scrolling and styles are left out.      *)
(***************************************************************************)
EXTENDS Integers, SequencesExt

CONSTANTS
  PathOrder,     \* the files that may have revisions, in the order of sort()
  DirOrder,      \* their directories, in order
  DirOf,         \* the directory of each file
  NameOf,        \* the name of each file, a word
  FieldOrder,    \* the fields of the metadata filter, in the order of next()
  Chars, Blank,  \* what is typed, and the blank that trim removes
  Texts,         \* words a revision may render to
  Epochs,        \* seconds at which revisions are made
  Starts,        \* repositories the program may be started on
  MaxRevisions,  \* bound: revisions in the repository
  MaxInput,      \* bound: characters typed into a field
  MaxKeys,       \* bound: keys pressed
  MaxPublished,  \* bound: revisions that other processes publish meanwhile
  Faults,        \* "read", "write": a handler may fail to read, or to tag or restore
  None           \* no value

ASSUME TuiAssumption ==
  /\ PathOrder \in Seq(ToSet(PathOrder)) /\ DirOrder \in Seq(ToSet(DirOrder))
  /\ DirOf \in [ToSet(PathOrder) -> ToSet(DirOrder)]
  /\ Blank \in Chars /\ Epochs \subseteq Int
  /\ {MaxRevisions, MaxInput, MaxKeys, MaxPublished} \subseteq Nat

VARIABLES
  repo,       \* the revisions that are listed, in the order of publication
  tags,       \* the text of the tag file of each number of each file, or <<>>
  app,        \* the state of the program
  result,     \* what handle_key returned last
  keys,       \* keys pressed
  published,  \* revisions published by others
  pending     \* the revision whose publisher, another process, has the lock

vars == <<repo, tags, app, result, keys, published, pending>>

Tabs == {"Timeline", "ReposFiles", "Search"}
Panels == {"Files", "History", "Diff"}
Modes == {"Main", "Help", "SearchInput", "Inspect", "TagInput", "ConfirmRestore", "Filters"}
Kinds == {"Edit", "Access"}   \* a Create is shown as an Edit is
Paths == ToSet(PathOrder)
Inputs == BoundedSeq(Chars, MaxInput)
Ids == Paths \X (1 .. MaxRevisions)

Revisions == [path : Paths, number : 1 .. MaxRevisions, kind : Kinds,
              epoch : Epochs, text : Texts]
Id(r) == <<r.path, r.number>>
Listed(s) == {Id(s[i]) : i \in DOMAIN s}
Found(s, id) == s[CHOOSE i \in DOMAIN s : Id(s[i]) = id]

ASSUME StartsAssumption == \A s \in Starts : s \in Seq(Revisions) /\ Len(s) <= MaxRevisions

-----------------------------------------------------------------------------
(* Lists and positions in them.                                              *)

Has(list, i) == i < Len(list)
Row(list, i) == list[i + 1]
(* The position of the least index in I, or 0 if there is none.               *)
First(I) == IF I = {} THEN 0 ELSE Min(I) - 1
Position(list, Test(_)) == First({i \in DOMAIN list : Test(list[i])})
At(list, x) == CHOOSE i \in DOMAIN list : list[i] = x
Least(m, n) == IF m < n THEN m ELSE n
Before(i) == IF i = 0 THEN 0 ELSE i - 1
next(i, len) == IF len = 0 THEN 0 ELSE Least(i + 1, len - 1)
Moved(i, len, down) == IF down THEN next(i, len) ELSE Before(i)
Clamped(i, len) == Least(i, Before(len))

Occurs(needle, word) ==
  \E i \in 0 .. Len(word) - Len(needle) : SubSeq(word, i + 1, i + Len(needle)) = needle
Trimmed(word) ==
  LET solid == {i \in DOMAIN word : word[i] # Blank} IN
  IF solid = {} THEN <<>>
  ELSE SubSeq(word, CHOOSE i \in solid : \A j \in solid : i <= j,
                    CHOOSE i \in solid : \A j \in solid : j <= i)

(* The members of S in the order of their keys, tuples of integers that are   *)
(* compared from the left (sort_by, sort_by_key, the order of a BTreeMap).    *)
Sooner(k, l) == \E n \in DOMAIN k : k[n] < l[n] /\ \A m \in 1 .. n - 1 : k[m] = l[m]
Sorted(S, key) ==
  LET placed == {<<Cardinality({y \in S : Sooner(key[y], key[x])}), x>> : x \in S}
  IN  [i \in 1 .. Cardinality(S) |-> (CHOOSE p \in placed : p[1] = i - 1)[2]]

(* The rows of a list at the indices in I, sorted by the keys of the indices. *)
Rows(list, I, key) ==
  LET order == Sorted(I, key) IN [i \in DOMAIN order |-> list[order[i]]]

(* What App::load and refresh read from the repository s.  Sorting is stable, *)
(* and store.revisions() is in the order of paths and numbers.                *)
TimelineOf(s) ==
  Rows(s, DOMAIN s, [i \in DOMAIN s |->
         <<-s[i].epoch, -s[i].number, At(PathOrder, s[i].path), i>>])
FilesOf(s) ==
  LET paths == {s[i].path : i \in DOMAIN s} IN Sorted(paths, [p \in paths |-> <<At(PathOrder, p)>>])
IndicesOf(s, path) == {i \in DOMAIN s : s[i].path = path}
HistoryOf(s, path) ==
  Rows(s, IndicesOf(s, path), [i \in IndicesOf(s, path) |-> <<-s[i].number, i>>])

Visible(a) ==
  LET shown == {i \in DOMAIN a.timeline : a.timeline[i].kind # "Access"}
  IN  IF a.timeline_changes_only THEN Rows(a.timeline, shown, [i \in shown |-> <<i>>])
      ELSE a.timeline

(* The directories of the files, each followed by its files if it is open.    *)
Directory(d) == [directory |-> TRUE, path |-> d]
File(p) == [directory |-> FALSE, path |-> p]
NodesOf(files, expanded) ==
  {Directory(DirOf[p]) : p \in files} \union {File(p) : p \in {q \in files : DirOf[q] \in expanded}}
PlaceOf(node) == IF node.directory THEN <<At(DirOrder, node.path), 0>>
                 ELSE <<At(DirOrder, DirOf[node.path]), At(PathOrder, node.path)>>

rebuild_tree(a) ==
  LET nodes == NodesOf(ToSet(a.files), a.expanded)
  IN  [a EXCEPT !.tree = Sorted(nodes, [n \in nodes |-> PlaceOf(n)])]

(* Numbers of no revision: the state before one, and the live file. *)
Previous == 0
Current == 0
NoDiff == [path |-> None, left |-> None, right |-> None]
NoTarget == <<None, 0>>

selected_file(a) == Row(a.files, a.file_index)
selected_revision(a) == Row(a.revisions, a.revision_index)
HasRevision(a) == Has(a.revisions, a.revision_index)
SelectedId(a) == IF HasRevision(a) THEN Id(selected_revision(a)) ELSE NoTarget
OnDirectory(a) == Has(a.tree, a.tree_index) /\ Row(a.tree, a.tree_index).directory

-----------------------------------------------------------------------------
(* The diff below the panels, and the item it is about.                       *)

(* What load_event_diff shows: the change the revision made, if it made one.  *)
EventDiff(r) ==
  IF r.kind = "Access" THEN NoDiff
  ELSE [path |-> r.path, left |-> Previous, right |-> r.number]

ShowEvent(a, r) ==
  [a EXCEPT !.diff_context = Id(r), !.selected_item = Id(r), !.diff = EventDiff(r)]
ShowNothing(a) == [a EXCEPT !.diff = NoDiff, !.diff_context = NoTarget]

(* load_event_diff fails: the label and the item are set, the diff is not.    *)
ShowEventFails(a, r) ==
  IF r.kind = "Access" THEN {}
  ELSE {[a EXCEPT !.diff_context = Id(r), !.selected_item = Id(r)]}

select_timeline(a) ==
  IF Has(Visible(a), a.timeline_index)
  THEN ShowEvent(a, Row(Visible(a), a.timeline_index)) ELSE ShowNothing(a)
TimelineFails(a) ==
  IF Has(Visible(a), a.timeline_index)
  THEN ShowEventFails(a, Row(Visible(a), a.timeline_index)) ELSE {}

(* The result is looked up again; one that is gone keeps the label before.    *)
select_search_result(a, s) ==
  IF ~ Has(a.search_results, a.search_index) THEN ShowNothing(a)
  ELSE LET id == Id(Row(a.search_results, a.search_index))
       IN  IF id \in Listed(s) THEN ShowEvent(a, Found(s, id)) ELSE [a EXCEPT !.diff = NoDiff]
ResultFails(a, s) ==
  IF ~ Has(a.search_results, a.search_index) THEN {}
  ELSE LET id == Id(Row(a.search_results, a.search_index))
       IN  {a} \union (IF id \in Listed(s) THEN ShowEventFails(a, Found(s, id)) ELSE {})

(* The revision that the selected one is compared with, if it is in the list. *)
LeftNumber(a) ==
  IF a.marked_revision = None THEN selected_revision(a).number ELSE a.marked_revision
HasLeft(a) == \E i \in DOMAIN a.revisions : a.revisions[i].number = LeftNumber(a)
Compared(a) ==
  LET right == selected_revision(a)
  IN  [a EXCEPT !.diff = [path |-> right.path, left |-> LeftNumber(a),
                          right |-> IF a.compare_current THEN Current ELSE right.number],
                !.diff_context = Id(right)]

(* Mutant: a marked revision of another file keeps the diff shown before.     *)
StaleUpdateDiff(a) ==
  IF ~HasRevision(a) THEN ShowNothing(a)
  ELSE IF ~ HasLeft(a) THEN [a EXCEPT !.diff_context = SelectedId(a)]
  ELSE [Compared(a) EXCEPT !.selected_item = SelectedId(a)]

update_diff(a) ==
  IF ~HasRevision(a) THEN ShowNothing(a)
  ELSE IF ~ HasLeft(a) THEN [a EXCEPT !.diff = NoDiff]
  ELSE [Compared(a) EXCEPT !.selected_item = SelectedId(a)]

(* It fails before the diff is made, or after it when the kind is looked up.  *)
HistoryFails(a) ==
  IF ~ HasRevision(a) \/ ~ HasLeft(a) THEN {}
  ELSE {a} \union (IF selected_revision(a).kind = "Access" THEN {} ELSE {Compared(a)})

ShowTab(a, s) ==
  CASE a.main_tab = "Timeline" -> select_timeline(a)
    [] a.main_tab = "ReposFiles" -> update_diff(a)
    [] a.main_tab = "Search" -> select_search_result(a, s)
TabFails(a, s) ==
  CASE a.main_tab = "Timeline" -> TimelineFails(a)
    [] a.main_tab = "ReposFiles" -> HistoryFails(a)
    [] a.main_tab = "Search" -> ResultFails(a, s)

-----------------------------------------------------------------------------
(* refresh: the lists are read again; the file and the number of the revision *)
(* selected stay selected, the row of the timeline stays where it is.         *)

FilesRead(a, s) ==
  LET files == FilesOf(s)
  IN  [a EXCEPT !.files = files,
                !.file_index = IF Has(a.files, a.file_index)
                               THEN Position(files, LAMBDA p : p = selected_file(a)) ELSE @]

Reread(a, s) ==
  LET b == FilesRead(a, s)
      history == IF Has(b.files, b.file_index) THEN HistoryOf(s, selected_file(b)) ELSE <<>>
      read == rebuild_tree([b EXCEPT !.timeline = TimelineOf(s), !.revisions = history])
  IN  [read EXCEPT
        !.timeline_index = Clamped(@, Len(Visible(read))),
        !.tree_index = IF b.files = <<>> THEN @
                       ELSE Position(read.tree, LAMBDA n : n = File(selected_file(b)))]

(* Mutant: the row of the history stays where it is, too.                     *)
RowReselected(a, s) == Reread(a, s)

Reselected(a, s) ==
  LET read == Reread(a, s)
  IN  [read EXCEPT !.revision_index =
         IF HasRevision(a)
         THEN Position(read.revisions, LAMBDA r : r.number = selected_revision(a).number)
         ELSE @]

refresh(a, s) == LET b == Reselected(a, s) IN ShowTab(b, s)

(* It fails before anything is listed; at the kind of a revision, when the    *)
(* files are those of s and the history is still the one before; or at the    *)
(* diff, when every list has been read.                                       *)
RefreshFails(a, s) ==
  {a} \union {FilesRead(a, s) : i \in {j \in DOMAIN s : s[j].kind # "Access"}}
      \union TabFails(Reselected(a, s), s)

(* App::load *)
Loaded(s) ==
  refresh([main_tab |-> "Timeline", panel |-> "Files", mode |-> "Main",
           files |-> FilesOf(s), file_index |-> 0,
           expanded |-> {DirOf[s[i].path] : i \in DOMAIN s}, tree |-> <<>>, tree_index |-> 0,
           revisions |-> <<>>, revision_index |-> 0,
           timeline |-> <<>>, timeline_index |-> 0, timeline_changes_only |-> FALSE,
           marked_revision |-> None, compare_current |-> TRUE,
           diff |-> NoDiff, diff_context |-> NoTarget, selected_item |-> NoTarget,
           inspect |-> NoTarget, input |-> <<>>, search_results |-> <<>>, search_index |-> 0,
           restore_rendered |-> TRUE, filters |-> [f \in ToSet(FieldOrder) |-> <<>>],
           filter_field |-> FieldOrder[1], back_mode |-> "Main", filter_origin |-> "Main",
           quit |-> FALSE], s)

-----------------------------------------------------------------------------
(* Searching.                                                                *)

Field(r, f) == IF f = "path" THEN NameOf[r.path] ELSE tags[Id(r)]
Matches(filters, r) == \A f \in DOMAIN filters : Occurs(filters[f], Field(r, f))

Hit(r, needle) == \/ Occurs(needle, r.text)
                  \/ Occurs(needle, tags[Id(r)])
                  \/ Occurs(needle, NameOf[r.path])

Searched(a) == {i \in DOMAIN repo : Matches(a.filters, repo[i])}
Hits(a) == {i \in Searched(a) : Hit(repo[i], a.input)}

(* search, as update_incremental_search calls it.                             *)
Results(a) ==
  LET byFile == [i \in Hits(a) |->
        <<At(PathOrder, repo[i].path), -repo[i].epoch, -repo[i].number, i>>]
  IN  [a EXCEPT !.search_results = Rows(repo, Hits(a), byFile),
                !.search_index = 0, !.main_tab = "Search"]
search(a) == LET b == Results(a) IN select_search_result(b, repo)

(* It fails at a revision that cannot be read, with the hits before it in the  *)
(* order of store.revisions(), or when it has found all and shows the first.  *)
SearchFails(a) ==
  LET place == [i \in DOMAIN repo |-> <<At(PathOrder, repo[i].path), repo[i].number, i>>]
      Until(I) == [a EXCEPT !.search_results = Rows(repo, I, place)]
  IN  {Until({})}
      \union {Until({j \in Hits(a) : Sooner(place[j], place[i])}) : i \in Searched(a)}
      \union ResultFails(Results(a), repo)

update_incremental_search(a) ==
  [(IF a.input = <<>>
    THEN [ShowNothing(a) EXCEPT !.search_results = <<>>, !.search_index = 0,
                                !.selected_item = NoTarget]
    ELSE search(a)) EXCEPT !.mode = "SearchInput"]

-----------------------------------------------------------------------------
(* What is on the screen: the list of the tab, its highlighted row, and the  *)
(* dialogue over it.                                                          *)

TimelineView(a) == IF Has(Visible(a), a.timeline_index)
                   THEN Id(Row(Visible(a), a.timeline_index)) ELSE NoTarget
HistoryView(a) == SelectedId(a)
SearchView(a) == IF Has(a.search_results, a.search_index)
                 THEN Id(Row(a.search_results, a.search_index)) ELSE NoTarget
Highlighted(a) == CASE a.main_tab = "Timeline" -> TimelineView(a)
                    [] a.main_tab = "ReposFiles" -> HistoryView(a)
                    [] a.main_tab = "Search" -> SearchView(a)

(* The file and the revision that the dialogue of ConfirmRestore names.       *)
Asked(a) == <<selected_file(a), selected_revision(a).number>>

-----------------------------------------------------------------------------
(* The handlers of keys (handle_key).                                         *)

Typing == app.mode \in {"SearchInput", "TagInput"}
Commands == app.mode \notin {"SearchInput", "TagInput", "Filters", "ConfirmRestore"}

(* A key is pressed, and its handler makes a of the program's state.          *)
Press(a, answer) ==
  /\ ~ app.quit /\ keys < MaxKeys
  /\ keys' = keys + 1
  /\ app' = a /\ result' = answer
  /\ UNCHANGED <<published, pending>>

record_error(a) == [a EXCEPT !.mode = "Main"]

(* The handler succeeds, or fails to read and leaves one of the states given. *)
Answered(a, failing) ==
  \/ Press(a, "Ok")
  \/ "read" \in Faults /\ \E b \in failing : Press(record_error(b), "Err")
Handled(a, failing) == Answered(a, failing) /\ UNCHANGED <<repo, tags>>
Set(a) == Handled(a, {})

NextOf == [Timeline |-> "ReposFiles", ReposFiles |-> "Search", Search |-> "Timeline"]
PreviousOf == [Timeline |-> "Search", ReposFiles |-> "Timeline", Search |-> "ReposFiles"]

activate_tab(a) ==
  ShowTab([a EXCEPT !.mode = IF a.main_tab = "Search" THEN "SearchInput" ELSE "Main"], repo)

SwitchTab ==
  /\ Typing \/ Commands
  /\ \E to \in {NextOf, PreviousOf} :
       LET a == [app EXCEPT !.main_tab = to[@]] IN Handled(activate_tab(a), TabFails(a, repo))

(* Esc in each mode; back is the last two cases.                              *)
Escaped(a) ==
  CASE a.mode \in {"SearchInput", "TagInput"} -> [a EXCEPT !.input = <<>>, !.mode = "Main"]
    [] a.mode = "Filters" -> [a EXCEPT !.mode = a.filter_origin]
    [] a.mode = "Inspect" -> [a EXCEPT !.mode = a.back_mode]
    [] OTHER -> [a EXCEPT !.mode = "Main"]

Escape == Set(Escaped(app))
Quit == /\ Commands
        /\ Set(IF app.mode = "Main" THEN [app EXCEPT !.quit = TRUE] ELSE Escaped(app))

inspect_selected(a) ==
  IF a.selected_item = NoTarget THEN a
  ELSE [a EXCEPT !.inspect = a.selected_item, !.back_mode = a.mode, !.mode = "Inspect"]
InspectFails(a) == IF a.selected_item = NoTarget THEN {} ELSE {a}

(* Control-C, whatever the mode. *)
Interrupt == Set([app EXCEPT !.quit = TRUE])

(* Characters and Backspace in the search and tag fields.                     *)
Edited(input) ==
  /\ Typing
  /\ LET a == [app EXCEPT !.input = input]
     IN  IF app.mode # "SearchInput" THEN Set(a)
         ELSE Handled(update_incremental_search(a),
                      IF input = <<>> THEN {} ELSE SearchFails(a))
Type == \E c \in Chars : Len(app.input) < MaxInput /\ Edited(Append(app.input, c))
Backspace == Edited(IF app.input = <<>> THEN <<>> ELSE Front(app.input))

(* Up and Down in the results while the query is typed.                       *)
MoveResult ==
  /\ app.mode = "SearchInput"
  /\ \E down \in BOOLEAN :
       LET a == [app EXCEPT !.search_index = Moved(@, Len(app.search_results), down)]
       IN  Handled(select_search_result(a, repo), ResultFails(a, repo))

(* The file of the row of the tree is selected before its history is read.    *)
OnFile(a) == Has(a.tree, a.tree_index) /\ ~ OnDirectory(a)
TreeFile(a) ==
  [a EXCEPT !.revision_index = 0,
            !.file_index = Position(a.files, LAMBDA p : p = Row(a.tree, a.tree_index).path)]

(* Mutant: the history is not read for the file that is selected now.         *)
OldTreeFile(a, s) == IF OnFile(a) THEN ShowTab(TreeFile(a), s) ELSE a

select_tree_file(a, s) == IF OnFile(a) THEN refresh(TreeFile(a), s) ELSE a
TreeFileFails(a, s) == IF OnFile(a) THEN RefreshFails(TreeFile(a), s) ELSE {}

(* move_down and move_up: in the timeline, the tree and the history.          *)
Moving == app.mode = "Main"
MoveTimeline ==
  /\ Commands /\ Moving /\ app.main_tab = "Timeline"
  /\ \E down \in BOOLEAN :
       LET a == [app EXCEPT !.timeline_index = Moved(@, Len(Visible(app)), down)]
       IN  Handled(select_timeline(a), TimelineFails(a))
MoveFiles ==
  /\ Commands /\ Moving /\ app.main_tab # "Timeline" /\ app.panel = "Files"
  /\ \E down \in BOOLEAN :
       LET a == [app EXCEPT !.tree_index = Moved(@, Len(app.tree), down)]
       IN  Handled(select_tree_file(a, repo), TreeFileFails(a, repo))
MoveHistory ==
  /\ Commands /\ Moving /\ app.main_tab # "Timeline" /\ app.panel = "History"
  /\ \E down \in BOOLEAN :
       LET a == [app EXCEPT !.revision_index = Moved(@, Len(app.revisions), down)]
       IN  Handled(update_diff(a), HistoryFails(a))
Scroll ==
  /\ Commands
  /\ ~ Moving \/ (app.main_tab # "Timeline" /\ app.panel = "Diff")
  /\ Set(app)
Move == MoveTimeline \/ MoveFiles \/ MoveHistory \/ Scroll

toggle_tree(a, expand) ==
  IF ~ Has(a.tree, a.tree_index) THEN a
  ELSE LET node == Row(a.tree, a.tree_index)
           d == IF node.directory THEN node.path ELSE DirOf[node.path]
           b == rebuild_tree([a EXCEPT !.expanded = IF expand THEN @ \union {d} ELSE @ \ {d}])
       IN  [b EXCEPT !.tree_index = Position(b.tree, LAMBDA n : n.path = d)]

Left ==
  /\ Commands
  /\ Set(IF app.main_tab # "ReposFiles" THEN [app EXCEPT !.panel = "History"]
         ELSE IF app.panel = "Files" THEN toggle_tree(app, FALSE)
         ELSE [app EXCEPT !.panel = IF @ = "Diff" THEN "History" ELSE "Files"])

Right ==
  /\ Commands
  /\ Set(IF app.main_tab # "ReposFiles" THEN [app EXCEPT !.panel = "Diff"]
         ELSE IF app.panel = "Files" /\ OnDirectory(app) THEN toggle_tree(app, TRUE)
         ELSE [app EXCEPT !.panel = IF @ = "Files" THEN "History" ELSE "Diff"])

(* Enter opens or closes a directory, or inspects the item of the diff.       *)
Open ==
  /\ app.mode \in {"Main", "SearchInput"}
  /\ IF /\ app.mode = "Main" /\ app.main_tab = "ReposFiles"
        /\ app.panel = "Files" /\ OnDirectory(app)
     THEN Set(toggle_tree(app, Row(app.tree, app.tree_index).path \notin app.expanded))
     ELSE Handled(inspect_selected(app), InspectFails(app))

(* d and c *)
Marked(a) == IF a.marked_revision # None THEN [a EXCEPT !.compare_current = FALSE]
             ELSE [a EXCEPT !.marked_revision = selected_revision(a).number]
MarkDiff ==
  /\ Commands
  /\ IF HasRevision(app) THEN Handled(update_diff(Marked(app)), HistoryFails(Marked(app)))
     ELSE Set(app)
CompareToCurrent ==
  /\ Commands
  /\ LET a == [app EXCEPT !.compare_current = TRUE] IN Handled(update_diff(a), HistoryFails(a))

(* The keys that only change the mode, or the tab: / f t H ? r g               *)
Search == Commands /\ Set([app EXCEPT !.main_tab = "Search", !.input = <<>>,
                                      !.mode = "SearchInput"])

(* Mutant: the row of the timeline is not brought back into the shorter list. *)
UnclampedFilter(a) == [a EXCEPT !.timeline_changes_only = ~ @]

(* f on the timeline shows all of it, or what changed a file.                 *)
Filtered(a) ==
  LET b == [a EXCEPT !.timeline_changes_only = ~ @]
  IN  [b EXCEPT !.timeline_index = Clamped(@, Len(Visible(b)))]
Filter ==
  /\ Commands
  /\ IF app.main_tab = "Timeline" /\ app.mode = "Main"
     THEN Handled(select_timeline(Filtered(app)), TimelineFails(Filtered(app)))
     ELSE Set([app EXCEPT !.filter_origin = app.mode, !.mode = "Filters"])

AskTag == Commands /\ Set([app EXCEPT !.input = <<>>, !.mode = "TagInput"])
Home ==
  /\ Commands
  /\ LET a == [app EXCEPT !.main_tab = "Timeline", !.mode = "Main"]
     IN  Handled(select_timeline(a), TimelineFails(a))
Help == Commands /\ Set([app EXCEPT !.mode = "Help"])
AskRestore ==
  /\ Commands
  /\ \E rendered \in BOOLEAN :
       Set([app EXCEPT !.restore_rendered = rendered, !.mode = "ConfirmRestore"])

(* The metadata filters: the next field, editing it, and saving them.         *)
NextField ==
  /\ app.mode = "Filters"
  /\ LET i == SelectInSeq(FieldOrder, LAMBDA f : f = app.filter_field)
     IN  Set([app EXCEPT !.filter_field = FieldOrder[(i % Len(FieldOrder)) + 1]])
EditField ==
  /\ app.mode = "Filters"
  /\ \E c \in Chars \union {None} :
       LET value == app.filters[app.filter_field] IN
       /\ c # None => Len(value) < MaxInput
       /\ Set([app EXCEPT !.filters[app.filter_field] =
                 IF c # None THEN Append(value, c)
                 ELSE IF value = <<>> THEN <<>> ELSE Front(value)])
SaveFilters == app.mode = "Filters" /\ Set([app EXCEPT !.mode = "Main"])

-----------------------------------------------------------------------------
(* The handlers that write to the repository.  They wait for its lock, which  *)
(* another process holds until its revision is no longer pending.             *)

(* write_tag: the tag file has the number of the revision that was listed.    *)
Tagged(a) ==
  IF HasRevision(a) THEN [tags EXCEPT ![SelectedId(a)] = Trimmed(a.input)] ELSE tags

(* tag: Enter in the tag field.                                               *)
SaveTag ==
  /\ app.mode = "TagInput" /\ Trimmed(app.input) # <<>>
  /\ HasRevision(app) => pending = NoTarget
  /\ tags' = Tagged(app) /\ UNCHANGED repo
  /\ LET a == [app EXCEPT !.input = <<>>, !.mode = "Main"]
     IN  Answered(refresh(a, repo), RefreshFails(a, repo))
RefuseTag == app.mode = "TagInput" /\ Trimmed(app.input) = <<>> /\ Set(app)

(* write_tag fails, before or after it has put the new file in place.         *)
TagFails ==
  /\ "write" \in Faults /\ app.mode = "TagInput" /\ Trimmed(app.input) # <<>> /\ HasRevision(app)
  /\ tags' = tags \/ (pending = NoTarget /\ tags' = Tagged(app))
  /\ UNCHANGED repo
  /\ Press(record_error(app), "Err")

(* Mutant: the number of the latest revision is given again.                  *)
UsedNumber(s, path) == Cardinality(IndicesOf(s, path))
NumberOf(s, path) == Cardinality(IndicesOf(s, path)) + 1
Made(s, path, kind, epoch, text) ==
  Append(s, [path |-> path, number |-> NumberOf(s, path), kind |-> kind,
             epoch |-> epoch, text |-> text])

(* restore_revision publishes the live state first when it is not the latest  *)
(* revision's, then the restored one: the content of the revision, as it is   *)
(* found now, or what was there before it.                                    *)
Synced(s, path) == {Made(s, path, "Edit", epoch, live) : epoch \in Epochs, live \in Texts}
Republished(s, id, rendered) ==
  {Made(t, id[1], kind, epoch, text) :
     t \in {s} \union Synced(s, id[1]), kind \in Kinds, epoch \in Epochs,
     text \in IF rendered THEN {Found(s, id).text} ELSE Texts}

(* Mutant: the revision selected before stays selected.                       *)
OldSelection(a, s) == refresh(a, s)

(* restore, once the revision is published: the lists are read again, and the *)
(* new revision is selected.                                                  *)
Restored(a, s) ==
  LET b == refresh(a, s)
  IN  [b EXCEPT !.revision_index =
         Position(b.revisions, LAMBDA r : r.number = Last(s).number)]

Restore ==
  /\ app.mode = "ConfirmRestore" /\ HasRevision(app)
  /\ pending = NoTarget /\ SelectedId(app) \in Listed(repo)
  /\ \E s \in Republished(repo, SelectedId(app), app.restore_rendered) :
       LET a == [app EXCEPT !.mode = "Main"]
           b == Restored(a, s) IN
       /\ Len(s) <= MaxRevisions /\ repo' = s /\ UNCHANGED tags
       /\ Answered(update_diff(b), RefreshFails(a, s) \union HistoryFails(b))
NothingToRestore == app.mode = "ConfirmRestore" /\ ~ HasRevision(app) /\ Set(app)

(* restore_revision fails, as it does for a revision that is gone; the live    *)
(* state of a file that still has one may have been published.                *)
RestoreFails ==
  /\ app.mode = "ConfirmRestore" /\ HasRevision(app)
  /\ "write" \in Faults \/ SelectedId(app) \notin Listed(repo)
  /\ \/ repo' = repo
     \/ /\ pending = NoTarget /\ IndicesOf(repo, SelectedId(app)[1]) # {}
        /\ \E s \in Synced(repo, SelectedId(app)[1]) : repo' = s
  /\ Len(repo') <= MaxRevisions /\ UNCHANGED tags
  /\ Press(record_error(app), "Err")

(* Another process publishes a revision.  It is listed while the call is under *)
(* way, which returns, or dies, or fails and takes the revision back.          *)
Publish ==
  /\ ~ app.quit /\ published < MaxPublished /\ Len(repo) < MaxRevisions /\ pending = NoTarget
  /\ published' = published + 1
  /\ \E path \in Paths, kind \in Kinds, epoch \in Epochs, text \in Texts :
       repo' = Made(repo, path, kind, epoch, text)
  /\ pending' = Id(Last(repo'))
  /\ UNCHANGED <<tags, app, result, keys>>
Settle ==
  /\ ~ app.quit /\ pending # NoTarget /\ pending' = NoTarget
  /\ UNCHANGED <<repo, tags, app, result, keys, published>>
Withdraw ==
  /\ ~ app.quit /\ pending # NoTarget /\ pending' = NoTarget
  /\ repo' = Front(repo)
  /\ UNCHANGED <<tags, app, result, keys, published>>

Init == /\ repo \in Starts
        /\ tags = [id \in Ids |-> <<>>]
        /\ app = Loaded(repo) /\ result = "Ok"
        /\ keys = 0 /\ published = 0 /\ pending = NoTarget

Next ==
  \/ SwitchTab \/ Escape \/ Quit \/ Interrupt \/ Type \/ Backspace \/ MoveResult \/ Move
  \/ Left \/ Right \/ Open \/ MarkDiff \/ CompareToCurrent \/ Search \/ Filter
  \/ AskTag \/ Home \/ Help \/ AskRestore \/ NextField \/ EditField \/ SaveFilters
  \/ SaveTag \/ RefuseTag \/ TagFails \/ Restore \/ NothingToRestore \/ RestoreFails
  \/ Publish \/ Settle \/ Withdraw

Spec == Init /\ [][Next]_vars

-----------------------------------------------------------------------------
(* Properties.                                                               *)

(* Types of the whole state. *)
TuiType ==
  /\ ToSet(repo) \subseteq Revisions /\ Len(repo) <= MaxRevisions
  /\ tags \in [Ids -> Inputs]
  /\ keys \in 0 .. MaxKeys /\ published \in 0 .. MaxPublished
  /\ result \in {"Ok", "Err"} /\ pending \in Ids \union {NoTarget}
  /\ app.main_tab \in Tabs /\ app.panel \in Panels
  /\ {app.mode, app.back_mode, app.filter_origin} \subseteq Modes
  /\ ToSet(app.files) \subseteq Paths
  /\ UNION {ToSet(app.timeline), ToSet(app.revisions), ToSet(app.search_results)}
       \subseteq Revisions
  /\ {app.diff_context, app.selected_item, app.inspect} \subseteq Ids \union {NoTarget}
  /\ app.marked_revision \in 1 .. MaxRevisions \union {None}
  /\ app.input \in Inputs /\ app.filters \in [ToSet(FieldOrder) -> Inputs]

(* After any key, whatever was published or withdrawn meanwhile, wherever a   *)
(* handler failed and however lists shrank (a filter, a directory closed), the *)
(* selection of a list that has rows is one of them.  That of the results is   *)
(* after each search that is carried out, and stays so: one that fails midway  *)
(* leaves a shorter list under the old selection.                             *)
Within(list, i) == list = <<>> \/ Has(list, i)
InRange(a) ==
  /\ Within(a.files, a.file_index) /\ Within(a.tree, a.tree_index)
  /\ Within(a.revisions, a.revision_index) /\ Within(Visible(a), a.timeline_index)
ResultInRange(a) == Within(a.search_results, a.search_index)
SelectionsInRange ==
  /\ []InRange(app)
  /\ [][/\ result' = "Ok"
        /\ ResultInRange(app) \/ app'.search_results # app.search_results
        => ResultInRange(app')]_vars

(* The dialogue that asks whether to restore takes the file from one list and *)
(* restore the revision from another, read at another time.  They agree when  *)
(* the program is loaded and whenever a handler that succeeds has read either  *)
(* list anew, and no key that succeeds makes them disagree.                   *)
Agree(a) == HasRevision(a) => Asked(a) = SelectedId(a)
DialogueNamesRestored ==
  /\ Agree(app)
  /\ [][/\ result' = "Ok"
        /\ \/ Agree(app) \/ app'.files # app.files \/ app'.file_index # app.file_index
           \/ app'.revisions # app.revisions
        => Agree(app')]_vars

(* A diff leads to the revision of its label, or from it or the marked one to *)
(* the current state.                                                        *)
Labelled(a) ==
  a.diff # NoDiff =>
    /\ a.diff.path = a.diff_context[1]
    /\ IF a.diff.right = Current
       THEN a.diff.left \in {a.diff_context[2], a.marked_revision}
       ELSE a.diff.right = a.diff_context[2]

(* No key that succeeds leaves a diff under the label of another revision,    *)
(* whichever tabs, marks and results were visited since it was made, unless a  *)
(* handler that failed left it so and the key touches neither.                 *)
DiffLabelled ==
  /\ Labelled(app)
  /\ [][/\ result' = "Ok"
        /\ \/ Labelled(app) \/ app'.diff # app.diff \/ app'.diff_context # app.diff_context
        => Labelled(app')]_vars

(* What others publish, tags, and handlers that fail never move the selection  *)
(* of the history to another revision while the selected one is listed and its *)
(* file is the selected one: only choosing a file or a row and restoring do.   *)
SelectionSteady ==
  [][\/ SelectedId(app') = SelectedId(app)
     \/ app.mode = "Main" /\ app.main_tab # "Timeline" /\ app.panel \in {"Files", "History"}
     \/ app.mode = "ConfirmRestore"
     \/ app.revisions = <<>> \/ ~ Agree(app) \/ SelectedId(app) \notin Listed(repo')]_vars

(* After a restore that succeeds the revision it published is the selected one, *)
(* and the diff is that of its file, even if the timeline is shown, a revision  *)
(* of another file is marked or the list was read before others published.     *)
RestoreShown ==
  [][Len(repo') > Len(repo) /\ keys' # keys /\ result' = "Ok" /\ Agree(app) =>
       /\ SelectedId(app') = Id(Last(repo'))
       /\ app'.diff # NoDiff => app'.diff_context = Id(Last(repo'))]_vars

(* A tag is put on the revision that is highlighted when it is asked for.     *)
TagsHighlighted ==
  [][\A id \in Ids : tags'[id] # tags[id] => id = Highlighted(app)]_vars
=============================================================================
