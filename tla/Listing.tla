------------------------------- MODULE Listing -------------------------------
(***************************************************************************)
(* A client that reads the repository while Publication's calls write it:   *)
(* Store::revisions builds one row per revision, and then either            *)
(* Store::render gives the content of a row, or bedit -ls joins the rows    *)
(* with Store::index_entries, or bedit -s and -g read the files that the     *)
(* rows name (src/src/store/mod.rs, src/src/cli.rs).  A reader takes no     *)
(* lock: each file it reads is a step of its own.                           *)
(***************************************************************************)
EXTENDS Publication

CONSTANTS
  Dirs,  \* directories of the edited files
  DirOf  \* the directory of the file each publisher saves

ASSUME DirAssumption == DirOf \in [Publishers -> Dirs]

VARIABLES
  stage,    \* what the reader does next; "failed": it returned an error
  pending,  \* slots, then index directories, that are still to be read
  at,       \* the slot or the key being read
  row,      \* what has been read of the revision at
  rows,     \* the rows built, by slot
  base,     \* the backup read by render
  output,   \* what render returned
  dir,      \* the directory named by the .branch file of the key at
  links,    \* entries of its index directory, or files, that are still to be read
  items,    \* those that were read
  began     \* publishers that had returned when the reader began (history)

rowVars == <<at, row, rows>>
renderVars == <<base, output>>
indexVars == <<dir, links, items>>
reader == <<stage, pending, rowVars, renderVars, indexVars, began>>

Blank == [writer |-> None, tag |-> None, actor |-> None, diff |-> FALSE]
Writers == Publishers \union {None}
Rows == [writer : Publishers, tag : Writers, actor : Writers, diff : BOOLEAN]

ASSUME RowsAssumption == None \notin Rows \union Dirs

RowStages == {"ready", "rows", "backup", "tag", "actor", "diff"}
LaterStages == {"listed", "patch", "rendered", "keys", "entries", "links", "printed",
                "files", "searched", "got"}
Kept == {"backup", "diff"}

ListingType ==
  /\ stage \in RowStages \union LaterStages \union {"failed"}
  /\ pending \subseteq Slots \union Keys
  /\ at \in Slots \union Keys \union {None}
  /\ row \in Rows \union {Blank}
  /\ rows \in [Slots -> Rows \union {None}]
  /\ base \in Writers
  /\ output \in ({"baseline", "represented", "mixed"} \X Publishers) \union {None}
  /\ dir \in Dirs \union {None}
  /\ links \subseteq Slots \X (Links \union Kept)
  /\ items \subseteq [slot : Slots, kind : Links \union Kept, dir : Dirs]
  /\ began \subseteq Publishers

ListingInit ==
  /\ Init
  /\ stage = "ready"
  /\ pending = {} /\ links = {} /\ items = {} /\ began = {}
  /\ at = None /\ base = None /\ output = None /\ dir = None
  /\ row = Blank
  /\ rows = [s \in Slots |-> None]

Continue(from, to) ==
  /\ stage = from
  /\ stage' = to

-----------------------------------------------------------------------------
(* trusted_revisions *)

(* The directory of access records is listed at once. *)
ListAccess ==
  /\ Continue("ready", "rows")
  /\ pending' = {s \in Slots : record["access"][s] # None}
  /\ began' = {p \in Publishers : pc[p] = "done"}
  /\ UNCHANGED <<rowVars, renderVars, indexVars>>

(* Mutant: the metadata of a record that has gone is left blank. *)
ReadAccessLoosely(s) ==
  /\ s \in pending
  /\ pending' = pending \ {s}
  /\ at' = s
  /\ Continue("rows", "backup")
  /\ row' = [Blank EXCEPT !.writer = record["access"][s]]
  /\ UNCHANGED <<rows, renderVars, indexVars, began>>

(* An access record that has gone since fails the whole listing. *)
ReadAccess(s) ==
  /\ s \in pending
  /\ pending' = pending \ {s}
  /\ at' = s
  /\ IF record["access"][s] # None
     THEN /\ Continue("rows", "backup")
          /\ row' = [Blank EXCEPT !.writer = record["access"][s]]
     ELSE Continue("rows", "failed") /\ row' = row
  /\ UNCHANGED <<rows, renderVars, indexVars, began>>

(* A revision without a backup is left out. *)
FindBackup ==
  /\ Continue("backup", IF record["backup"][at] # None THEN "tag" ELSE "rows")
  /\ UNCHANGED <<pending, rowVars, renderVars, indexVars, began>>

(* Mutant: a missing tag is an error like any other. *)
ReadTagStrictly ==
  /\ Continue("tag", IF tag[at] = None THEN "failed" ELSE "actor")
  /\ row' = [row EXCEPT !.tag = tag[at]]
  /\ UNCHANGED <<pending, at, rows, renderVars, indexVars, began>>

(* No tag file means no tag. *)
ReadTag ==
  /\ Continue("tag", "actor")
  /\ row' = [row EXCEPT !.tag = tag[at]]
  /\ UNCHANGED <<pending, at, rows, renderVars, indexVars, began>>

(* Mutant: the actor is the owner of the history, whoever saved. *)
ReadActorNever ==
  /\ Continue("actor", "diff")
  /\ UNCHANGED <<pending, rowVars, renderVars, indexVars, began>>

(* No actor record: the history's owner (None). *)
ReadActor ==
  /\ Continue("actor", "diff")
  /\ row' = [row EXCEPT !.actor = record["actor"][at]]
  /\ UNCHANGED <<pending, at, rows, renderVars, indexVars, began>>

FindDiff ==
  /\ Continue("diff", "rows")
  /\ rows' = [rows EXCEPT ![at] = [row EXCEPT !.diff = record["diff"][at] # None]]
  /\ UNCHANGED <<pending, at, row, renderVars, indexVars, began>>

EndRows ==
  /\ pending = {}
  /\ Continue("rows", "listed")
  /\ at' = None /\ row' = Blank
  /\ UNCHANGED <<pending, rows, renderVars, indexVars, began>>

-----------------------------------------------------------------------------
(* Store::render *)

(* The row decides whether there is a diff to apply. *)
ReadBackup(s) ==
  LET found == record["backup"][s]
      whole == found # None /\ ~ rows[s].diff
  IN  /\ rows[s] # None
      /\ Continue("listed", CASE found = None -> "failed"
                              [] whole -> "rendered"
                              [] OTHER -> "patch")
      /\ at' = s
      /\ row' = rows[s]
      /\ base' = found
      /\ output' = IF whole THEN Content(found) ELSE None
      /\ UNCHANGED <<pending, rows, indexVars, began>>

(* A diff that has gone since is an error. *)
Patch ==
  LET diff == record["diff"][at]
  IN  /\ Continue("patch", IF diff = None THEN "failed" ELSE "rendered")
      /\ output' = IF diff = None THEN None ELSE Patched(base, diff)
      /\ UNCHANGED <<pending, rowVars, base, indexVars, began>>

-----------------------------------------------------------------------------
(* trusted_index_entries *)

ListKeys ==
  /\ Continue("listed", "keys")
  /\ pending' = indexed
  /\ UNCHANGED <<rowVars, renderVars, indexVars, began>>

(* An index directory without its .branch file fails the whole listing. *)
ReadBranch(key) ==
  /\ key \in pending
  /\ pending' = pending \ {key}
  /\ at' = key
  /\ IF branch[key] = None
     THEN Continue("keys", "failed") /\ dir' = dir
     ELSE Continue("keys", "entries") /\ dir' = DirOf[branch[key]]
  /\ UNCHANGED <<row, rows, renderVars, links, items, began>>

(* Mutant: only access and backup links are recognised. *)
ListLinksWithoutDiffs ==
  /\ Continue("entries", "links")
  /\ links' = {l \in Slots \X {"linka", "linkb"} :
                 KeyOf[l[1][1]] = at /\ record[l[2]][l[1]] # None}
  /\ UNCHANGED <<pending, rowVars, renderVars, dir, items, began>>

ListLinks ==
  /\ Continue("entries", "links")
  /\ links' = {l \in Slots \X Links : KeyOf[l[1][1]] = at /\ record[l[2]][l[1]] # None}
  /\ UNCHANGED <<pending, rowVars, renderVars, dir, items, began>>

ReadLink(s, k) ==
  LET gone == record[k][s] = None
  IN  /\ <<s, k>> \in links
      /\ Continue("links", IF gone THEN "failed" ELSE "links")
      /\ links' = links \ {<<s, k>>}
      /\ items' = IF gone THEN items
                  ELSE items \union {[slot |-> s, kind |-> k, dir |-> dir]}
      /\ UNCHANGED <<pending, rowVars, renderVars, dir, began>>

EndLinks ==
  /\ links = {}
  /\ Continue("links", "keys")
  /\ UNCHANGED <<pending, rowVars, renderVars, indexVars, began>>

EndKeys ==
  /\ pending = {}
  /\ Continue("keys", "printed")
  /\ UNCHANGED <<pending, rowVars, renderVars, indexVars, began>>

-----------------------------------------------------------------------------
(* bedit -s and -g: the backups and diffs themselves *)

FilesOf(s) == IF rows[s] = None THEN {} ELSE {s} \X (IF rows[s].diff THEN Kept ELSE {"backup"})

(* -s reads what every row names. *)
Search ==
  /\ Continue("listed", "files")
  /\ links' = UNION {FilesOf(s) : s \in Slots}
  /\ UNCHANGED <<pending, rowVars, renderVars, dir, items, began>>

(* A file that has gone since ends it with an error. *)
ReadFile(s, k) ==
  LET gone == record[k][s] = None
  IN  /\ <<s, k>> \in links
      /\ Continue("files", IF gone THEN "failed" ELSE "files")
      /\ at' = s
      /\ links' = links \ {<<s, k>>}
      /\ items' = IF gone THEN items
                  ELSE items \union {[slot |-> s, kind |-> k, dir |-> DirOf[rows[s].writer]]}
      /\ UNCHANGED <<pending, row, rows, renderVars, dir, began>>

EndFiles ==
  /\ links = {}
  /\ Continue("files", "searched")
  /\ UNCHANGED <<pending, rowVars, renderVars, indexVars, began>>

(* -g reads one of them. *)
Get(s, k) ==
  /\ <<s, k>> \in FilesOf(s)
  /\ Continue("listed", IF record[k][s] = None THEN "failed" ELSE "got")
  /\ at' = s
  /\ UNCHANGED <<pending, row, rows, renderVars, indexVars, began>>

ReaderStep ==
  \/ ListAccess \/ FindBackup \/ ReadTag \/ ReadActor \/ FindDiff \/ EndRows
  \/ \E s \in Slots : ReadAccess(s) \/ ReadBackup(s)
  \/ Patch
  \/ ListKeys \/ ListLinks \/ EndLinks \/ EndKeys
  \/ \E key \in Keys : ReadBranch(key)
  \/ \E s \in Slots, k \in Links : ReadLink(s, k)
  \/ Search \/ EndFiles
  \/ \E s \in Slots, k \in Kept : ReadFile(s, k) \/ Get(s, k)

ListingNext ==
  \/ Next /\ UNCHANGED reader
  \/ ReaderStep /\ UNCHANGED vars

ListingSpec == ListingInit /\ [][ListingNext]_<<vars, reader>>

-----------------------------------------------------------------------------
(* The USER column of bedit -ls: "recorded_actor" of the row with the item's *)
(* path and number, and nothing if there is none (src/src/cli.rs).           *)
NoUser == "nobody"

RowFor(item) ==
  LET found == rows[item.slot]
  IN  IF found # None /\ DirOf[found.writer] = item.dir THEN found ELSE None

User(item) == IF RowFor(item) = None THEN NoUser ELSE RowFor(item).actor

(* What bedit -ls prints: of everything ("*") or of one directory.            *)
listing(scope) ==
  {[slot |-> item.slot, kind |-> item.kind, user |-> User(item)] :
     item \in {i \in items : scope \in {"*", i.dir}}}

(* bedit -h and -w, by name: the revisions, and where the files are.          *)
history(name) == {s \in Slots : s[1] = name /\ rows[s] # None}
where_cmd(name) == {DirOf[rows[s].writer] : s \in history(name)}

Actor(p) == IF p \in Foreign THEN p ELSE None

(* A listing misses no revision whose call had returned when it began, and   *)
(* shows it as it was published, whatever other calls do meanwhile.         *)
CompletedListed ==
  stage \in LaterStages => \A p \in began :
    LET found == rows[slot[p]]
    IN  /\ slot[p] \in history(NameOf[p]) /\ DirOf[p] \in where_cmd(NameOf[p])
        /\ found.writer = p /\ found.actor = Actor(p)
        /\ found.diff = (payload[p] = "diff")

(* bedit -ls prints a line for each artifact of such a revision, under the   *)
(* directory of its file and with its recorded actor; a search that ends has *)
(* read its backup and its diff.                                            *)
CompletedPrinted ==
  \A p \in began :
    /\ stage = "printed" =>
         /\ \A k \in Links \intersect Plan(p), scope \in {"*", DirOf[p]} :
              [slot |-> slot[p], kind |-> k, user |-> Actor(p)] \in listing(scope)
         /\ \A line \in listing("*") : line.slot = slot[p] => line.user = Actor(p)
    /\ stage = "searched" =>
         \A k \in Kept \intersect Plan(p) :
           [slot |-> slot[p], kind |-> k, dir |-> DirOf[p]] \in items

(* What is rendered for a row is what its writer represented, unless the     *)
(* revision has been withdrawn since: a row may be older than a rollback,   *)
(* after which its number belongs to another call.                          *)
RenderedRight ==
  stage = "rendered" /\ record["access"][at] = row.writer
    => output = <<"represented", row.writer>>

(* A listing or a render fails only on a revision that its writer withdraws, *)
(* or on the index, where a writer stands before its .branch file or died    *)
(* there: writers that die anywhere else never make the rows unreadable.     *)
RowsReadable ==
  stage = "failed" =>
    at \in Keys \/ \E p \in Publishers :
      slot[p] = at /\ \/ pc[p] \in {"rollback", "abort", "failed"}
                      \/ pc[p] = "crashed" /\ record["access"][at] # p
=============================================================================
