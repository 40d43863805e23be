------------------------------ MODULE Installer ------------------------------
(***************************************************************************)
(* The installer (src/src/installer.rs): installs, upgrades and uninstalls  *)
(* that follow one another on one prefix, each a list of tasks of one or    *)
(* two file operations.  A run may stop between any two of them, because    *)
(* one fails or the process dies, and between runs the user and the         *)
(* packages of the system put files and symbolic links at the same names.   *)
(* The prefix is written by one run at a time, and always with a payload    *)
(* (--no-copy is "retained for isolated legacy maintenance tests").         *)
(***************************************************************************)
EXTENDS Naturals, Sequences

CONSTANTS
  NAMES,           \* the commands of Bedit, in order
  Editors,         \* the names of editors the installer is called with
  LEGACY_EDITORS,  \* editors that every uninstall restores
  Pages,           \* the manual pages, in order
  WrapperOf,       \* the command that each editor's shim runs
  Instances,       \* bound: instances of the payload that are installed
  UserFiles,       \* bound: files that the user or a package puts in place
  Touched,         \* bound: names at which they put them
  Scopes,          \* "machine" or "user": whether a run may write the configuration
  Configs,         \* bound: configurations of the machine that may be found
  None             \* nothing there

Elements(s) == {s[i] : i \in DOMAIN s}

Commands == Elements(NAMES)
Shimmed == Elements(Editors)
Manuals == Elements(Pages)
Names == Commands \union Shimmed \union Elements(LEGACY_EDITORS) \union Manuals

POLICIES == {"root_and_user", "root_only"}

(* The lines of a configuration that set sudo_history, in order, and whether  *)
(* one names it without "=".  A line may be of another value, or have         *)
(* root_only and a remark ("remarked").                                       *)
SETTINGS == POLICIES \union {"remarked", "wrong"}
Configurations == [settings : Seq(SETTINGS), bare : BOOLEAN]
NoLines == [settings |-> <<>>, bare |-> FALSE]

ASSUME InstallerAssumption ==
  /\ WrapperOf \in [Shimmed -> Commands]
  /\ Commands \intersect (Shimmed \union Elements(LEGACY_EDITORS)) = {}
  /\ Touched \subseteq Names
  /\ Manuals \intersect (Commands \union Shimmed \union Elements(LEGACY_EDITORS)) = {}
  /\ Scopes \subseteq {"machine", "user"}
  /\ Configs \subseteq Configurations \union {None}
  /\ UserFiles \intersect {"link", "shim", "page", "symlink", "irregular", None} = {}
  /\ \A s \in {NAMES, Editors, LEGACY_EDITORS, Pages} : s \in Seq(Elements(s))
  /\ None \notin Configurations
  /\ None \notin POLICIES \union Instances
       \union {"named", "transparent", "link", "shim", "page", "symlink", "irregular"}

(* What Bedit puts at a name, and what may be there of others: a file, a      *)
(* link, or what is no file of one link (a directory, or a file that has a    *)
(* second name).                                                              *)
Managed == {"link", "shim", "page"}
Others == {"symlink", "irregular"}
Theirs == UserFiles \union Others
Entries == Managed \union Theirs \union {None}

Modes == {"named", "transparent"}
Kinds == {"migrate", "clean", "copy", "switch", "manifest", "command", "page", "shim", "restore",
          "unpage", "tree", "config", "purge"}
Tasks == [kind : Kinds, name : Names \union {None}]

VARIABLES
  entry,     \* what is at each name of bin and man1
  backup,    \* what is at the name with .bedit-backup
  legacy,    \* commands with a payload of the old layout in libexec
  stale,     \* those with a link and a payload of the Perl release
  previous,  \* those whose old payload was set aside as .previous
  payload,   \* the commands copied to each instance below versions
  current,   \* the instance that the link current names
  manifest,  \* the mode in install-manifest
  config,    \* the settings of sudo_history in the machine's configuration
  todo,      \* the tasks of the run that remain
  half,      \* the first operation of the first of them is done
  run,       \* what the run is doing
  last,      \* how the last run ended
  mine       \* what the user has put at each name (history)

files == <<entry, backup>>
tree == <<legacy, stale, previous, payload, current, manifest>>
control == <<run, mine>>
vars == <<files, tree, config, todo, half, control, last>>

(* asked is the policy that the command line of an install gives, policy the  *)
(* one it will write.                                                         *)
Idle == [does |-> "nothing", mode |-> None, asked |-> None, policy |-> None, instance |-> None]
Runs == [does : {"nothing", "install", "uninstall"}, mode : Modes \union {None},
         asked : POLICIES \union {None}, policy : POLICIES \union {None},
         instance : Instances \union {None}]
Lasts == [does : {"nothing", "install", "uninstall"},
          end : {"none", "done", "refused", "stopped"}, mode : Modes \union {None}]
NoLast == [does |-> "nothing", end |-> "none", mode |-> None]

Fresh == {u \in UserFiles : \A n \in Names : u \notin mine[n] /\ entry[n] # u /\ backup[n] # u}

Init ==
  /\ entry \in [Names -> {None}] /\ backup \in [Names -> {None}]
  /\ legacy \in {{}, Commands} /\ stale = legacy /\ previous = {}
  /\ payload = [i \in Instances |-> {}]
  /\ current = None /\ manifest = None /\ config \in Configs
  /\ todo = <<>> /\ half = FALSE /\ run = Idle /\ last = NoLast
  /\ mine = [n \in Names |-> {}]

-----------------------------------------------------------------------------
(* The tasks of a run, in the order of install and uninstall.                 *)

Task(kind, n) == [kind |-> kind, name |-> n]
Each(kind, s) == [i \in DOMAIN s |-> Task(kind, s[i])]
Once(kind) == <<Task(kind, None)>>

(* Mutant: the payload is switched before all of it is copied.                *)
EarlySwitch(mode, policy) ==
  Each("migrate", NAMES) \o Each("clean", NAMES) \o Once("switch") \o Each("copy", NAMES)
    \o Once("manifest") \o Each("command", NAMES) \o Each("page", Pages)
    \o Each(IF mode = "transparent" THEN "shim" ELSE "restore", Editors)
    \o (IF policy = None THEN <<>> ELSE Once("config"))

(* Mutant: the shims of transparent mode stay when the mode changes.          *)
ShimsStay(mode, policy) ==
  Each("migrate", NAMES) \o Each("clean", NAMES) \o Each("copy", NAMES) \o Once("switch")
    \o Once("manifest") \o Each("command", NAMES) \o Each("page", Pages)
    \o (IF mode = "transparent" THEN Each("shim", Editors) ELSE <<>>)
    \o (IF policy = None THEN <<>> ELSE Once("config"))

InstallPlan(mode, policy) ==
  Each("migrate", NAMES) \o Each("clean", NAMES) \o Each("copy", NAMES) \o Once("switch")
    \o Once("manifest") \o Each("command", NAMES) \o Each("page", Pages)
    \o Each(IF mode = "transparent" THEN "shim" ELSE "restore", Editors)
    \o (IF policy = None THEN <<>> ELSE Once("config"))

UninstallPlan(installed, purge) ==
  Each("restore", NAMES) \o Each("restore", Editors) \o Each("restore", LEGACY_EDITORS)
    \o (IF installed THEN Each("unpage", Pages) \o Once("tree") ELSE <<>>)
    \o (IF purge THEN Once("purge") ELSE <<>>)

(* Mutant: an upgrade does not look at the configuration.                     *)
ByDefault == "root_and_user"

(* What install_bedit.sh finds in the configuration when no policy is given:  *)
(* the first setting, if it has one of the two values and nothing after it.   *)
Existing ==
  IF config # None /\ config.settings # <<>> /\ Head(config.settings) \in POLICIES
  THEN Head(config.settings) ELSE "root_and_user"

(* The policy an install writes; one for the user alone writes none, whatever *)
(* it is asked for.                                                           *)
Chosen(scope, asked) ==
  IF scope = "user" THEN None ELSE IF asked # None THEN asked ELSE Existing

Install ==
  /\ run = Idle
  /\ \E i \in Instances, mode \in Modes, scope \in Scopes, asked \in POLICIES \union {None} :
       /\ payload[i] = {} /\ current # i
       /\ scope = "user" => asked = None
       /\ run' = [does |-> "install", mode |-> mode, asked |-> asked,
                  policy |-> Chosen(scope, asked), instance |-> i]
       /\ todo' = InstallPlan(mode, Chosen(scope, asked))
  /\ half' = FALSE /\ last' = NoLast
  /\ UNCHANGED <<files, tree, config, mine>>

Uninstall ==
  /\ run = Idle
  /\ \E purge \in BOOLEAN : todo' = UninstallPlan(manifest # None, purge)
  /\ run' = [Idle EXCEPT !.does = "uninstall"]
  /\ half' = FALSE /\ last' = NoLast
  /\ UNCHANGED <<files, tree, config, mine>>

End(how) ==
  /\ run' = Idle /\ todo' = <<>> /\ half' = FALSE
  /\ last' = [does |-> run.does, end |-> how, mode |-> run.mode]
  /\ UNCHANGED mine

(* validate_payload fails before anything is touched.                         *)
RefusePayload ==
  /\ run = Idle
  /\ last' = [does |-> "install", end |-> "stopped", mode |-> None]
  /\ UNCHANGED <<files, tree, config, todo, half, control>>

-----------------------------------------------------------------------------
(* The operations.  Do(k) starts one of the task kind k that is first.        *)

Do(k) == todo # <<>> /\ Head(todo).kind = k
Name == Head(todo).name

Pop == /\ todo' = Tail(todo) /\ half' = FALSE
       /\ UNCHANGED <<control, last>>
Halfway == /\ half' = TRUE
           /\ UNCHANGED <<todo, control, last>>
Refuse == End("refused") /\ UNCHANGED <<files, tree, config>>

(* migrate_legacy_install: an old payload is set aside, but never over one.   *)
Migrate ==
  /\ Do("migrate")
  /\ IF Name \in legacy /\ Name \in previous THEN Refuse
     ELSE /\ legacy' = legacy \ {Name}
          /\ previous' = IF Name \in legacy THEN previous \union {Name} ELSE previous
          /\ Pop
          /\ UNCHANGED <<files, stale, payload, current, manifest, config>>

(* and what the Perl release left, a link and a payload for each command, is  *)
(* removed.                                                                   *)
Clean ==
  /\ Do("clean")
  /\ stale' = stale \ {Name}
  /\ Pop
  /\ UNCHANGED <<files, legacy, previous, payload, current, manifest, config>>

CopyPayload ==
  /\ Do("copy")
  /\ payload' = [payload EXCEPT ![run.instance] = @ \union {Name}]
  /\ Pop
  /\ UNCHANGED <<files, legacy, stale, previous, current, manifest, config>>

Switch ==
  /\ Do("switch")
  /\ current' = run.instance
  /\ Pop
  /\ UNCHANGED <<files, legacy, stale, previous, payload, manifest, config>>

WriteManifest ==
  /\ Do("manifest")
  /\ manifest' = run.mode
  /\ Pop
  /\ UNCHANGED <<files, legacy, stale, previous, payload, current, config>>

(* What is moved aside for a command, a shim or a page.                       *)
Foreign(n) == entry[n] \in UserFiles

(* Mutant: an earlier backup gives way.                                       *)
BackupOver ==
  /\ Do("command") \/ Do("shim")
  /\ ~ half
  /\ IF entry[Name] \in Others THEN Refuse
     ELSE /\ entry' = [entry EXCEPT ![Name] = None]
          /\ backup' = IF Foreign(Name) THEN [backup EXCEPT ![Name] = entry[Name]] ELSE backup
          /\ Halfway
          /\ UNCHANGED <<tree, config>>

(* Mutant: any backup that exists is in the way, also of a link of Bedit's.   *)
BackupFirst ==
  /\ Do("command") \/ Do("shim")
  /\ ~ half
  /\ IF entry[Name] \in Others \/ backup[Name] # None THEN Refuse
     ELSE /\ entry' = [entry EXCEPT ![Name] = None]
          /\ backup' = IF Foreign(Name) THEN [backup EXCEPT ![Name] = entry[Name]] ELSE backup
          /\ Halfway
          /\ UNCHANGED <<tree, config>>

(* Mutant: a shim of Bedit's own is set aside as if it were the user's.       *)
BackupShim ==
  /\ Do("command") \/ Do("shim")
  /\ ~ half
  /\ IF entry[Name] \in Others \/ (Foreign(Name) /\ backup[Name] # None) THEN Refuse
     ELSE /\ entry' = [entry EXCEPT ![Name] = None]
          /\ backup' = IF entry[Name] # None THEN [backup EXCEPT ![Name] = entry[Name]] ELSE backup
          /\ Halfway
          /\ UNCHANGED <<tree, config>>

(* backup_destination: what is Bedit's is removed, a file of the user's is    *)
(* renamed unless a backup exists, anything else of the user's is refused.    *)
BackupDestination ==
  /\ Do("command") \/ Do("shim")
  /\ ~ half
  /\ IF entry[Name] \in Others \/ (Foreign(Name) /\ backup[Name] # None) THEN Refuse
     ELSE /\ entry' = [entry EXCEPT ![Name] = None]
          /\ backup' = IF Foreign(Name) THEN [backup EXCEPT ![Name] = entry[Name]] ELSE backup
          /\ Halfway
          /\ UNCHANGED <<tree, config>>

PutCommand ==
  /\ Do("command") /\ half
  /\ entry' = [entry EXCEPT ![Name] = "link"]
  /\ Pop
  /\ UNCHANGED <<backup, tree, config>>

PutShim ==
  /\ Do("shim") /\ half
  /\ entry' = [entry EXCEPT ![Name] = "shim"]
  /\ Pop
  /\ UNCHANGED <<backup, tree, config>>

(* install_manpages: a page that does not name Bedit is renamed; then the     *)
(* page is replaced.                                                          *)
BackupPage ==
  /\ Do("page") /\ ~ half
  /\ IF entry[Name] \in Others \/ (Foreign(Name) /\ backup[Name] # None) THEN Refuse
     ELSE /\ entry' = IF Foreign(Name) THEN [entry EXCEPT ![Name] = None] ELSE entry
          /\ backup' = IF Foreign(Name) THEN [backup EXCEPT ![Name] = entry[Name]] ELSE backup
          /\ Halfway
          /\ UNCHANGED <<tree, config>>

PutPage ==
  /\ Do("page") /\ half
  /\ entry' = [entry EXCEPT ![Name] = "page"]
  /\ Pop
  /\ UNCHANGED <<backup, tree, config>>

(* restore_or_remove and restore_manpage: what is Bedit's is removed; what is *)
(* no file of one link is refused, and at the name of a page a link as well;  *)
(* then a backup is renamed to a name that is free.                           *)
RemoveManaged ==
  /\ Do("restore") \/ Do("unpage")
  /\ ~ half
  /\ IF entry[Name] = "irregular" \/ (Do("unpage") /\ entry[Name] = "symlink") THEN Refuse
     ELSE /\ entry' = IF entry[Name] \in Managed THEN [entry EXCEPT ![Name] = None] ELSE entry
          /\ Halfway
          /\ UNCHANGED <<backup, tree, config>>

(* Mutant: the backup is left where it is.                                    *)
KeepBackup ==
  /\ Do("restore") \/ Do("unpage")
  /\ half
  /\ Pop
  /\ UNCHANGED <<files, tree, config>>

ReturnBackup ==
  /\ Do("restore") \/ Do("unpage")
  /\ half
  /\ IF entry[Name] = None /\ backup[Name] # None
     THEN /\ entry' = [entry EXCEPT ![Name] = backup[Name]]
          /\ backup' = [backup EXCEPT ![Name] = None]
     ELSE UNCHANGED files
  /\ Pop
  /\ UNCHANGED <<tree, config>>

(* remove_tree removes the entries of libexec/bedit in the order in which     *)
(* the directory lists them, the manifest among them; files of one kind, which  *)
(* nothing tells apart, go together.                                          *)
Empty == /\ legacy = {} /\ stale = {} /\ previous = {} /\ current = None /\ manifest = None
         /\ \A i \in Instances : payload[i] = {}

RemoveEntry ==
  /\ Do("tree")
  /\ \/ legacy # {} /\ legacy' = {} /\ UNCHANGED <<stale, previous, payload, current, manifest>>
     \/ stale # {} /\ stale' = {} /\ UNCHANGED <<legacy, previous, payload, current, manifest>>
     \/ previous # {} /\ previous' = {} /\ UNCHANGED <<legacy, stale, payload, current, manifest>>
     \/ \E i \in Instances :
          /\ payload[i] # {} /\ payload' = [payload EXCEPT ![i] = {}]
          /\ UNCHANGED <<legacy, stale, previous, current, manifest>>
     \/ /\ current # None /\ current' = None
        /\ UNCHANGED <<legacy, stale, previous, payload, manifest>>
     \/ /\ manifest # None /\ manifest' = None
        /\ UNCHANGED <<legacy, stale, previous, payload, current>>
  /\ UNCHANGED <<files, config, todo, half, control, last>>

RemoveTree ==
  /\ Do("tree") /\ Empty
  /\ Pop
  /\ UNCHANGED <<files, tree, config>>

(* Mutant: only the first of several settings is replaced.                    *)
WriteFirst ==
  /\ Do("config")
  /\ LET old == IF config = None THEN NoLines ELSE config IN
     config' = [old EXCEPT !.settings =
       <<run.policy>> \o (IF @ = <<>> THEN <<>> ELSE Tail(@))]
  /\ Pop
  /\ UNCHANGED <<files, tree>>

(* write_config: one setting in place of all there are, or at the end; a line *)
(* without "=" stays as it is.                                                *)
WriteConfig ==
  /\ Do("config")
  /\ LET old == IF config = None THEN NoLines ELSE config IN
     config' = [old EXCEPT !.settings = <<run.policy>>]
  /\ Pop
  /\ UNCHANGED <<files, tree>>

RemoveConfig ==
  /\ Do("purge")
  /\ config' = None
  /\ Pop
  /\ UNCHANGED <<files, tree>>

Finish ==
  /\ run # Idle /\ todo = <<>>
  /\ End("done")
  /\ UNCHANGED <<files, tree, config>>

(* An operation fails, or the process dies: nothing is undone.                *)
Stop ==
  /\ run # Idle /\ todo # <<>>
  /\ End("stopped")
  /\ UNCHANGED <<files, tree, config>>

-----------------------------------------------------------------------------
(* The user, or a package, between runs.                                      *)

Change(n, e) ==
  /\ run = Idle
  /\ entry' = [entry EXCEPT ![n] = e]
  /\ mine' = [mine EXCEPT ![n] = (@ \ {entry[n]}) \union ({e} \intersect Theirs)]
  /\ last' = NoLast
  /\ UNCHANGED <<backup, tree, config, todo, half, run>>

PutFile == \E n \in Touched, u \in Fresh : Change(n, u)
PutOther == \E n \in Touched, e \in Others : Change(n, e)
RemoveFile == \E n \in Touched : entry[n] # None /\ Change(n, None)

(* An old release is installed over this one.                                 *)
PutLegacy ==
  /\ run = Idle /\ legacy # Commands
  /\ legacy' = Commands /\ stale' = Commands
  /\ last' = NoLast
  /\ UNCHANGED <<files, previous, payload, current, manifest, config, todo, half, control>>

Next ==
  \/ Install \/ Uninstall \/ RefusePayload
  \/ Migrate \/ Clean \/ CopyPayload \/ Switch \/ WriteManifest
  \/ BackupDestination \/ PutCommand \/ PutShim \/ BackupPage \/ PutPage
  \/ RemoveManaged \/ ReturnBackup \/ RemoveEntry \/ RemoveTree
  \/ WriteConfig \/ RemoveConfig \/ Finish \/ Stop
  \/ PutFile \/ PutOther \/ RemoveFile \/ PutLegacy

Spec == Init /\ [][Next]_vars

-----------------------------------------------------------------------------
(* Properties.                                                               *)

(* Types of the whole state. *)
InstallerType ==
  /\ entry \in [Names -> Entries]
  /\ backup \in [Names -> UserFiles \union {None}]
  /\ legacy \subseteq Commands /\ stale \subseteq Commands /\ previous \subseteq Commands
  /\ payload \in [Instances -> SUBSET Commands]
  /\ current \in Instances \union {None}
  /\ manifest \in Modes \union {None} /\ config \in Configurations \union {None}
  /\ todo \in Seq(Tasks) /\ half \in BOOLEAN
  /\ run \in Runs /\ last \in Lasts
  /\ mine \in [Names -> SUBSET Theirs]

(* Whatever runs were made and wherever they stopped, each file, link or      *)
(* directory that the user or a package put at a name, and did not replace or *)
(* remove since, is still there or in the backup of that name ("backs up      *)
(* unrelated command files before replacement", README.txt).                  *)
UserFilesKept ==
  \A n \in Names : \A u \in mine[n] : u \in {entry[n], backup[n]}

(* Every command and shim that Bedit has installed leads to a program, also   *)
(* while an upgrade copies and switches, and after it stopped half-way: the   *)
(* payload is complete before the link current leads to it, and outlives the  *)
(* commands when Bedit is removed.                                            *)
CommandsLead ==
  \A n \in Names :
    /\ entry[n] = "link" => current # None /\ n \in payload[current]
    /\ entry[n] = "shim" => current # None /\ WrapperOf[n] \in payload[current]

(* No run that stopped half-way stands in the way of the next one: a run that *)
(* meets no fault is refused only over something of the user's that is no     *)
(* file, over a second file of theirs, or because an old release was          *)
(* installed twice; an uninstall only over what is no file of one link, or a  *)
(* link at the name of a page.                                                *)
RefusalsExplained ==
  last.end = "refused" =>
    \/ \E n \in Names : entry[n] = "irregular"
    \/ \E n \in Manuals : entry[n] = "symlink"
    \/ /\ last.does = "install"
       /\ \/ \E n \in Names : entry[n] = "symlink" \/ (Foreign(n) /\ backup[n] # None)
          \/ legacy \intersect previous # {}

(* After an uninstall, the first or one after another that stopped, nothing   *)
(* of Bedit's is left in bin and man1, and the commands it had replaced are   *)
(* back unless the user has put something else there ("restores replaced     *)
(* command files", README.txt).  A replaced page is not always back: the tree *)
(* of a run that stopped may be without the manifest, and the next uninstall  *)
(* then leaves the pages alone.                                               *)
UninstallRestores ==
  last.does = "uninstall" /\ last.end = "done" =>
    \A n \in Names :
      /\ entry[n] \notin Managed
      /\ n \notin Manuals /\ backup[n] # None => entry[n] # None

(* After an install of either mode, over any earlier one, each command and    *)
(* page is Bedit's, and the editors are shims or, in named mode, are not.     *)
InstallCompletes ==
  last.does = "install" /\ last.end = "done" =>
    /\ \A n \in Commands : entry[n] = "link"
    /\ \A n \in Manuals : entry[n] = "page"
    /\ \A n \in Shimmed : entry[n] = "shim" <=> last.mode = "transparent"
    /\ manifest = last.mode
=============================================================================
