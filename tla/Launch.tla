-------------------------------- MODULE Launch --------------------------------
(***************************************************************************)
(* What a command of Bedit does before its first session or listing, in     *)
(* every state that installs leave behind: whose repository it writes, and  *)
(* whose mirror (src/src/identity.rs, src/src/config.rs), and which program *)
(* a wrapper opens the file with (src/src/editor.rs, src/src/wrapper.rs).   *)
(***************************************************************************)
EXTENDS Installer

CONSTANTS
  EditorOf,        \* the editor that each wrapper is named for
  SystemEditors,   \* editors in a directory of PATH that is not the prefix's
  Users            \* accounts other than root

Accounts == Users \union {"root"}

ASSUME LaunchAssumption ==
  /\ EditorOf \in [Commands -> Shimmed \union {None}]
  /\ SystemEditors \subseteq Shimmed
  /\ "root" \notin Users /\ None \notin Accounts
  /\ None \notin {"prefix", "system", "editor"}

-----------------------------------------------------------------------------
(* Identity and configuration.                                                *)

(* parse_sudo_history_config: two settings, a setting of another value or a   *)
(* line without "=" make every command fail; a remark is dropped.             *)
ParsedPolicy ==
  IF config = None THEN "root_and_user"
  ELSE IF config.bare \/ Len(config.settings) > 1 \/ config.settings = <<"wrong">> THEN "invalid"
  ELSE IF config.settings = <<>> THEN "root_and_user"
  ELSE IF config.settings = <<"remarked">> THEN "root_only" ELSE config.settings[1]

(* SUDO_UID and SUDO_USER, which may be absent, name no account or name two.  *)
Contexts == [effective : Accounts, sudo_uid : Accounts \union {None},
             sudo_user : Accounts \union {None}]

(* resolve_identity: the invoker, when root runs for another account that     *)
(* both variables name.                                                       *)
Sudo(ctx) ==
  /\ ctx.effective = "root"
  /\ ctx.sudo_uid \in Users
  /\ ctx.sudo_user = ctx.sudo_uid

(* targets_with_identity, repository_home and repository_root: the account    *)
(* whose home has the repository, or the one that BEDIT_HOME names, and the   *)
(* account whose repository is the mirror.                                    *)
Canonical(ctx, bedit_home) ==
  IF bedit_home # None /\ ~ Sudo(ctx) THEN bedit_home ELSE ctx.effective
Mirror(ctx) ==
  IF Sudo(ctx) /\ ParsedPolicy = "root_and_user" THEN ctx.sudo_uid ELSE None
Actor(ctx) == IF Sudo(ctx) THEN ctx.sudo_uid ELSE ctx.effective

-----------------------------------------------------------------------------
(* The program that is opened.                                                *)

Directories == {"prefix", "system"}
Paths == {<<"prefix", "system">>, <<"system", "prefix">>}

(* What is at a name of a directory of PATH; a page is not on PATH.           *)
At(d, n) ==
  IF d = "prefix" THEN entry[n] ELSE IF n \in SystemEditors THEN "editor" ELSE None
OfBedit == {"link", "shim"}

(* The first of the directories where what is there passes.                   *)
FirstOn(path, Passes(_)) ==
  IF Passes(path[1]) THEN path[1] ELSE IF Passes(path[2]) THEN path[2] ELSE None
Found(path, n, Passes(_)) ==
  LET d == FirstOn(path, Passes) IN IF d = None THEN None ELSE At(d, n)

(* What the shell, or Command::spawn, runs for a name.                        *)
Executed(n, path) ==
  LET There(d) == At(d, n) # None IN Found(path, n, There)

(* Mutant: shims are only recognised by their directory.                      *)
resolve_anything(n, path, shim_dir) ==
  LET Real(d) == d # shim_dir /\ At(d, n) # None IN Found(path, n, Real)

(* resolve_executable: the first file of the name that is not below the shim  *)
(* directory and not a shim.                                                  *)
resolve_executable(n, path, shim_dir) ==
  LET Real(d) == d # shim_dir /\ At(d, n) \notin {None, "shim"} IN Found(path, n, Real)

(* What a wrapper opens the file with: a shim has set BEDIT_EDITOR_ALIAS to   *)
(* its name; otherwise BEDIT_EDITOR or EDITOR may name a program; otherwise   *)
(* the editor that the wrapper is named for is looked up.                     *)
Aliased(alias, path) == resolve_executable(alias, path, "prefix")
Opened(command, editor, path) ==
  IF editor # None THEN Executed(editor, path)
  ELSE resolve_executable(EditorOf[command], path, None)

(* The program that has the file open in the end: a shim that EDITOR has run  *)
(* is a wrapper of its own.                                                   *)
Reached(command, editor, path) ==
  LET first == Opened(command, editor, path)
  IN IF first = "shim" THEN Aliased(editor, path) ELSE first

-----------------------------------------------------------------------------
(* Properties.                                                               *)

Wrappers == {c \in Commands : EditorOf[c] # None}

(* In every state that installs, upgrades and uninstalls leave or pass, a     *)
(* wrapper and a shim open the file with a program that is not Bedit's, for   *)
(* either order of PATH and an EDITOR that names an editor, and they find one *)
(* that is installed outside the prefix ("resolves the real executable from   *)
(* the remaining PATH at invocation time, avoids Bedit shim directories",     *)
(* README.txt).                                                               *)
EditorReached ==
  \A path \in Paths :
    /\ \A e \in Shimmed :
         /\ Aliased(e, path) \notin OfBedit
         /\ e \in SystemEditors => Aliased(e, path) # None
    /\ \A c \in Wrappers, editor \in Shimmed \union {None} :
         /\ Reached(c, editor, path) \notin OfBedit
         /\ (IF editor = None THEN EditorOf[c] ELSE editor) \in SystemEditors =>
              Reached(c, editor, path) # None

(* An install for the machine that ended well decides who gets a mirror:      *)
(* with root_only nobody, with root_and_user the account that ran sudo and no *)
(* other, and the canonical repository is root's.  That is so whatever        *)
(* settings the configuration had, two of them or one of another value; but a *)
(* line sudo_history without "=" outlives the install (write_config keeps     *)
(* it), and then every command still fails.                                   *)
PolicyTakes ==
  [][run.policy # None /\ run' = Idle /\ last'.end = "done" =>
       \/ config.bare /\ ParsedPolicy' = "invalid"
       \/ /\ ~ config.bare /\ ParsedPolicy' = run.policy
          /\ \A ctx \in Contexts :
               /\ Mirror(ctx)' # None <=> run.policy = "root_and_user" /\ Sudo(ctx)
               /\ Mirror(ctx)' # None => /\ Mirror(ctx)' = Actor(ctx)
                                         /\ Canonical(ctx, None) = "root"]_vars

(* An upgrade that is given no policy leaves the one in force as it is, though *)
(* install_bedit.sh and identity.rs each read the configuration in a way of   *)
(* their own.  They differ in one case: the script does not know a root_only  *)
(* with a remark on its line, and the upgrade writes root_and_user over it.   *)
PolicyStands ==
  [][run.does = "install" /\ run.asked = None /\ config' # config /\ ParsedPolicy # "invalid" =>
       \/ ParsedPolicy' = ParsedPolicy
       \/ config.settings = <<"remarked">> /\ ParsedPolicy' = "root_and_user"]_vars

(* The policy in force after an install is the one it was asked for, or the    *)
(* one before it.                                                            *)
PolicyHolds == PolicyTakes /\ PolicyStands
=============================================================================
