----------------------------- MODULE LaunchProofs -----------------------------
(* Proofs about Launch: every wrapper reaches an editor, and a policy that    *)
(* was installed decides who gets a mirror.                                   *)
EXTENDS Launch, InstallerProofs

(* What resolve_executable finds: what is in the system's directory, or      *)
(* what is at the prefix's name unless that directory or a shim is left      *)
(* out; and it finds an editor that the system has.                          *)
LEMMA Resolved ==
  ASSUME NEW n, NEW path \in Paths, NEW shim_dir \in {"prefix", None}
  PROVE  LET there == shim_dir # "prefix" /\ entry[n] \notin {None, "shim"}
             system == n \in SystemEditors
             e == resolve_executable(n, path, shim_dir)
         IN  /\ e \in {None, "editor"} \/ (there /\ e = entry[n])
             /\ system => e # None
<1>1. /\ At("prefix", n) = entry[n]
      /\ At("system", n) = IF n \in SystemEditors THEN "editor" ELSE None
      /\ None \notin {"prefix", "system", "editor"}
  BY LaunchAssumption DEF At
<1>2. path = <<"prefix", "system">> \/ path = <<"system", "prefix">>
  BY DEF Paths
<1>3. path[1] \in {"prefix", "system"} /\ path[2] \in {"prefix", "system"} /\ path[1] # path[2]
  BY <1>2
<1> QED
  BY <1>1, <1>3 DEF resolve_executable, Found, FirstOn

(* What a name runs: what is at it in one of the directories.                *)
LEMMA Run ==
  ASSUME NEW n, NEW path \in Paths
  PROVE  /\ Executed(n, path) \in {None, "editor", entry[n]}
         /\ n \in SystemEditors => Executed(n, path) # None
<1>1. /\ At("prefix", n) = entry[n]
      /\ At("system", n) = IF n \in SystemEditors THEN "editor" ELSE None
      /\ None \notin {"prefix", "system", "editor"}
  BY LaunchAssumption DEF At
<1>2. path = <<"prefix", "system">> \/ path = <<"system", "prefix">>
  BY DEF Paths
<1>3. path[1] \in {"prefix", "system"} /\ path[2] \in {"prefix", "system"} /\ path[1] # path[2]
  BY <1>2
<1> QED
  BY <1>1, <1>3 DEF Executed, Found, FirstOn

(* Where links and shims are only at names of their kind, every wrapper and  *)
(* shim reaches an editor that is not Bedit's.                               *)
LEMMA ReachedFrom == InstallerType /\ Placed => EditorReached
<1> SUFFICES ASSUME InstallerType, Placed, NEW path \in Paths
             PROVE  /\ \A e \in Shimmed :
                         /\ Aliased(e, path) \notin OfBedit
                         /\ e \in SystemEditors => Aliased(e, path) # None
                    /\ \A c \in Wrappers, editor \in Shimmed \union {None} :
                         /\ Reached(c, editor, path) \notin OfBedit
                         /\ (IF editor = None THEN EditorOf[c] ELSE editor) \in SystemEditors =>
                              Reached(c, editor, path) # None
  BY DEF EditorReached
<1>1. /\ "editor" \notin OfBedit /\ None \notin OfBedit
      /\ \A n \in Shimmed : entry[n] # "link" /\ n \in Names
  BY Apart DEF OfBedit, Placed, Managed
<1>2. \A e : /\ Aliased(e, path) \in {None, "editor"}
             /\ e \in SystemEditors => Aliased(e, path) # None
  BY Resolved DEF Aliased
<1>3. \A n \in Shimmed : /\ resolve_executable(n, path, None) \notin OfBedit
                         /\ n \in SystemEditors => resolve_executable(n, path, None) # None
  BY <1>1, Resolved DEF OfBedit
<1>4. ASSUME NEW c \in Wrappers, NEW editor \in Shimmed \union {None}
      PROVE  /\ Reached(c, editor, path) \notin OfBedit
             /\ (IF editor = None THEN EditorOf[c] ELSE editor) \in SystemEditors =>
                  Reached(c, editor, path) # None
  <2>1. EditorOf[c] \in Shimmed
    BY LaunchAssumption DEF Wrappers
  <2>2. CASE editor = None
    <3>1. Opened(c, editor, path) = resolve_executable(EditorOf[c], path, None)
      BY <2>2 DEF Opened
    <3> QED
      BY <2>1, <2>2, <3>1, <1>3 DEF Reached, OfBedit
  <2>3. CASE editor # None
    <3>1. Opened(c, editor, path) = Executed(editor, path) /\ editor \in Shimmed
      BY <2>3 DEF Opened
    <3>2. Executed(editor, path) # "link"
      BY <1>1, <3>1, Run DEF OfBedit
    <3> QED
      BY <2>3, <3>1, <3>2, <1>1, <1>2, Run DEF Reached, OfBedit
  <2> QED
    BY <2>2, <2>3
<1> QED
  BY <1>1, <1>2, <1>4

(* In every state that installs and uninstalls leave or pass, a wrapper or   *)
(* a shim opens the file with a program that is not Bedit's, and finds one   *)
(* that the system has.                                                      *)
THEOREM EditorAlwaysReached == Spec => []EditorReached
<1>1. InstallerInv => EditorReached
  BY ReachedFrom DEF InstallerInv
<1> QED
  BY <1>1, InstallerInvariance, PTL

(* An install for the machine that ended well decides who gets a mirror,     *)
(* whatever settings the configuration had; where a line without "=" stands, *)
(* every command fails after it as before.                                   *)
THEOREM PolicyAlwaysTakes == Spec => PolicyTakes
<1> DEFINE Takes ==
      run.policy # None /\ run' = Idle /\ last'.end = "done" =>
       \/ config.bare /\ ParsedPolicy' = "invalid"
       \/ /\ ~ config.bare /\ ParsedPolicy' = run.policy
          /\ \A ctx \in Contexts :
               /\ Mirror(ctx)' # None <=> run.policy = "root_and_user" /\ Sudo(ctx)
               /\ Mirror(ctx)' # None => /\ Mirror(ctx)' = Actor(ctx)
                                         /\ Canonical(ctx, None) = "root"
<1>1. InstallerInv /\ [Next]_vars => [Takes]_vars
  <2> SUFFICES ASSUME InstallerInv, [Next]_vars, ~ UNCHANGED vars, run.policy # None, run' = Idle,
                      last'.end = "done"
               PROVE  Takes
    OBVIOUS
  <2>1. Finish
    BY Endings DEF Refusal, InstallerInv
  <2>2. config' = config /\ config # None /\ config.settings = <<run.policy>>
    BY <2>1, FinishEnds DEF InstallerInv, Configured
  <2>3. run.policy \in {"root_and_user", "root_only"} /\ config \in Configurations
    BY <2>2 DEF InstallerInv, InstallerType, Runs, POLICIES
  <2>4. /\ Len(config'.settings) = 1 /\ config'.settings[1] = run.policy /\ config'.settings # <<>>
        /\ config'.settings # <<"remarked">> /\ config'.settings # <<"wrong">>
    BY <2>2, <2>3
  <2>5. CASE config.bare
    BY <2>2, <2>5 DEF ParsedPolicy
  <2>6. CASE ~ config.bare
    <3>1. ParsedPolicy' = run.policy
      BY <2>2, <2>4, <2>6 DEF ParsedPolicy
    <3>2. ASSUME NEW ctx \in Contexts
          PROVE  /\ Mirror(ctx)' # None <=> run.policy = "root_and_user" /\ Sudo(ctx)
                 /\ Mirror(ctx)' # None => /\ Mirror(ctx)' = Actor(ctx)
                                           /\ Canonical(ctx, None) = "root"
      <4>1. Mirror(ctx)' =
              IF Sudo(ctx) /\ run.policy = "root_and_user" THEN ctx.sudo_uid ELSE None
        BY <3>1 DEF Mirror, Sudo
      <4>2. Sudo(ctx) => ctx.sudo_uid # None /\ ctx.effective = "root"
        BY LaunchAssumption DEF Sudo, Accounts
      <4> QED
        BY <4>1, <4>2 DEF Actor, Canonical
    <3> QED
      BY <2>6, <3>1, <3>2
  <2> QED
    BY <2>5, <2>6
<1> QED
  BY <1>1, InstallerInvariance, PTL DEF Spec, PolicyTakes

(* A sequence of one element.                                                *)
LEMMA One ==
  ASSUME NEW S, NEW s \in Seq(S), s # <<>>, Len(s) <= 1
  PROVE  Len(s) = 1 /\ s = <<s[1]>> /\ Head(s) = s[1] /\ s[1] \in S
<1>1. Len(s) \in Nat /\ Len(s) # 0
  OBVIOUS
<1>2. Len(s) = 1
  BY <1>1
<1> QED
  BY <1>2

(* An upgrade that is given no policy leaves the one in force, unless it has *)
(* a remark on its line.                                                     *)
THEOREM PolicyAlwaysStands == Spec => PolicyStands
<1> DEFINE Stands ==
      run.does = "install" /\ run.asked = None /\ config' # config /\ ParsedPolicy # "invalid" =>
       \/ ParsedPolicy' = ParsedPolicy
       \/ config.settings = <<"remarked">> /\ ParsedPolicy' = "root_and_user"
<1>1. InstallerInv /\ [Next]_vars => [Stands]_vars
  <2> SUFFICES ASSUME InstallerInv, [Next]_vars, ~ UNCHANGED vars, run.does = "install",
                      run.asked = None, config' # config, ParsedPolicy # "invalid"
               PROVE  \/ ParsedPolicy' = ParsedPolicy
                      \/ config.settings = <<"remarked">> /\ ParsedPolicy' = "root_and_user"
    OBVIOUS
  <2>0. /\ InstallerType /\ Planned /\ Configured /\ run \in Runs
        /\ config \in Configurations \union {None}
    BY DEF InstallerInv, InstallerType
  <2>1. WriteConfig /\ Do("config") /\ todo # <<>>
    <3>1. ~ RemoveConfig /\ ~ RemoveEntry
      BY <2>0, HeadProper DEF RemoveConfig, RemoveEntry, Do
    <3> QED
      BY <2>0, <3>1, TreeStep DEF CopyPayload, Switch, WriteManifest, WriteConfig, Do
  <2>2. Left("config", None) /\ run.policy # None
    BY <2>0, <2>1, HeadTask, HeadProper DEF Left, Do
  <2>3. run.policy = Existing /\ run.policy \in POLICIES
    BY <2>0, <2>2 DEF Configured, Runs
  <2>4. config # None => config \in Configurations /\ config.settings \in Seq(SETTINGS)
                         /\ ~ config.bare /\ Len(config.settings) <= 1
                         /\ config.settings # <<"wrong">>
    <3>1. ASSUME config # None PROVE config.settings \in Seq(SETTINGS)
      BY <2>0, <3>1 DEF Configurations
    <3>2. ASSUME config # None PROVE Len(config.settings) \in Nat
      BY <3>1, <3>2
    <3> QED
      BY <2>0, <3>1, <3>2 DEF ParsedPolicy
  <2>5. ParsedPolicy' = run.policy
    <3>1. \A c \in Configurations, p \in POLICIES : /\ [c EXCEPT !.settings = <<p>>].settings = <<p>>
                                                     /\ [c EXCEPT !.settings = <<p>>].bare = c.bare
      BY DEF Configurations
    <3>2. NoLines \in Configurations /\ ~ NoLines.bare
      BY DEF NoLines, Configurations
    <3>3. config'.settings = <<run.policy>> /\ ~ config'.bare
      BY <2>1, <2>4, <3>1, <3>2 DEF WriteConfig
    <3>4. config' # None
      <4>1. config' \in Configurations
        BY <2>0, <2>1, <2>2, <2>4, <3>2, SettingsType DEF WriteConfig
      <4> QED
        BY <4>1, InstallerAssumption
    <3>5. /\ Len(config'.settings) = 1 /\ config'.settings[1] = run.policy
          /\ config'.settings \notin {<<"wrong">>, <<>>, <<"remarked">>}
      BY <2>3, <3>3 DEF POLICIES
    <3> QED
      BY <3>3, <3>4, <3>5 DEF ParsedPolicy
  <2>6. CASE config = None \/ config.settings = <<>>
    BY <2>3, <2>4, <2>5, <2>6 DEF Existing, ParsedPolicy
  <2>7. CASE config # None /\ config.settings # <<>>
    <3>1. /\ Len(config.settings) = 1 /\ config.settings = <<config.settings[1]>>
          /\ Head(config.settings) = config.settings[1] /\ config.settings[1] \in SETTINGS
      BY <2>4, <2>7, One
    <3>2. CASE config.settings[1] \in POLICIES
      <4>1. config.settings # <<"remarked">>
        BY <3>2 DEF POLICIES
      <4> QED
        BY <2>3, <2>4, <2>5, <2>7, <3>1, <3>2, <4>1 DEF Existing, ParsedPolicy
    <3>3. CASE config.settings[1] = "remarked"
      BY <2>3, <2>5, <2>7, <3>1, <3>3 DEF Existing, POLICIES
    <3>4. CASE config.settings[1] = "wrong"
      <4>1. config.settings = <<"wrong">>
        BY <3>1, <3>4
      <4> QED
        BY <2>4, <2>7, <4>1
    <3> QED
      BY <3>1, <3>2, <3>3, <3>4 DEF SETTINGS
  <2> QED
    BY <2>6, <2>7
<1> QED
  BY <1>1, InstallerInvariance, PTL DEF Spec, PolicyStands

(* The policy after any install that writes it is the one asked for, or the   *)
(* one that was in force.                                                    *)
THEOREM PolicyAlwaysHolds == Spec => PolicyHolds
BY PolicyAlwaysTakes, PolicyAlwaysStands DEF PolicyHolds
=============================================================================
