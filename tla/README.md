# Bedit, verified

Bedit keeps a history of edited files. An editor is started through a wrapper, which watches the files being
edited and publishes a *revision* for each content it finds settled; clients list, render, tag, compare and restore
revisions. A repository is a directory tree that many processes use at once, with one kernel lock for its writers
and none for its readers.

This directory holds TLA+ models of that code, the TLC configurations that check them, and proofs for TLAPS.
`PROJECT.json` maps every definition to the lines it models and lists runs, mutants, findings, hazards and theorems.

## Inventory

| Component (source) | State it keeps | Operations | Hard behaviour | What makes it correct |
|---|---|---|---|---|
| Revision publication (`mutation.rs`, `trusted_fs.rs`) | `access/`, `backups/`, `edits/`, `actors/`, `tags/`, `dirs/<key>/` and the flock of `.bedit-publication.lock` | `create_revision`, `write_tag` | several processes; a crash, or a failing operation, between any two of up to ten file operations; a rollback that can fail or die itself | a published revision is complete, its own, and stays; numbers only grow; no failed call spoils another; every call ends |
| Repository reading (`store/mod.rs`) | none: rows built from many files | `revisions`, `index_entries`, `render` | no lock: every file is read at another time, while writers work, roll back, die | what was complete when the reading began is shown, and shown right |
| Command line (`cli.rs`) | none | list, history, get, where, search, diff, tag, goto, restore | rows and index are read one after the other and joined | each artifact is shown under its path and actor |
| Edit session (`wrapper.rs`) | tracks: baseline, last observed content, whether published | run: track, poll, discover, flush | the editor truncates, renames, creates, dies at any time; events come late and coalesced; files are discovered late; publishing fails | the stored revisions chain from the first content to the last |
| Signals, terminal (`wrapper.rs`) | pid of the child, last signal | `forward_signal` | a signal before the pid is stored or after the child is reaped | the editor gets each signal, nobody else does |
| Restoring (`mutation.rs`, `cli.rs`, `tui.rs`) | the live file | `restore_revision`, `replace_live`, `-r`, `-rb`, `-rd`, `-rbd`, `-goto` | the live file changes between the steps; replacing it fails after the rename; publishing fails after it is replaced | what a restore read is kept before it writes; a failed one leaves the file, or has kept what was in it |
| Privileged mirror (`mutation.rs`, `config.rs`, `identity.rs`) | two repositories, the session's queue of warnings | the end of `create_revision` | crash or failure between the two; an early return with warnings in hand | what the mirror lacks was told, or lost by a call that failed or died; it has nothing else |
| Paths (`paths.rs`) | none | `directory_key`, `record_name`, `parse_record_name` | the key is not one-to-one | names parse back |
| File operations (`trusted_fs.rs`) | none | `write_noreplace`, `write_replace`, `symlink_noreplace`, ... | take effect and then fail | atomic, durable, never over an existing record |
| Terminal UI (`tui.rs`) | tabs, selections, filters, dialogues | `handle_key`, `refresh` | the repository changes under the selection; a handler fails half-way and keeps what it has set | a command acts on what is shown |
| Installer (`installer.rs`, `install_bedit.sh`) | payload versions, links, shims, backups of commands, the policy | choice of the policy, install, migrate, uninstall | crash or failure half-way, repeated installs; two parsers of one file | what was the user's comes back; an upgrade keeps the policy |
| Identity, configuration (`identity.rs`, `config.rs`) | none | which repository, actor and owner | sudo and its policies | fails closed |
| Editor registry (`editor.rs`) | none | `resolve_executable` | shims found instead of editors | never a shim |

The session calls `create_revision` for each change. That call and `write_tag` are the only writers of a repository;
clients read through `Store`. Processes interact only through the file system: the repository's files and lock, the
live files, and directory events. The installer decides which programs the names `bvi`, `vi`, ... lead to, and with which
policy the next call runs.

`PROJECT.json` lists, under *hazards*, what can go wrong here that a test would hardly reach, each at its line.

## Modules

### `RevisionLog`: what a repository promises
For each file a log of revisions. `Append` adds one above all others; `Withdraw` takes the newest away as long as its
writer has not been told of its success; `Report` tells it. After that an entry is never changed or removed.

### `Publication`: how it keeps that promise
Processes are calls: `Publishers` of `create_revision`, each with a content of its own, and `Taggers` of `write_tag`.
A process's `pc` is its place in the code. `record[k][s]` says whose record file of kind `k` (backup, diff, access,
actor, and the index links b, d, a) exists under slot `s`, that is, name and number; `created` is the vector of the
same name in `publish` and, in a rollback, what is left to unlink.

| Code | Actions |
|---|---|
| `create_revision` up to the call (baseline and diff, or the represented content alone) | `Prepare` |
| `Repository::open` | `Open`, `OpenFails` |
| `RepositoryLock::acquire`, its `drop` | `Acquire`, `Release`; a process that dies loses it in `Crash` |
| `next_revision` | `Allocate` (with the overflow), `AllocateFails` |
| `publish` before its closure | `MakeDirectory`, `WriteBranch`, `IndexFails` |
| `publish`'s closure: `write_noreplace`, `symlink_noreplace` | `WriteRecord`, `RecordExists`, `WriteFails`, in the order `After` |
| its rollback | `Undo`, `UndoFails`, in the order `UndoRank`; `UndoEnds` |
| `write_tag` after the choice of a row | `Select`, `WriteTag`, `TagFails` |

Four kinds of fault are in `Faults`, so that each run says which it allows: `crash` (a process dies between two
steps), `write` (an operation fails and leaves nothing), `sync` (an operation takes effect, the fsync of the directory
fails and the caller sees an error), `undo` (an unlink in a rollback fails, which the code ignores).

Abstracted: a content is the call that wrote it, for what matters is whose records a revision is made of (`Content`,
`Patched` and `Render` say what renders: a diff applied to another baseline gives `mixed`, what nobody represented).
A staged file is not seen, because it is written under a name of its own and renamed; a fault before the rename
leaves none. Reading the directory of access records under the lock is one step.

### `Listing`: a reader beside the writers
Extends `Publication` with a reader. A command (`listing` with its scope, `history`, `where_cmd`, `Search`, `Get`) reads
its rows (`ListAccess` to `EndRows`) and then renders one (`ReadBackup`, `Patch`), or reads the index (`ListKeys` to
`EndKeys`) and joins the two (`RowFor`, `User`), or reads the rows again and with them the files they name (`FilesOf`,
`ReadFile`). Every file read is a step; listing one directory is one step. A `NotFound` is what the code makes of it:
no tag, no actor, no diff, a skipped revision, or the failure of the whole command.

### `Session`: the wrapper and the editor
The wrapper's loop is a `stage`: `drain`, `events`, `discover`, `fds`, `wait`, `poll`, and again; then the last drain and the
flush. `tracks` is the vector of the code. The two readings of `poll_track` (`FirstRead`, `SecondRead`) and the
publication (`Publish`) are steps of their own. The editor opens and closes files and saves in three ways: in place,
by renaming a new file over the old one, by renaming the old one away and creating it anew. Contents are
numbers; a save writes the content the file has or one never seen. `revisions` is what `create_revision` was called
with. Directory events are a set, since `coalesce_directory_events` removes repetitions and forgets the order.
Which files are of interest (assets, temporary files, exclusions) is not modelled: `Files` are those that are.

### `Restore`: a file that several processes write
The live file, the revisions and the mirror, with `Restorers`, one edit session, an editor that saves and a user that
removes the file. A publication is one step here (`Record`), because `Publication` shows that one which succeeds is complete
and that one which fails leaves nothing; the mirror's follows as a step of its own and may fail. `missing[p]` are the revisions
whose warning a process has in hand; when it ends they are `warned` of or `lost`.

| Code | Actions |
|---|---|
| the choice of a revision and of what it is to give: `-r`, `-rb`, `-goto` and the dialogue's backup or rendered content, `-rd` | `Start` |
| `fs::read` of the live file | `Read` |
| `restore_revision`'s own listing; `-rd` keeps its first | `List` |
| `restore_diff_target` and the user's answer | `Patch` |
| the comparison with the latest revision, and the sync; `-rd` prints its warning at once | `Sync`, `SyncMirror` |
| `replace_live`: `write_replace` renames, and the fsync of the directory may fail then | `Replace` |
| `allocate_and_publish` of the restored state, the mirror, the warnings | `PublishRestored`, `RestoredMirror` |
| the rollback, whose own result is ignored | `Rollback` |
| every other early return, with the warnings in hand dropped | `Fails` |
| `poll_track`, as `Session` has it whole; `SessionResults`' queue of warnings and `render` at the end | `Open`, `See`, `Store`, `StoreMirror`, `Close` |

### `Tui`: the terminal interface
`app` is the record of the code's `App` without what is only drawn; an action is a key in a mode, and applies the whole
chain of calls: `refresh`, `rebuild_tree`, `select_timeline`, `select_tree_file`, `update_diff` and `search` are operators from
one `app` to the next. A read may fail in any of them, and the handler returns then with what it has set so far: for an operator `X`,
`XFails(a)` is the set of states it may leave (`RefreshFails`: the new `files` and `file_index` over the old `revisions`; `ShowEventFails`: the
new label over the old diff; a search cut short). A write may fail before or after it took effect. Beside the keys another
process publishes: its revision is listed while the call is `pending`, and then it `Settle`s or is `Withdraw`n. What the screen shows is
stated by `TimelineView`, `HistoryView`, `SearchView`, `Highlighted` and `Asked`. Texts are short sequences over a letter
and a blank, because `Trimmed` and `Occurs` look into them.

A sorted list (`sort_by`, `sort_by_key`, the `BTreeMap` of `rebuild_tree`) is a function of positions: `Sorted` puts a member of
a set where its key, a tuple of integers compared from the left (`Sooner`), has it. The sorts of the code are stable and start from
`store.revisions()`, which is in the order of paths and numbers, so that the keys end with what decides among equals there: two revisions
of one second and one number stand in the timeline in the order of their paths.

### `Installer` and `Launch`: what the names lead to
`Installer` has one entry for each name of `bin` and `man1`, its backup, and the tree below `libexec/bedit`. An install or an
uninstall is a list of tasks (`InstallPlan`, `UninstallPlan`) in the order of the code; each task is one or two file
operations, and the run may stop before any of them (`Stop`). Between runs a user or a package puts files, symbolic links and
entries that are no file of one link at the same names. `install_bedit.sh` chooses the policy that a run writes (`Chosen`): none
for a user's own prefix, the one asked for, or the one that awk finds in the configuration (`Existing`). `Launch` adds what the
installed programs then do: the parse of the configuration, who is the actor, whether there is a mirror, and which editor a wrapper or shim resolves on which `PATH`.

### The rest
`MCPublication`, `MCListing`, `MCSession`, `MCRestore`, `MCTui` and `MCInstaller` give the constants their values; the bounds
are in the configurations. `PublicationProofs`, `RevisionProofs`, `ListingProofs`, `SessionProofs`, `RestoreProofs`, `TuiProofs`,
`InstallerProofs` and `LaunchProofs` hold the theorems. Operators under "Mutant:" are plausible
bugs and no part of the model: with each put in place of the definition it is a variant of, a run has to fail.

## What the runs show

| Run | States | Shows |
|---|---|---|
| `pub_all` | 349,855 | two writers of one file, all faults: `IInv` (the inductive invariant), `SuccessIntact`, `NumbersGrow`, and `ImplementsLog`, the refinement of `RevisionLog`; with fair calls, `EveryCallEnds` |
| `pub_calls` | 2,236,309 | three writers for two numbers and a tagger, crashes and failing operations: `TypeOK` at the overflow, `FailuresExplained`, `VisibleRenders`, `NoGaps`, `TagsMatch` |
| `list_all` | 1,311,000 | two writers that crash and fail, one for a foreign actor, a reader with each of its commands: `FullyPublished`, `CompletedListed`, `CompletedPrinted`, `RenderedRight`, `RowsReadable` |
| `ses_all` | 394,745 | every way to save, the editor killed, publishing failing, no watch: `Chained`, `LastStored`, `CreatedStored`, `KeptBaseline` and, for a fair session, `EventuallyStored` |
| `rst_all` | 2,099,669 | a restore of each kind, a session, an editor, two faults: `PriorKept`, `MirrorAccounted`, `FailedUndone` |
| `tui_all` | 494,089 | any four keys, another process that publishes or withdraws, reads and writes that fail: `SelectionsInRange`, `DialogueNamesRestored`, `DiffLabelled`, `SelectionSteady`, `RestoreShown` |
| `inst_all` | 1,021,096 | installs of both modes and uninstalls that follow one another, each stopping anywhere, two files of a user, links and other entries: `UserFilesKept`, `CommandsLead`, `RefusalsExplained`, `UninstallRestores`, `InstallCompletes`, `EditorReached` |
| `inst_policy` | 314,931 | installs for the machine and for a user, with each policy or none, over every configuration of up to two settings with or without a bare line: `PolicyHolds`, that is `PolicyTakes` and `PolicyStands` |

Four runs end in a counterexample. Each contradicts a sentence of the documentation or of a dialogue:

| Run | What happens |
|---|---|
| `pub_wedge` | A call dies after its backup and before its access record. The number is free for `next_revision` and taken for `write_noreplace`: from then on each save of that file fails. |
| `ses_baseline` | A save that renames over the tracked file is taken for its creation: the baseline, the content before the session, is dropped. |
| `tui_tag` | On the timeline `t`, a text and Enter tag the selection of another tab, not the highlighted revision. |
| `rst_race` | An editor saves between a restore's reading of the file and its replacement: the save is overwritten and no revision has it. |

Other departures of the code from its documentation came up on the way, and no run records them. An fsync that fails after
the rename of a diff leaves the diff to the next call of that number, which may write none of its own. A reader
that comes between the access record and the actor record shows the owner of the history as the user. `/a/b` and `/a_b` have
one key, and the `.branch` file of the key names the directory saved last. A failing publication in the final flush
keeps the later files from being flushed. A file named twice on the command line has two tracks. `EDITOR=bvi` makes
`bvi` start itself without end, and `EDITOR=vi` with shims installed nests two sessions. A real editor that lies in the
prefix's own `bin` is moved to its backup by the shim of its name, which then finds no editor. A backup that cannot be read while the tree changes the file leaves the
new file over the history of the old one: the dialogue of restore names the one and Enter restores the other. An upgrade without
`--sudo-history` takes `root_only # remark` for no policy and writes `root_and_user`. A line `sudo_history` without
`=` survives an install that sets the policy, and each command then refuses the configuration. An uninstall that dies
in `remove_tree` after the manifest leaves pages and payload to nobody. The manual page's `-restore` is no flag
that `valid_restore_flag` accepts.

### Bounds
Writers interact through the lock, the number and leftovers under a number. Two numbers and two writers give: an
orphan and a call that meets it, a rollback and a call that reuses its number, a published revision and a later call
that fails above it. Three writers add a call between two others, and the overflow of two numbers; with a tagger beside them they are
of one actor, and a foreign one is in `list_all`. All runs have one
file name; that writers of different names do not disturb each other is what the proofs say for every set of names.
`MaxRevision` is the type's largest number, reached in `pub_calls`, never cut off by a guard. In the session, two saves
(`MaxSaves`) are enough for a publication followed by another event, late, coalesced or lost; two files for one that is
tracked from the start and one that is discovered. One reader is enough, as readers change nothing. `SYMMETRY` is used
where two writers differ in nothing.

In `rst_all` three contents are what a restore, a session and a save can hold apart; three revisions, a sync and a restored
state on top of one; one save and two faults: a mirror and a publication, a publication and its rollback. One restorer
is enough beside a session that publishes as well; the proofs are for any number. In `tui_all` four keys (`MaxKeys`)
choose a file or a row, press a command, answer it and look again; two files and up to five revisions are enough for two panels to
select different ones and for a filter to shorten each list; one revision of another process is published, settled or withdrawn at any
point between them. In `inst_all` two instances of the payload are an upgrade, two
files of a user are one that is backed up and one that finds the backup there; `Touched` is one name of `bin` and one of
`man1`, and no run may write the configuration, which `inst_policy` is about: one command, every setting that the parsers tell apart, two of
them so that there is a first and a last. Runs follow one another without a bound: the state space is finite.

### Fairness and deadlock
`FairSpec` of `Publication` assumes that a call that has begun goes on, which is what straight-line code does, with
weak fairness for each call. `Acquire` needs no more: a call ends, a finite number of calls is ahead, so the lock stays
free once they have ended. `pub_all` checks it for publishers under all faults; a tagger takes and drops the lock in the same way. Nothing is assumed about calls that have not begun, and faults are never fair.
`FairSpec` of `Session` assumes that the wrapper's loop goes on and that the editor ends a save that it began; it need
not begin one, nor exit. Restores end as calls do, keys are counted, and an installer's prefix may rest; in those modules no fairness is assumed and nothing is
claimed about progress. Calls and sessions end, so that all configurations switch deadlock checking off; that
nothing gets stuck before its end is what `EveryCallEnds` and `EventuallyStored` say.

### What the properties leave open, because the code does
* `TagsMatch` excepts revisions whose writer failed or died before they were finished. After a rollback the number is given to another
  call, and a tag whose choice was made from a listing of the withdrawn revision goes to the new one.
* `RenderedRight` says nothing of a row whose revision was withdrawn after it was listed, for the same reason.
* `FullyPublished` holds with crashes and failing operations, and fails if an fsync may fail. That a call
  without a fault of its own succeeds fails after a crash (`pub_wedge`); `FailuresExplained` says that a crash under the
  same number is the only cause.
* The index may list a link whose target does not exist after a failed call died in its rollback.
* `FirstBaseline` fails for renames (`ses_baseline`); `KeptBaseline` says that creation events are the only cause.
* `Chained` is about files named once on the command line: one named twice has two tracks and is stored twice.
* `PriorKept` is about the state that a restore has *read*; what was saved since is lost (`rst_race`). `FailedUndone` leaves out
  files that others wrote meanwhile, for the rollback overwrites them too. If the fsync after a rename fails, or the rollback does, the
  file stays as it was asked for, and the property says that the old state is in the repository.
* `MirrorAccounted` counts a warning that a failing or dying process had in hand as lost, not as told: restores and sessions that fail print
  their error alone.
* `UninstallRestores` promises commands and shims; a page that was backed up stays in its backup if the manifest is gone.
* `DialogueNamesRestored` and `DiffLabelled` speak of handlers that succeed. One that fails to read may leave another file or another label
  (and the dialogue of restore then names a file that Enter does not restore), and a later key that succeeds keeps the disagreement if it touches neither side.
* `SelectionsInRange` leaves out the results of a search that failed midway: they are fewer, under the old selection.
* `SelectionSteady` lets the selection move in the Repos/Files tab, when the history was empty or of another file than the selected one, and
  when the selected revision was withdrawn. A number that was withdrawn and given again counts as the same revision.
* `PolicyTakes` says of a configuration with a bare line that every command still refuses it; `PolicyStands` excepts the remark.

## What is proved

Each theorem is about every value of its module's constants: any set of files, calls, names or contents, any bound, any
choice of faults. The hypotheses are the named assumptions of the modules, which the runs evaluate, and three more that the
statements spell out (`CleanFaults`, `DistinctArgs`, `OneDirPerKey`). Every part of every invariant below was checked by TLC before it
was proved.

| Module | Theorem | States | Of |
|---|---|---|---|
| `PublicationProofs` | `Invariance`, `TypeCorrect` | `IInv`, `TypeOK` | `Publication` |
| | `PublishedStays` | `SuccessIntact`: a call's revision is untouched once the call has returned | |
| | `NumbersOnlyGrow` | `NumbersGrow` (action property) | |
| `RevisionProofs` | `ImplementsTheLog` | `ImplementsLog`: every step is one of `RevisionLog` or a stutter | `Publication` |
| `RevisionProofs` | `TheLogIsKept` | `LogKept`: a returned call's revision stays listed as its own; one is listed only above all others of its file | `Publication` |
| | `TagsStayRight` | `TagsMatch` | |
| | `FailuresAreExplained`, `SuccessIsFull`, `ListedMeansComplete`, `NumbersHaveNoGaps` | `FailuresExplained`, `FullyPublished`, `VisibleRenders`, `NoGaps`, under `CleanFaults` | |
| `ListingProofs` | `ListingTyped` | `ListingType` | `Listing` |
| | `CompletedAreListed`, `RendersAreRight`, `RowsStayReadable` | `CompletedListed`, `RenderedRight`, `RowsReadable`, under `CleanFaults` | |
| | `CompletedArePrinted` | `CompletedPrinted`, under `CleanFaults` and `OneDirPerKey` | |
| `SessionProofs` | `SessionTyped`, `LastIsStored`, `CreatedIsStored`, `BaselineKept` | `SessionType`, `LastStored`, `CreatedStored`, `KeptBaseline` | `Session` |
| | `RevisionsChained` | `Chained`, under `DistinctArgs` | |
| `RestoreProofs` | `RestoreTyped`, `PriorKeptHolds`, `MirrorAccountedHolds`, `FailedUndoneHolds` | `RestoreType`, `PriorKept`, `MirrorAccounted`, `FailedUndone` (action property) | `Restore` |
| `TuiProofs` | `TuiInvariant`, `TuiTypeHolds` | `IInv` (of `TuiProofs`), `TuiType` | `Tui` |
| | `SelectionsStayInRange`, `DialogueAgrees`, `DiffIsLabelled` | `SelectionsInRange`, `DialogueNamesRestored`, `DiffLabelled` (each of the state and of the steps) | |
| | `SelectionIsSteady`, `RestoreIsShown` | `SelectionSteady`, `RestoreShown` (action properties) | |
| `InstallerProofs` | `InstallerTyped`, `UserFilesStay`, `CommandsAlwaysLead`, `OnlyExplainedRefusals`, `UninstallsRestore`, `InstallsComplete` | `InstallerType`, `UserFilesKept`, `CommandsLead`, `RefusalsExplained`, `UninstallRestores`, `InstallCompletes` | `Installer` |
| `LaunchProofs` | `EditorAlwaysReached`, `PolicyAlwaysHolds` | `EditorReached`, `PolicyHolds` (action properties, `PolicyTakes` and `PolicyStands`) | `Launch` |

### Publication
`SuccessIntact` is not inductive: that nobody touches a finished revision depends on where everybody else writes. `IInv` adds:
the lock's holder is the one process in the critical section (`LockHeld`); a working publisher has a number and no other
has (`SlotsNamed`); every record bears the number of the publisher that wrote it (`RecordsOwned`); a working publisher's
number is above every access record of its name but its own (`NumberFresh`); and the records before the one being written
are there and its own (`RecordsInOrder`), so that at the end all are. A later call works under a number that is above
those of all finished calls, whose access records stay; it can create, replace or unlink only under its own number.
`StepEffects` says in one place what any step does to records, slots and places (`Effects`); each part of `IInv` is then
preserved by a lemma about effects, without going through the actions again. `AfterNext` is the order of `publish`.

`RevisionProofs` goes on from there. A step either works on one record (`RecordStep`) or touches none (`Calm`), and `Moves`
says how a call may go on in a calm step. On that rest three invariants of their own:

* `TagInv`, whatever fails. What a tagger saw is a call that once had that slot (`TagsOwned`), and a call that gives up while it
  holds the lock has left no access record that is not its own (`AbortFresh`); so the number of a tag can have gone to
  another call only if the one that was seen failed or died.
* `PlanInv` and `Chain`, whatever fails. No call writes what it did not plan (`RecordsPlanned`, `StagesPlanned`), and access records have no
  gaps, which a rollback keeps because the number it withdraws is the highest.
* `CleanInv`, under `CleanFaults`. Until it is over, a call's `created` is exactly what there is of it, and a failed call has left nothing (`Tracked`);
  a record belongs to the writer of the backup (`Backed`); the diff is written before and unlinked after the access record (`DiffFirst`); and who gives
  up met a fault, or the leftover of a call that died (`Explained`).

`CleanFaults` leaves crashes and operations that fail without effect. It is no convenience: with an fsync that fails after its
operation took effect, or an unlink that fails in a rollback, something stays behind that no list knows of, and the four
properties are false of the code, as *What the properties leave open* says. The runs that check them allow the same faults.

The refinement maps the log to the listed records, in the order of numbers, and `reported` to the calls that have returned.
A write or an unlink of the lock's holder appends, withdraws or changes nothing in the log (`ListedStep`); a calm step reports a
revision that is listed or nothing (`ReportStep`).
`TheLogIsKept` reads the log's promise back into the repository: it follows from the refinement alone, for no call that returned is `None`.

### Listing
A reader's steps leave the repository alone (`ReadersChangeNothing`), so every theorem about `Publication` holds beside a reader;
`Sound` collects what is used of them, with `IndexInv`: a `.branch` file names a call of its key, and the directory of a call that
wrote it is there. The reader takes no lock, so that between two of its reads anything may have changed. Three
invariants say why that does no harm:

* `RowsInv`, for the calls that had returned when the reader began. Each is still to be read, is being read or has a row
  (`Covered`), and what is in the row is what it published (`MidwayRight`, `RowsRight`): whenever a column was read, it was read from records
  that nobody touches any more (`Published`, `DoneStays`).
* `HadInv`, for all the others. A slot that was listed was some call's (`PendingHad`, `MidwayHad`, `RowsHad`), and that call keeps the
  slot and never writes its access record again (`HadStays`). So if the access record is still its writer's, so are the backup and the diff
  (`StillThere`), which gives `RenderedRight`; and a file that is gone belonged to a call that withdrew it (`GoneHad`, `FailedHad`), which
  gives `RowsReadable`.
* `ItemsInv`, for the index and a search: each key of those calls, and each link under it, is still to be read or was read
  (`KeysCovered`, `Reached`, `FilesCovered`), and the directory is the one of the file (`KeyPlaced`, `ItemsPlaced`).

`OneDirPerKey` says that files of different directories have different directory keys. The code does not ensure it: `directory_key` is not
one-to-one, and for two directories of one key TLC finds `CompletedPrinted` violated, with the artifacts listed in the other directory. The
other four theorems do without it.

### Session
`LoopInv` says where the loop is (`Order`, `PollRange`): among others that once the editor is gone and the directory events are
drained no event is left, which only holds because nobody edits any more. What a step does to a track or to the revisions is said
once: a track stays, is `Cleared` by a creation as long as it has no revision, or is published (`TrackMoves`); tracks come from the command
line or from an event of an untracked file (`NewTracks`); revisions are only added (`RevisionsGrow`, `LastMoves`). The rest of `SessionInv`:
no event is forgotten (`Told`), the tracks before the one being flushed are stored (`Flushed`), a baseline stays as it was until a
creation is noticed (`Based`), and the last revision of a file is the baseline of a published track of it (`PublishedStored`, `Latest`).

None of that depends on the command line. `Chained` does: a file named twice gets two tracks with a baseline each, and their
revisions do not follow one another. `DistinctArgs` says that no file is named twice, and then no file has two tracks (`Distinct`);
with a file named twice TLC finds `Chained` violated and all other properties hold.

For these proofs the properties of `Session` speak of the numbers of revisions (`IsFirst`, `IsLast`, `Follows`); selecting a
subsequence is a recursive definition, of which the provers know nothing.

### Restore
`Typed` is the types. `InHand` says what a command has at each of its steps: a target and a state it has read, a listed state that some
revision keeps, and, once it may replace the file, that a revision keeps what it read; `HandStays` carries that over the steps
of others, because revisions only grow in number (`Grows`, `KeptStays`), and `HandStep` over its own. `Accounted` says that a
number is in exactly one place: the mirror, the hands of the process that is to mirror it, the warnings that a process still has
in hand, or those told or lost; for it there are only three kinds of steps (`Quiet`, `Records`, `Tells`), and every action is one of
them (`CommandKind`, `SessionKind`; `EndTells` for the ways a process ends). `Unraced` says that the file is what a restore read as long as
nobody else wrote it, and after the replacement what it was to become; with `InHand` it gives both halves of `FailedUndone`: the failures
before the rename, and those after it.

### Tui
A handler may fail after any of its reads, so that the file selected, the history on the screen, the label and the diff may come
from different moments. What nevertheless holds in every state is little, and `IInv` is exactly that (`Readable`): types, each selection inside its
list (`AllInside`), and a history of one file (`OneFile`), not always the selected one. It is inductive with reads that fail, withdrawals
and restores that publish twice, because no operator looks at more of the old state than this: `RefreshWorks` establishes it for the
result of `refresh` and for each state that a failing `refresh` leaves.

What the properties say beyond it is said of steps. An operator that succeeds reads both the files and the history (`AgreedFile`), or
leaves both alone; so `Agree` is made or kept, which is `DialogueNamesRestored`. One that succeeds sets label and diff together (`ShowEvent`, `DiffChanged`) or
leaves both alone, which is `DiffLabelled`. `refresh` finds the file and the revision that were selected as long as they are listed
(`RefreshFindsFile`, `RefreshFindsRevision`); a failing handler keeps the old history or has found them too: this is `SelectionSteady`.

TLC checked `IInv` on the states of `tui_all` first. The proof has three layers. *Lists*: `SortedProperties` says that `Sorted` has
every member of its set once and in order, for keys that differ (`Keyed`), by counting the members that come sooner; from it follow `Rows`,
the timeline, the history, the visible rows, the tree and the results. *Showing*: `select_timeline`, `select_search_result`,
`update_diff` and so `ShowTab`, and the states they leave when they fail, change nothing but the diff, its label and the item.
*Handlers*: each `Works` in its outcome and in its failing states, and all but choosing and restoring are `Steady`; parts of the state that
a handler leaves alone keep their part of the invariant (`PartsKept`). `EveryStep` collects the actions.

The proofs added two assumptions to the model: the repository the program starts on is a list of revisions
within the bound (`StartsAssumption`), and epochs are integers.

### Installer and Launch
A run may stop before any task, so no property can speak of its end alone. The invariant turns the list of tasks into a
statement about the state: whatever a run has not done yet is among the tasks that remain (`Left`), these are in the
order of its phases (`Rank`, `Planned`), and therefore what is no longer among them has been done: what was copied (`Copied`) is
switched to, what is switched to is recorded (`Recorded`), names are replaced only after that (`Placed`, `Installing`), and an uninstall takes the
tree after the names (`Restoring`). Between the two operations of a task its name is free (`Halved`), so that moving the user's file to
the backup loses nothing.

`EditorReached` follows from the same invariant, state by state; `PolicyTakes` from the last task of an install, `Configured`, and the parse
of what it wrote. `PolicyStands` follows from what a run chose at its start, which `Configured` keeps true of the configuration until the run has
written it, and from the cases in which the two parsers give different answers. Two assumptions became explicit in the proofs: `InstallerAssumption` also says that the kinds of a name's entry, the
instances and the names of files are different values, and that the lists of names consist of names;
`LaunchAssumption`, that the places a program is found at are not `None`. They are about values that stand for strings of different
sorts, and say nothing of the code.

### Only model-checked
* `EveryCallEnds` and `EventuallyStored`: liveness under fairness is beyond this prover.

Every other property of a passing run is a theorem. What the four violated properties say is refuted by their runs.

## Plan

Directory creation in `Repository::open` as steps of the first call; several other processes beside `Tui`.

## Not modelled

* Formatting, drawing, colours, paging, argument parsing and usage messages; the diff and patch programs beyond what they return.
* Signals and the terminal: `forward_signal` reads one atomic pid and sends; what can go wrong is that the system has given a pid
  again, of which the code decides nothing.
* The rules of discovery for assets and temporary files (`profiled_discovery_candidate` and its like): `Session`'s `Files` are
  those they let pass. macOS variants, and the `path_*` variants of the store for platforms without descriptors.
* Walking of paths and refusal of symbolic links, file modes and ownership, the lookup of accounts, the child process that
  publishes to the mirror with dropped privileges (its outcomes are in `Restore`).
* In `Tui`: scrolling, widths, the header's animation; what other processes do while a handler is at work counts as before or
  after it, or as a read that fails; they publish and withdraw revisions and write no tags; one is under way at a time. A `Create` is an `Edit`.
  `Mode::SearchResults` and `Mode::Activity` cannot be reached by keys, and the functions
  behind them are left out; saved filters apply to searches only.
* In `Restore`: a session on a file that is created in it, which is in `Session`; the final poll of the session is the last of its polls.
* In `Installer`: `--no-copy`, the questions and checks of `install_bedit.sh` (an answer counts as asked for), the checks of arguments and payload, modes and owners; files of one kind in the tree are
  removed together, for nothing tells them apart; the configuration's `.previous` copy.
* Packaging and the entry points, which dispatch.
* `generate_diff` makes the diff valid UTF-8, so that a file that is not may get a diff that does not apply: contents are
  abstract texts here.
