------------------------------- MODULE Session -------------------------------
(***************************************************************************)
(* An edit session: the wrapper (src/src/wrapper.rs) polls the files it      *)
(* tracks while the editor it started saves them, learns of other files      *)
(* from directory events and from the editor's open files, and publishes a  *)
(* revision for every content it finds stable.  Each reading of a file is a  *)
(* step, and the editor may act between any two.                            *)
(*                                                                          *)
(* Contents are numbers: Empty, the Original of a file that exists before    *)
(* the session, then one for each save that changes a file.  Publishing is   *)
(* one step here; Publication says what happens in it.                      *)
(***************************************************************************)
EXTENDS Naturals, Sequences

CONSTANTS
  Files,     \* what the editor may edit, in directories the wrapper watches
  Existing,  \* those that exist before the session
  Args,      \* the files on the command line
  Ways,      \* how the editor saves, a subset of AllWays
  MaxSaves,  \* bound on the saves of a session
  Faults,    \* a subset of FaultKinds
  None

(* "inplace": truncate and write.  "replace": rename a new file over it.     *)
(* "aside": rename it away, then create it and write.                       *)
AllWays == {"inplace", "replace", "aside"}

(* "publish": create_revision returns an error.  "kill": the editor dies,    *)
(* perhaps in the middle of a save.  "watch": no directory watch.           *)
FaultKinds == {"publish", "kill", "watch"}

ASSUME SessionAssumption ==
  /\ Existing \subseteq Files
  /\ Args \in Seq(Files)
  /\ Ways \subseteq AllWays
  /\ MaxSaves \in Nat
  /\ Faults \subseteq FaultKinds
  /\ None \notin Nat \union Files

Empty == 0
Original == 1
Contents == 0..(MaxSaves + 1)

VARIABLES
  live,       \* the content of each file; None: there is no such file
  writing,    \* the save the editor is in the middle of: file and content
  open,       \* files the editor holds open
  saves,      \* how many saves have begun
  editor,     \* "none", "running" or "exited"
  watching,   \* whether the directories are watched
  events,     \* directory events not yet read: file, and whether created
  batch,      \* what the wrapper has been told and not yet acted upon
  tracks,     \* the tracked files, in the order the wrapper polls them
  stage,      \* what the wrapper does next
  i,          \* the track being polled
  first,      \* its content as first read
  revisions,  \* what has been published: file, baseline, content
  noticed     \* every event there has been (history)

files == <<live, writing, open, saves, editor>>
polling == <<i, first>>
vars == <<files, watching, events, batch, tracks, stage, polling, revisions, noticed>>

Polling == {"poll", "stable", "publish"}
Flushing == {"flush", "flushpublish"}
Learning == {"events", "fds", "lastevents"}
Ended == {"done", "failed"}

Tracks == [file : Files, baseline : Contents, observed : Contents \union {None},
           published : BOOLEAN]

SessionType ==
  /\ live \in [Files -> Contents \union {None}]
  /\ writing \in (Files \X Contents) \union {None}
  /\ open \subseteq Files
  /\ saves \in 0..MaxSaves
  /\ editor \in {"none", "running", "exited"}
  /\ watching \in BOOLEAN
  /\ events \subseteq Files \X BOOLEAN
  /\ batch \subseteq Files \X BOOLEAN
  /\ tracks \in Seq(Tracks)
  /\ stage \in {"collect", "spawn", "watch", "drain", "discover", "wait", "exited"}
                 \union Learning \union Polling \union Flushing \union Ended
  /\ i \in 1..(Len(tracks) + 1)
  /\ first \in Contents \union {None}
  /\ revisions \in Seq([file : Files, base : Contents, content : Contents])
  /\ noticed \subseteq Files \X BOOLEAN

Init ==
  /\ live = [f \in Files |-> IF f \in Existing THEN Original ELSE None]
  /\ writing = None
  /\ open = {} /\ events = {} /\ batch = {} /\ noticed = {}
  /\ saves = 0
  /\ editor = "none"
  /\ watching = FALSE
  /\ tracks = <<>> /\ revisions = <<>>
  /\ stage = "collect"
  /\ i = 1
  /\ first = None

Continue(from, to) ==
  /\ stage = from
  /\ stage' = to

NewTrack(f, content) ==
  [file |-> f, baseline |-> content, observed |-> content, published |-> FALSE]

-----------------------------------------------------------------------------
(* The editor.  A directory event is queued for whatever it opens, creates   *)
(* or renames into place.                                                   *)
Signal(f, created) ==
  IF watching
  THEN events' = events \union {<<f, created>>} /\ noticed' = noticed \union {<<f, created>>}
  ELSE UNCHANGED <<events, noticed>>

EditorActs ==
  /\ editor = "running"
  /\ UNCHANGED <<editor, watching, batch, tracks, stage, polling, revisions>>

SavingTo(f) == writing # None /\ writing[1] = f

(* It opens a file to read it. *)
OpenFile(f) ==
  /\ EditorActs
  /\ live[f] # None /\ f \notin open
  /\ open' = open \union {f}
  /\ Signal(f, FALSE)
  /\ UNCHANGED <<live, writing, saves>>

CloseFile(f) ==
  /\ EditorActs
  /\ f \in open /\ ~ SavingTo(f)
  /\ open' = open \ {f}
  /\ UNCHANGED <<live, writing, saves, events, noticed>>

(* What a save writes: the same content again, or one never seen before.     *)
Saves(f, c) ==
  /\ EditorActs
  /\ writing = None /\ saves < MaxSaves
  /\ saves' = saves + 1
  /\ c \in {saves + 2} \union ({live[f]} \ {None})

Truncate(f, c) ==
  /\ "inplace" \in Ways \/ live[f] = None
  /\ Saves(f, c)
  /\ live' = [live EXCEPT ![f] = Empty]
  /\ writing' = <<f, c>>
  /\ open' = open \union {f}
  /\ Signal(f, live[f] = None)

RenameOver(f, c) ==
  /\ "replace" \in Ways
  /\ Saves(f, c)
  /\ live' = [live EXCEPT ![f] = c]
  /\ Signal(f, TRUE)
  /\ UNCHANGED <<writing, open>>

RenameAway(f, c) ==
  /\ "aside" \in Ways /\ live[f] # None
  /\ Saves(f, c)
  /\ live' = [live EXCEPT ![f] = None]
  /\ writing' = <<f, c>>
  /\ open' = open \ {f}
  /\ UNCHANGED <<events, noticed>>

CreateAgain(f) ==
  /\ EditorActs
  /\ SavingTo(f) /\ live[f] = None
  /\ live' = [live EXCEPT ![f] = Empty]
  /\ open' = open \union {f}
  /\ Signal(f, TRUE)
  /\ UNCHANGED <<writing, saves>>

EndSave(f) ==
  /\ EditorActs
  /\ SavingTo(f) /\ live[f] # None
  /\ live' = [live EXCEPT ![f] = writing[2]]
  /\ writing' = None
  /\ UNCHANGED <<open, saves, events, noticed>>

(* It exits, by itself or killed by a signal. *)
Exit ==
  /\ editor = "running"
  /\ writing = None \/ "kill" \in Faults
  /\ editor' = "exited"
  /\ open' = {}
  /\ UNCHANGED <<live, writing, saves, watching, events, batch, tracks, stage, polling,
                 revisions, noticed>>

Saving == \E f \in Files : CreateAgain(f) \/ EndSave(f)

EditorStep ==
  \/ \E f \in Files : OpenFile(f) \/ CloseFile(f)
  \/ \E f \in Files, c \in Contents : Truncate(f, c) \/ RenameOver(f, c) \/ RenameAway(f, c)
  \/ Saving
  \/ Exit

-----------------------------------------------------------------------------
(* The wrapper: before the editor runs. *)

(* collect_tracks: a file that does not exist is created; a file named twice *)
(* is tracked twice.                                                        *)
CollectTracks ==
  LET Named == {Args[n] : n \in DOMAIN Args}
      found == [f \in Files |-> IF f \in Named /\ live[f] = None THEN Empty ELSE live[f]]
  IN  /\ Continue("collect", "spawn")
      /\ live' = found
      /\ tracks' = [n \in DOMAIN Args |-> NewTrack(Args[n], found[Args[n]])]
      /\ UNCHANGED <<writing, open, saves, editor, watching, events, batch, polling,
                     revisions, noticed>>

Spawn ==
  /\ Continue("spawn", "watch")
  /\ editor' = "running"
  /\ UNCHANGED <<live, writing, open, saves, watching, events, batch, tracks, polling,
                 revisions, noticed>>

(* The watch begins after the editor has, or not at all. *)
Watch ==
  /\ Continue("watch", "drain")
  /\ watching' = TRUE
  /\ UNCHANGED <<files, events, batch, tracks, polling, revisions, noticed>>

WatchFails ==
  /\ "watch" \in Faults
  /\ Continue("watch", "drain")
  /\ UNCHANGED <<files, watching, events, batch, tracks, polling, revisions, noticed>>

-----------------------------------------------------------------------------
(* Learning of files. *)

(* DirectoryEventDiscovery::drain: one event for each file, a creation if    *)
(* any of its events is one.                                                *)
Coalesced == {e \in events : e[2] \/ <<e[1], TRUE>> \notin events}

(* Mutant: what is queued when the editor exits is not looked at. *)
DrainWhileRunning ==
  /\ \/ Continue("drain", "events")
     \/ Continue("exited", "lastevents")
  /\ batch' = IF stage = "drain" THEN Coalesced ELSE {}
  /\ events' = {}
  /\ UNCHANGED <<files, watching, tracks, polling, revisions, noticed>>

(* The queue is read in each turn of the loop, and once the editor is gone. *)
Drain ==
  /\ \/ Continue("drain", "events")
     \/ Continue("exited", "lastevents")
  /\ batch' = Coalesced
  /\ events' = {}
  /\ UNCHANGED <<files, watching, tracks, polling, revisions, noticed>>

(* discover_open_files, when its interval has passed and it succeeds. *)
Discover ==
  /\ Continue("discover", "fds")
  /\ batch' \in {{}, {<<f, FALSE>> : f \in open}}
  /\ UNCHANGED <<files, watching, events, tracks, polling, revisions, noticed>>

(* Mutant: the baseline is cleared although a revision is published. *)
RelearntAlways(track, created) ==
  IF created THEN [track EXCEPT !.baseline = Empty, !.observed = None] ELSE track

(* Mutant: a file that was merely opened loses its baseline too. *)
RelearntOpened(track, created) ==
  IF track.published THEN track ELSE [track EXCEPT !.baseline = Empty, !.observed = None]

(* Mutant: what is tracked already is left as it is. *)
RelearntNever(track, created) == track

(* What becomes of a track when an event names its file: of a created file   *)
(* nothing can have been stored before, unless it is published already.     *)
Relearnt(track, created) ==
  IF created /\ ~ track.published
  THEN [track EXCEPT !.baseline = Empty, !.observed = None]
  ELSE track

(* add_discovered_target, for the first track of the file or a new one. *)
Learn(f, created) ==
  /\ stage \in Learning
  /\ <<f, created>> \in batch
  /\ batch' = batch \ {<<f, created>>}
  /\ \/ live[f] = None /\ UNCHANGED tracks
     \/ /\ live[f] # None
        /\ \E n \in DOMAIN tracks :
             /\ tracks[n].file = f
             /\ \A m \in 1..(n - 1) : tracks[m].file # f
             /\ tracks' = [tracks EXCEPT ![n] = Relearnt(tracks[n], created)]
     \/ /\ live[f] # None
        /\ \A n \in DOMAIN tracks : tracks[n].file # f
        /\ tracks' = Append(tracks, NewTrack(f, IF created THEN Empty ELSE live[f]))
  /\ UNCHANGED <<files, watching, events, stage, polling, revisions, noticed>>

EndLearning ==
  /\ batch = {}
  /\ \/ Continue("events", "discover")
     \/ Continue("fds", "wait")
     \/ Continue("lastevents", "flush")
  /\ i' = 1
  /\ UNCHANGED <<files, watching, events, batch, tracks, first, revisions, noticed>>

(* try_wait: polling goes on while the editor runs. *)
Wait ==
  /\ Continue("wait", IF editor = "running" THEN "poll" ELSE "exited")
  /\ UNCHANGED <<files, watching, events, batch, tracks, polling, revisions, noticed>>

-----------------------------------------------------------------------------
(* poll_track: an unchanged file is left alone; otherwise two equal readings *)
(* make a content that is published if it is not the baseline.              *)
Unlearned == UNCHANGED <<files, watching, events, batch, noticed>>

Advance(from) == Continue(from, "poll") /\ i' = i + 1

(* Mutant: a file that is not there is read as any other. *)
FirstReadAny ==
  /\ stage = "poll" /\ i <= Len(tracks)
  /\ first' = live[tracks[i].file]
  /\ IF first' = tracks[i].observed
     THEN Advance("poll")
     ELSE Continue("poll", "stable") /\ i' = i
  /\ Unlearned
  /\ UNCHANGED <<tracks, revisions>>

FirstRead ==
  /\ stage = "poll" /\ i <= Len(tracks)
  /\ first' = live[tracks[i].file]
  /\ IF first' \in {None, tracks[i].observed}
     THEN Advance("poll")
     ELSE Continue("poll", "stable") /\ i' = i
  /\ Unlearned
  /\ UNCHANGED <<tracks, revisions>>

(* Mutant: an unstable content counts as observed. *)
SecondReadKept ==
  LET second == live[tracks[i].file]
      settled == second = first
      changed == settled /\ second # tracks[i].baseline
  IN  /\ stage = "stable"
      /\ IF changed
         THEN Continue("stable", "publish") /\ i' = i
         ELSE Advance("stable")
      /\ tracks' = IF second # None /\ ~ changed THEN [tracks EXCEPT ![i].observed = second]
                   ELSE tracks
      /\ Unlearned
      /\ UNCHANGED <<first, revisions>>

SecondRead ==
  LET second == live[tracks[i].file]
      settled == second = first
      changed == settled /\ second # tracks[i].baseline
  IN  /\ stage = "stable"
      /\ IF changed
         THEN Continue("stable", "publish") /\ i' = i
         ELSE Advance("stable")
      /\ tracks' = IF settled /\ ~ changed THEN [tracks EXCEPT ![i].observed = second]
                   ELSE tracks
      /\ Unlearned
      /\ UNCHANGED <<first, revisions>>

(* The final flush publishes what it reads at once. *)
FlushRead ==
  LET found == live[tracks[i].file]
      changed == found \notin {None, tracks[i].baseline}
  IN  /\ stage = "flush" /\ i <= Len(tracks)
      /\ first' = found
      /\ IF changed
         THEN Continue("flush", "flushpublish") /\ i' = i
         ELSE Continue("flush", "flush") /\ i' = i + 1
      /\ tracks' = IF changed \/ found = None THEN tracks
                   ELSE [tracks EXCEPT ![i].observed = found]
      /\ Unlearned
      /\ UNCHANGED revisions

Publish ==
  LET track == tracks[i]
  IN  /\ \/ Continue("publish", "poll")
         \/ Continue("flushpublish", "flush")
      /\ i' = i + 1
      /\ revisions' = Append(revisions,
                       [file |-> track.file, base |-> track.baseline, content |-> first])
      /\ tracks' = [tracks EXCEPT ![i] =
                      [@ EXCEPT !.baseline = first, !.observed = first, !.published = TRUE]]
      /\ Unlearned
      /\ UNCHANGED first

(* An error while the editor runs ends the session: the editor is killed.    *)
(* In the final flush it ends the wrapper: later tracks are not flushed.     *)
PublishFails ==
  /\ "publish" \in Faults
  /\ \/ Continue("publish", "failed")
     \/ Continue("flushpublish", "failed")
  /\ editor' = "exited"
  /\ open' = {}
  /\ UNCHANGED <<live, writing, saves, watching, events, batch, tracks, polling,
                 revisions, noticed>>

EndPoll ==
  /\ i > Len(tracks)
  /\ \/ Continue("poll", "drain")
     \/ Continue("flush", "done")
  /\ UNCHANGED <<files, watching, events, batch, tracks, polling, revisions, noticed>>

WrapperStep ==
  \/ CollectTracks \/ Spawn \/ Watch
  \/ Drain \/ Discover \/ EndLearning \/ Wait
  \/ \E f \in Files, created \in BOOLEAN : Learn(f, created)
  \/ FirstRead \/ SecondRead \/ FlushRead \/ Publish \/ EndPoll

Next == WrapperStep \/ WatchFails \/ PublishFails \/ EditorStep

Spec == Init /\ [][Next]_vars

(* The wrapper's loop never stops by itself, and the editor ends a save it   *)
(* has begun unless it is killed.                                           *)
FairSpec == Spec /\ WF_vars(WrapperStep) /\ WF_vars(Saving)

-----------------------------------------------------------------------------
(* The n-th revision is the first, or the last, of its file; or the next one *)
(* of its file after the m-th.                                              *)
Before(n) == 1..(n - 1)
Between(m, n) == (m + 1)..(n - 1)
OfFile(f, ns) == {n \in ns : revisions[n].file = f}

IsFirst(f, n) == revisions[n].file = f /\ OfFile(f, Before(n)) = {}
IsLast(f, n) == revisions[n].file = f /\ OfFile(f, Between(n, Len(revisions) + 1)) = {}
Follows(m, n) ==
  LET f == revisions[m].file
  IN  m < n /\ revisions[n].file = f /\ OfFile(f, Between(m, n)) = {}

(* The revisions of a file form a chain: each was made against the content   *)
(* of the one before, whatever events arrive late, so that between them      *)
(* nothing is lost and nothing is stored twice.                             *)
Chained ==
  \A m, n \in DOMAIN revisions :
    Follows(m, n) => revisions[n].base = revisions[m].content

(* "Each tracked edit session snapshots the file before edit"               *)
(* (man/man1/bvi.1:19): the first revision of a file on the command line     *)
(* holds what it contained when the session began.                          *)
HoldsBaseline(f) ==
  \A n \in DOMAIN revisions :
    IsFirst(f, n) => revisions[n].base = IF f \in Existing THEN Original ELSE Empty

FirstBaseline == \A n \in DOMAIN Args : HoldsBaseline(Args[n])

(* It does if the file has never been created or renamed into place, however *)
(* it is saved, discovered and closed otherwise.                            *)
KeptBaseline ==
  \A n \in DOMAIN Args : <<Args[n], TRUE>> \notin noticed => HoldsBaseline(Args[n])

(* When a session ends well, every file of which there has been an event is  *)
(* tracked, and nothing of it is left to store: it contains what its last    *)
(* revision does, or what it contained when the wrapper first saw it.       *)
LastStored ==
  stage = "done" => \A f \in Files, created \in BOOLEAN :
    <<f, created>> \in noticed /\ live[f] # None =>
      \E n \in DOMAIN tracks : tracks[n].file = f /\ tracks[n].baseline = live[f]

(* A file whose creation was watched is stored even if it was written before *)
(* the wrapper first read it, or first learnt of it in another way.         *)
CreatedStored ==
  stage = "done" => \A f \in Files :
    <<f, TRUE>> \in noticed /\ live[f] \notin {None, Empty} =>
      \E n \in DOMAIN revisions : IsLast(f, n) /\ revisions[n].content = live[f]

(* Once the editor stops changing its files, each is stored as it is while   *)
(* the editor still runs, or the session ends.                              *)
Current ==
  \A n \in DOMAIN tracks : live[tracks[n].file] \in {None, tracks[n].baseline}

EventuallyStored == <>[](Current \/ stage \in Ended)
=============================================================================
