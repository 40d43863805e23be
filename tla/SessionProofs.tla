---------------------------- MODULE SessionProofs ----------------------------
(* Proofs about Session.  What every step does to a track and to the          *)
(* revisions is said once (TrackMoves, NewTracks, RevisionsGrow, LastMoves);  *)
(* each part of the invariant is then kept for those reasons.                 *)
EXTENDS Session, SequenceTheorems, TLAPS

(* No file is named twice on the command line.                               *)
DistinctArgs == \A m, n \in DOMAIN Args : Args[m] = Args[n] => m = n

(* Some track is of file f.                                                  *)
Tracked(f) == \E n \in DOMAIN tracks : tracks[n].file = f

(* The stages in which the editor is gone.                                   *)
Stopped == {"exited", "lastevents", "flush", "flushpublish", "done"}

(* The stages after the last drain of the directory events.                  *)
Closing == {"lastevents", "flush", "flushpublish", "done"}

(* What has been done, and what not yet, at each stage: the editor runs      *)
(* from Spawn to its exit, a batch is there while the wrapper learns,        *)
(* events only while directories are watched, and every file on the command  *)
(* line is tracked once the loop has begun.                                  *)
Order ==
  /\ stage \in {"collect", "spawn"} <=> editor = "none"
  /\ stage \in Stopped => editor = "exited"
  /\ stage \notin Learning => batch = {}
  /\ stage \in Closing => events = {}
  /\ stage \in {"collect", "spawn", "watch"} => ~ watching
  /\ ~ watching => noticed = {}
  /\ events \subseteq noticed
  /\ \A f \in Files : <<f, TRUE>> \in batch => <<f, TRUE>> \in noticed
  /\ stage = "collect" =>
       /\ tracks = <<>> /\ revisions = <<>>
       /\ live = [f \in Files |-> IF f \in Existing THEN Original ELSE None]
  /\ stage # "collect" => \A n \in DOMAIN Args : Tracked(Args[n])

(* Between its two readings, and before it publishes, the wrapper has a      *)
(* track and a content.                                                      *)
PollRange ==
  /\ stage \in {"stable", "publish", "flushpublish"} => i \in DOMAIN tracks /\ first # None

(* A track counts as published only if there is a last revision of its       *)
(* file.                                                                     *)
PublishedStored ==
  \A n \in DOMAIN tracks, f \in Files : tracks[n].published /\ tracks[n].file = f =>
    \E r \in DOMAIN revisions : IsLast(f, r)

(* The last revision of a file holds the baseline of a published track of    *)
(* it; it need not be every one, for a file named twice has two.             *)
Latest ==
  \A r \in DOMAIN revisions, f \in Files : IsLast(f, r) =>
    \E n \in DOMAIN tracks :
      /\ tracks[n].file = f /\ tracks[n].published
      /\ tracks[n].baseline = revisions[r].content

(* No file has two tracks.                                                   *)
Distinct == \A m, n \in DOMAIN tracks : tracks[m].file = tracks[n].file => m = n

(* No event is forgotten: its file is tracked or an event of it is still to  *)
(* be read; and a creation has cleared the baseline of a track, unless a     *)
(* revision had been published.                                              *)
Told ==
  \A f \in Files : live[f] # None =>
    /\ \A b \in BOOLEAN : <<f, b>> \in noticed =>
         Tracked(f) \/ \E c \in BOOLEAN : <<f, c>> \in events \union batch
    /\ <<f, TRUE>> \in noticed =>
         \/ <<f, TRUE>> \in events \union batch
         \/ \E n \in DOMAIN tracks :
              tracks[n].file = f /\ (tracks[n].published \/ tracks[n].baseline = Empty)

(* The tracks before the one that is being flushed have nothing left to      *)
(* store: nobody edits any more.                                             *)
Flushed ==
  /\ stage \in Flushing =>
       \A n \in 1..(i - 1) : live[tracks[n].file] \in {None, tracks[n].baseline}
  /\ stage = "flushpublish" => first = live[tracks[i].file]
  /\ stage = "done" => \A n \in DOMAIN tracks : live[tracks[n].file] \in {None, tracks[n].baseline}

(* As long as its file was never created, a track without a revision has     *)
(* the baseline it began with.                                               *)
Based ==
  \A n \in DOMAIN tracks, m \in DOMAIN Args :
    tracks[n].file = Args[m] /\ <<Args[m], TRUE>> \notin noticed /\ ~ tracks[n].published =>
      tracks[n].baseline = IF Args[m] \in Existing THEN Original ELSE Empty

-----------------------------------------------------------------------------
(* The directory events.                                                     *)
Pairs == Files \X BOOLEAN

(* What may be published.                                                    *)
Revisions == [file : Files, base : Contents, content : Contents]

(* Contents and files are no None.                                           *)
LEMMA Values ==
  /\ Empty \in Contents /\ Original \in Contents /\ None \notin Contents
  /\ \A f \in Files : None # f
BY SessionAssumption DEF Empty, Original, Contents

(* What the editor may change, whatever it does: a file that appears in a    *)
(* watched directory is announced as created.                                *)
Edited ==
  /\ editor = "running" /\ editor' \in {"running", "exited"}
  /\ UNCHANGED <<watching, batch, tracks, stage, i, first, revisions>>
  /\ \E new \in SUBSET Pairs :
       /\ events' = events \union new
       /\ noticed' = noticed \union new
       /\ ~ watching => new = {}
       /\ \A f \in Files : watching /\ live[f] = None /\ live'[f] # None => <<f, TRUE>> \in new

(* Signal adds to the events and their history alike, and nothing when       *)
(* nobody watches.                                                           *)
LEMMA SignalPairs ==
  ASSUME NEW f \in Files, NEW b \in BOOLEAN, Signal(f, b)
  PROVE  \E new \in SUBSET Pairs :
           /\ events' = events \union new
           /\ noticed' = noticed \union new
           /\ ~ watching => new = {}
           /\ watching => <<f, b>> \in new
<1> DEFINE new == IF watching THEN {<<f, b>>} ELSE {}
<1>1. new \in SUBSET Pairs
  BY DEF Pairs
<1>2. /\ events' = events \union new
      /\ noticed' = noticed \union new
      /\ ~ watching => new = {}
      /\ watching => <<f, b>> \in new
  BY DEF Signal
<1> QED
  BY <1>1, <1>2

(* So does an act that is not announced.                                     *)
LEMMA Silent ==
  ASSUME UNCHANGED <<events, noticed>>
  PROVE  \E new \in SUBSET Pairs :
           /\ events' = events \union new
           /\ noticed' = noticed \union new
           /\ new = {}
<1>1. {} \in SUBSET Pairs
  OBVIOUS
<1> QED
  BY <1>1

(* Every step of the editor is of that kind.                                 *)
LEMMA Edits == SessionType /\ EditorStep => Edited
<1> SUFFICES ASSUME SessionType, EditorStep PROVE Edited
  OBVIOUS
<1>0. live \in [Files -> Contents \union {None}]
  BY DEF SessionType
<1> USE DEF EditorActs, polling, files
<1>1. ASSUME NEW f \in Files, OpenFile(f) PROVE Edited
  BY <1>1, SignalPairs DEF OpenFile, Edited
<1>2. ASSUME NEW f \in Files, CloseFile(f) PROVE Edited
  BY <1>2, Silent DEF CloseFile, Edited
<1>3. ASSUME NEW f \in Files, NEW c \in Contents, Truncate(f, c) PROVE Edited
  <2>1. \A g \in Files : live[g] = None /\ live'[g] # None => g = f /\ live[f] = None
    BY <1>0, <1>3 DEF Truncate
  <2>2. Signal(f, live[f] = None) /\ EditorActs
    BY <1>3 DEF Truncate, Saves
  <2>3. PICK new \in SUBSET Pairs :
           /\ events' = events \union new
           /\ noticed' = noticed \union new
           /\ ~ watching => new = {}
           /\ watching => <<f, live[f] = None>> \in new
    BY <2>2, SignalPairs
  <2>4. live[f] = None => (live[f] = None) = TRUE
    OBVIOUS
  <2> QED
    BY <2>1, <2>2, <2>3, <2>4 DEF Edited
<1>4. ASSUME NEW f \in Files, NEW c \in Contents, RenameOver(f, c) PROVE Edited
  <2>1. \A g \in Files : live[g] = None /\ live'[g] # None => g = f
    BY <1>0, <1>4 DEF RenameOver
  <2> QED
    BY <1>4, <2>1, SignalPairs DEF RenameOver, Saves, Edited
<1>5. ASSUME NEW f \in Files, NEW c \in Contents, RenameAway(f, c) PROVE Edited
  <2>1. \A g \in Files : ~ (live[g] = None /\ live'[g] # None)
    BY <1>0, <1>5 DEF RenameAway
  <2> QED
    BY <1>5, <2>1, Silent DEF RenameAway, Saves, Edited
<1>6. ASSUME NEW f \in Files, CreateAgain(f) PROVE Edited
  <2>1. \A g \in Files : live[g] = None /\ live'[g] # None => g = f
    BY <1>0, <1>6 DEF CreateAgain
  <2> QED
    BY <1>6, <2>1, SignalPairs DEF CreateAgain, Edited
<1>7. ASSUME NEW f \in Files, EndSave(f) PROVE Edited
  <2>1. \A g \in Files : ~ (live[g] = None /\ live'[g] # None)
    BY <1>0, <1>7 DEF EndSave
  <2> QED
    BY <1>7, <2>1, Silent DEF EndSave, Edited
<1>8. CASE Exit
  BY <1>8, Silent DEF Exit, Edited
<1> QED
  BY <1>1, <1>2, <1>3, <1>4, <1>5, <1>6, <1>7, <1>8 DEF EditorStep, Saving

(* The steps that leave the tracks and the revisions as they are.            *)
Quiet == Spawn \/ Watch \/ WatchFails \/ Drain \/ Discover \/ EndLearning \/ Wait \/ EndPoll
           \/ PublishFails \/ UNCHANGED vars

(* Every step is the editor's, quiet, or one of six others.                  *)
LEMMA Steps ==
  ASSUME SessionType, [Next]_vars
  PROVE  \/ CollectTracks \/ Edited \/ Quiet
         \/ \E f \in Files, created \in BOOLEAN : Learn(f, created)
         \/ FirstRead \/ SecondRead \/ FlushRead \/ Publish
BY Edits DEF Next, WrapperStep, Quiet

(* A quiet step changes no file either.                                      *)
LEMMA QuietSteps ==
  Quiet => UNCHANGED <<live, tracks, revisions>>
BY DEF Quiet, Spawn, Watch, WatchFails, Drain, Discover, EndLearning, Wait, EndPoll, PublishFails,
       vars, files

(* Track n becomes track, and all others stay.                               *)
Changed(n, track) ==
  /\ tracks' \in Seq(Tracks) /\ Len(tracks') = Len(tracks)
  /\ \A m \in DOMAIN tracks : tracks'[m] = IF m = n THEN track ELSE tracks[m]

(* A track is added after all others.                                        *)
Added(track) ==
  /\ tracks' \in Seq(Tracks) /\ Len(tracks') = Len(tracks) + 1
  /\ \A m \in DOMAIN tracks : tracks'[m] = tracks[m]
  /\ tracks'[Len(tracks) + 1] = track

(* What Learn does to the tracks.                                            *)
Relearning(f, created) ==
  \/ live[f] = None /\ UNCHANGED tracks
  \/ /\ live[f] # None
     /\ \E n \in DOMAIN tracks :
          tracks[n].file = f /\ Changed(n, Relearnt(tracks[n], created))
  \/ /\ live[f] # None /\ ~ Tracked(f)
     /\ Added(NewTrack(f, IF created THEN Empty ELSE live[f]))

(* New tracks, and tracks that are changed as the wrapper does, are tracks.  *)
LEMMA TrackTypes ==
  /\ \A f \in Files, c \in Contents : NewTrack(f, c) \in Tracks
  /\ \A track \in Tracks, created \in BOOLEAN : Relearnt(track, created) \in Tracks
  /\ \A track \in Tracks, c \in Contents :
       [track EXCEPT !.baseline = c, !.observed = c, !.published = TRUE] \in Tracks
  /\ \A track \in Tracks, c \in Contents : [track EXCEPT !.observed = c] \in Tracks
BY Values DEF NewTrack, Relearnt, Tracks

(* The types of tracks and revisions, in the form the proofs use.            *)
LEMMA TrackSeq ==
  ASSUME SessionType
  PROVE  /\ tracks \in Seq(Tracks) /\ Len(tracks) \in Nat /\ DOMAIN tracks = 1..Len(tracks)
         /\ \A n \in DOMAIN tracks : tracks[n] \in Tracks
         /\ revisions \in Seq(Revisions) /\ Len(revisions) \in Nat
         /\ DOMAIN revisions = 1..Len(revisions)
         /\ \A n \in DOMAIN revisions : revisions[n] \in Revisions
<1>1. tracks \in Seq(Tracks) /\ revisions \in Seq(Revisions)
  BY DEF SessionType, Revisions
<1> QED
  BY <1>1, LenProperties, ElementOfSeq

(* Writing over one element of tracks.                                       *)
LEMMA ChangedIntro ==
  ASSUME SessionType, NEW n \in DOMAIN tracks, NEW track \in Tracks,
         tracks' = [tracks EXCEPT ![n] = track]
  PROVE  Changed(n, track)
<1>1. n \in 1..Len(tracks)
  BY TrackSeq
<1> QED
  BY <1>1, TrackSeq, ExceptSeq DEF Changed

(* Learn does so.                                                            *)
LEMMA Learns ==
  ASSUME SessionType, NEW f \in Files, NEW created \in BOOLEAN, Learn(f, created)
  PROVE  Relearning(f, created)
<1>1. CASE live[f] = None /\ UNCHANGED tracks
  BY <1>1 DEF Relearning
<1>2. ASSUME live[f] # None, NEW n \in DOMAIN tracks, tracks[n].file = f,
             tracks' = [tracks EXCEPT ![n] = Relearnt(tracks[n], created)]
      PROVE  Relearning(f, created)
  <2>1. Relearnt(tracks[n], created) \in Tracks
    BY TrackTypes, TrackSeq
  <2> QED
    BY <1>2, <2>1, ChangedIntro DEF Relearning
<1>3. ASSUME live[f] # None, ~ Tracked(f),
             tracks' = Append(tracks, NewTrack(f, IF created THEN Empty ELSE live[f]))
      PROVE  Relearning(f, created)
  <2> DEFINE track == NewTrack(f, IF created THEN Empty ELSE live[f])
  <2>1. track \in Tracks
    BY <1>3, TrackTypes, Values DEF SessionType
  <2> HIDE DEF track
  <2>2. Added(track)
    BY <1>3, <2>1, TrackSeq, AppendProperties DEF Added, track
  <2> QED
    BY <1>3, <2>2 DEF Relearning, track
<1> QED
  BY <1>1, <1>2, <1>3 DEF Learn, Tracked

(* A reading changes no more of a track than what was observed.              *)
Observed ==
  /\ tracks' \in Seq(Tracks) /\ Len(tracks') = Len(tracks)
  /\ \A m \in DOMAIN tracks : /\ tracks'[m].file = tracks[m].file
                              /\ tracks'[m].baseline = tracks[m].baseline
                              /\ tracks'[m].published = tracks[m].published

(* The three readings do so.                                                 *)
LEMMA Observes ==
  ASSUME SessionType, PollRange, FirstRead \/ SecondRead \/ FlushRead
  PROVE  Observed /\ UNCHANGED <<files, watching, events, batch, noticed, revisions>>
<1>1. CASE UNCHANGED tracks
  BY <1>1, TrackSeq DEF Observed, FirstRead, SecondRead, FlushRead, Unlearned
<1>2. ASSUME NEW c \in Contents, i \in DOMAIN tracks,
             tracks' = [tracks EXCEPT ![i].observed = c]
      PROVE  Observed
  <2>1. [tracks[i] EXCEPT !.observed = c] \in Tracks
    BY <1>2, TrackTypes, TrackSeq
  <2>2. Changed(i, [tracks[i] EXCEPT !.observed = c])
    BY <1>2, <2>1, ChangedIntro
  <2> QED
    BY <1>2, <2>2, TrackSeq DEF Changed, Observed, Tracks
<1>3. \A n \in DOMAIN tracks : live[tracks[n].file] \in Contents \union {None}
  BY TrackSeq DEF SessionType, Tracks
<1>4. CASE FirstRead
  BY <1>1, <1>4 DEF FirstRead, Unlearned
<1>5. CASE SecondRead
  <2>1. i \in DOMAIN tracks /\ first # None
    BY <1>5 DEF SecondRead, PollRange
  <2>2. \/ UNCHANGED tracks
        \/ /\ live[tracks[i].file] = first
           /\ tracks' = [tracks EXCEPT ![i].observed = live[tracks[i].file]]
    BY <1>5 DEF SecondRead
  <2>3. Observed
    BY <1>1, <1>2, <1>3, <2>1, <2>2, <1>5 DEF SecondRead, Unlearned
  <2> QED
    BY <1>5, <2>3 DEF SecondRead, Unlearned
<1>6. CASE FlushRead
  <2>1. i \in DOMAIN tracks
    BY <1>6, TrackSeq DEF FlushRead, SessionType
  <2>2. \/ UNCHANGED tracks
        \/ /\ live[tracks[i].file] # None
           /\ tracks' = [tracks EXCEPT ![i].observed = live[tracks[i].file]]
    BY <1>6 DEF FlushRead
  <2>3. Observed
    BY <1>1, <1>2, <1>3, <2>1, <2>2, <1>6 DEF FlushRead, Unlearned
  <2> QED
    BY <1>6, <2>3 DEF FlushRead, Unlearned
<1> QED
  BY <1>4, <1>5, <1>6

(* A revision of the track being polled is added, against its baseline, and  *)
(* its content is the new baseline.                                          *)
Published ==
  /\ UNCHANGED <<files, watching, events, batch, noticed, first>>
  /\ i \in DOMAIN tracks /\ first \in Contents
  /\ Changed(i, [tracks[i] EXCEPT !.baseline = first, !.observed = first, !.published = TRUE])
  /\ revisions' \in Seq(Revisions) /\ Len(revisions') = Len(revisions) + 1
  /\ \A n \in DOMAIN revisions : revisions'[n] = revisions[n]
  /\ revisions'[Len(revisions) + 1] =
       [file |-> tracks[i].file, base |-> tracks[i].baseline, content |-> first]

(* Publish does so.                                                          *)
LEMMA Publishes ==
  ASSUME SessionType, PollRange, Publish
  PROVE  Published
<1>1. i \in DOMAIN tracks /\ first \in Contents
  BY DEF Publish, Continue, PollRange, SessionType
<1> DEFINE new == [tracks[i] EXCEPT !.baseline = first, !.observed = first, !.published = TRUE]
           revision == [file |-> tracks[i].file, base |-> tracks[i].baseline, content |-> first]
<1>2. new \in Tracks
  BY <1>1, TrackTypes, TrackSeq
<1>3. revision \in Revisions
  BY <1>1, TrackSeq DEF Revisions, Tracks
<1>4. tracks' = [tracks EXCEPT ![i] = new] /\ revisions' = Append(revisions, revision)
  BY DEF Publish
<1>5. UNCHANGED <<files, watching, events, batch, noticed, first>>
  BY DEF Publish, Unlearned
<1> HIDE DEF new, revision
<1>6. Changed(i, new)
  BY <1>1, <1>2, <1>4, ChangedIntro
<1>7. /\ revisions' \in Seq(Revisions) /\ Len(revisions') = Len(revisions) + 1
      /\ \A n \in DOMAIN revisions : revisions'[n] = revisions[n]
      /\ revisions'[Len(revisions) + 1] = revision
  BY <1>3, <1>4, TrackSeq, AppendProperties
<1> QED
  BY <1>1, <1>5, <1>6, <1>7 DEF Published, new, revision

-----------------------------------------------------------------------------
(* The type of what the editor works on.                                     *)
FilesType ==
  /\ live \in [Files -> Contents \union {None}]
  /\ writing \in (Files \X Contents) \union {None}
  /\ open \subseteq Files
  /\ saves \in 0..MaxSaves
  /\ editor \in {"none", "running", "exited"}

(* The type of what is known of the directories.                             *)
EventsType ==
  /\ watching \in BOOLEAN
  /\ events \subseteq Pairs
  /\ batch \subseteq Pairs
  /\ noticed \subseteq Pairs

(* The type of where the wrapper's loop is.                                  *)
LoopType ==
  /\ stage \in {"collect", "spawn", "watch", "drain", "discover", "wait", "exited"}
                 \union Learning \union Polling \union Flushing \union Ended
  /\ i \in 1..(Len(tracks) + 1)
  /\ first \in Contents \union {None}

(* SessionType, in parts.                                                    *)
LEMMA TypeParts ==
  SessionType <=> /\ FilesType /\ EventsType /\ LoopType
                  /\ tracks \in Seq(Tracks) /\ revisions \in Seq(Revisions)
BY DEF SessionType, FilesType, EventsType, LoopType, Pairs, Revisions

(* What CollectTracks makes of the command line.                             *)
LEMMA CollectsTracks ==
  ASSUME SessionType, CollectTracks
  PROVE  /\ tracks' \in Seq(Tracks) /\ Len(tracks') = Len(Args)
         /\ live' \in [Files -> Contents \union {None}]
         /\ \A n \in 1..Len(Args) :
              tracks'[n] = NewTrack(Args[n],
                             IF live[Args[n]] = None THEN Empty ELSE live[Args[n]])
         /\ \A f \in Files : live'[f] # live[f] =>
              live[f] = None /\ live'[f] = Empty
<1> DEFINE Named == {Args[n] : n \in DOMAIN Args}
           found == [f \in Files |-> IF f \in Named /\ live[f] = None THEN Empty ELSE live[f]]
<1>1. Len(Args) \in Nat /\ DOMAIN Args = 1..Len(Args) /\ \A n \in 1..Len(Args) : Args[n] \in Files
  BY SessionAssumption, LenProperties, ElementOfSeq
<1>2. live' = found /\ tracks' = [n \in DOMAIN Args |-> NewTrack(Args[n], found[Args[n]])]
  BY DEF CollectTracks
<1>3. found \in [Files -> Contents \union {None}]
  BY Values DEF SessionType
<1>4. \A n \in 1..Len(Args) :
        found[Args[n]] = IF live[Args[n]] = None THEN Empty ELSE live[Args[n]]
  BY <1>1
<1>5. \A n \in 1..Len(Args) : found[Args[n]] \in Contents
  BY <1>1, <1>4, Values DEF SessionType
<1> HIDE DEF found
<1>6. \A n \in 1..Len(Args) : NewTrack(Args[n], found[Args[n]]) \in Tracks
  BY <1>1, <1>5, TrackTypes
<1>7. tracks' \in Seq(Tracks)
  BY <1>1, <1>2, <1>6
<1>8. Len(tracks') = Len(Args)
  BY <1>1, <1>2
<1> QED
  BY <1>1, <1>2, <1>3, <1>4, <1>7, <1>8 DEF found

(* A step keeps FilesType.                                                   *)
LEMMA FilesTypeStep == SessionType /\ [Next]_vars => FilesType'
<1> SUFFICES ASSUME SessionType, [Next]_vars PROVE FilesType'
  OBVIOUS
<1>0. FilesType
  BY TypeParts
<1>1. CASE UNCHANGED files
  BY <1>0, <1>1 DEF FilesType, files
<1>2. CASE CollectTracks
  BY <1>0, <1>2, CollectsTracks DEF CollectTracks, FilesType
<1>3. CASE Spawn \/ Watch \/ WatchFails \/ Drain \/ Discover \/ EndLearning \/ Wait \/ EndPoll
           \/ PublishFails \/ FirstRead \/ SecondRead \/ FlushRead \/ Publish
           \/ \E f \in Files, created \in BOOLEAN : Learn(f, created)
  BY <1>0, <1>1, <1>3
  DEF Spawn, Watch, WatchFails, Drain, Discover, EndLearning, Wait, EndPoll, PublishFails,
      FirstRead, SecondRead, FlushRead, Publish, Learn, Unlearned, files, FilesType
<1>4. ASSUME NEW f \in Files, NEW c \in Contents,
             Truncate(f, c) \/ RenameOver(f, c) \/ RenameAway(f, c)
      PROVE  FilesType'
  <2>1. saves' \in 0..MaxSaves /\ UNCHANGED editor
    <3>1. saves < MaxSaves /\ saves' = saves + 1 /\ UNCHANGED editor
      BY <1>4 DEF Truncate, RenameOver, RenameAway, Saves, EditorActs
    <3> QED
      BY <1>0, <3>1, SessionAssumption DEF FilesType
  <2>2. CASE Truncate(f, c)
    BY <1>0, <2>1, <2>2, Values DEF Truncate, FilesType
  <2>3. CASE RenameOver(f, c)
    BY <1>0, <2>1, <2>3, Values DEF RenameOver, FilesType
  <2>4. CASE RenameAway(f, c)
    BY <1>0, <2>1, <2>4, Values DEF RenameAway, FilesType
  <2> QED
    BY <1>4, <2>2, <2>3, <2>4
<1>5. ASSUME NEW f \in Files, OpenFile(f) \/ CloseFile(f) \/ CreateAgain(f)
      PROVE  FilesType'
  BY <1>0, <1>5, Values DEF OpenFile, CloseFile, CreateAgain, EditorActs, FilesType
<1>6. ASSUME NEW f \in Files, EndSave(f) PROVE FilesType'
  <2>1. writing[2] \in Contents
    BY <1>0, <1>6 DEF EndSave, SavingTo, FilesType
  <2> QED
    BY <1>0, <1>6, <2>1 DEF EndSave, EditorActs, FilesType
<1>7. CASE Exit
  BY <1>0, <1>7 DEF Exit, FilesType
<1>8. CASE UNCHANGED vars
  BY <1>1, <1>8 DEF vars, files
<1> QED
  BY <1>2, <1>3, <1>4, <1>5, <1>6, <1>7, <1>8 DEF Next, WrapperStep, EditorStep, Saving

(* A step keeps EventsType.                                                  *)
LEMMA EventsTypeStep == SessionType /\ [Next]_vars => EventsType'
<1> SUFFICES ASSUME SessionType, [Next]_vars PROVE EventsType'
  OBVIOUS
<1>0. EventsType /\ open \subseteq Files
  BY TypeParts DEF FilesType
<1>1. CASE Edited
  BY <1>0, <1>1 DEF Edited, EventsType
<1>2. CASE UNCHANGED <<watching, events, batch, noticed>>
  BY <1>0, <1>2 DEF EventsType
<1>3. CASE CollectTracks \/ FirstRead \/ SecondRead \/ FlushRead \/ Publish
  BY <1>2, <1>3 DEF CollectTracks, FirstRead, SecondRead, FlushRead, Publish, Unlearned
<1>4. CASE Spawn \/ WatchFails \/ EndLearning \/ Wait \/ EndPoll \/ PublishFails \/ UNCHANGED vars
  BY <1>2, <1>4 DEF Spawn, WatchFails, EndLearning, Wait, EndPoll, PublishFails, vars
<1>5. CASE Watch
  BY <1>0, <1>5 DEF Watch, EventsType
<1>8. CASE Drain
  <2>1. Coalesced \subseteq events
    BY DEF Coalesced
  <2> QED
    <3>1. batch' = Coalesced /\ events' = {} /\ UNCHANGED <<watching, noticed>>
      BY <1>8 DEF Drain
    <3> QED
      BY <1>0, <2>1, <3>1 DEF EventsType
<1>6. CASE Discover
  <2>a. \A f \in open : <<f, FALSE>> \in Pairs
    BY <1>0 DEF Pairs
  <2>1. {<<f, FALSE>> : f \in open} \subseteq Pairs
    BY <2>a
  <2>2. batch' \in {{}, {<<f, FALSE>> : f \in open}} /\ UNCHANGED <<watching, events, noticed>>
    BY <1>6 DEF Discover
  <2>3. batch' \subseteq Pairs
    BY <2>1, <2>2
  <2> QED
    BY <1>0, <2>2, <2>3 DEF EventsType
<1>7. ASSUME NEW f \in Files, NEW c \in BOOLEAN, Learn(f, c) PROVE EventsType'
  BY <1>0, <1>7 DEF Learn, EventsType
<1> QED
  BY <1>1, <1>3, <1>4, <1>5, <1>6, <1>7, <1>8, Steps DEF Quiet

(* A step keeps LoopType and the types of both sequences.                    *)
LEMMA LoopTypeStep ==
  SessionType /\ Order /\ PollRange /\ [Next]_vars =>
    LoopType' /\ tracks' \in Seq(Tracks) /\ revisions' \in Seq(Revisions)
<1> SUFFICES ASSUME SessionType, Order, PollRange, [Next]_vars
             PROVE  LoopType' /\ tracks' \in Seq(Tracks) /\ revisions' \in Seq(Revisions)
  OBVIOUS
<1>0. /\ LoopType /\ tracks \in Seq(Tracks) /\ revisions \in Seq(Revisions)
      /\ Len(tracks) \in Nat /\ DOMAIN tracks = 1..Len(tracks)
  BY TypeParts, TrackSeq
<1> USE DEF Learning, Polling, Flushing, Ended
<1>1. CASE Edited
  BY <1>0, <1>1 DEF Edited, LoopType
<1>2. CASE CollectTracks
  <2>1. tracks' \in Seq(Tracks) /\ Len(tracks') \in Nat
    BY <1>2, CollectsTracks, LenProperties
  <2>2. tracks = <<>> /\ Len(<<>>) = 0
    BY <1>2 DEF CollectTracks, Continue, Order
  <2>3. i = 1
    BY <1>0, <2>2 DEF LoopType
  <2>4. UNCHANGED <<i, first, revisions>> /\ stage' = "spawn"
    BY <1>2 DEF CollectTracks, Continue, polling
  <2> QED
    BY <1>0, <2>1, <2>3, <2>4 DEF LoopType
<1>3. CASE Quiet
  <2>1. stage' \in {"collect", "spawn", "watch", "drain", "discover", "wait", "exited"}
                 \union Learning \union Polling \union Flushing \union Ended
    BY <1>0, <1>3
    DEF Quiet, Spawn, Watch, WatchFails, Drain, Discover, EndLearning, Wait, EndPoll,
        PublishFails, Continue, vars, LoopType
  <2>2. i' \in {1, i} /\ UNCHANGED first
    BY <1>3
    DEF Quiet, Spawn, Watch, WatchFails, Drain, Discover, EndLearning, Wait, EndPoll,
        PublishFails, vars, polling
  <2> QED
    BY <1>0, <1>3, <2>1, <2>2, QuietSteps DEF LoopType
<1>4. ASSUME NEW f \in Files, NEW c \in BOOLEAN, Learn(f, c)
      PROVE  LoopType' /\ tracks' \in Seq(Tracks) /\ revisions' \in Seq(Revisions)
  <2>1. tracks' \in Seq(Tracks) /\ Len(tracks') \in {Len(tracks), Len(tracks) + 1}
    BY <1>0, <1>4, Learns DEF Relearning, Changed, Added
  <2>2. UNCHANGED <<stage, i, first, revisions>>
    BY <1>4 DEF Learn, polling
  <2> QED
    BY <1>0, <2>1, <2>2 DEF LoopType
<1>5. CASE FirstRead \/ SecondRead \/ FlushRead
  <2>1. tracks' \in Seq(Tracks) /\ Len(tracks') = Len(tracks) /\ UNCHANGED revisions
    BY <1>5, Observes DEF Observed
  <2>2. i' \in {i, i + 1} /\ i <= Len(tracks)
    BY <1>0, <1>5 DEF FirstRead, SecondRead, FlushRead, Advance, PollRange
  <2>3. stage' \in {"poll", "stable", "publish", "flush", "flushpublish"}
    BY <1>5 DEF FirstRead, SecondRead, FlushRead, Advance, Continue
  <2>4. first' \in Contents \union {None}
    <3>1. i \in DOMAIN tracks
      BY <1>0, <2>2 DEF LoopType
    <3>2. live[tracks[i].file] \in Contents \union {None}
      BY <3>1, TrackSeq DEF SessionType, Tracks
    <3> QED
      BY <1>0, <1>5, <3>2 DEF FirstRead, SecondRead, FlushRead, LoopType
  <2> QED
    BY <1>0, <2>1, <2>2, <2>3, <2>4 DEF LoopType
<1>6. CASE Publish
  <2>1. /\ tracks' \in Seq(Tracks) /\ Len(tracks') = Len(tracks) /\ revisions' \in Seq(Revisions)
        /\ i \in DOMAIN tracks /\ UNCHANGED first
    BY <1>6, Publishes DEF Published, Changed
  <2>2. i' = i + 1 /\ stage' \in {"poll", "flush"}
    BY <1>6 DEF Publish, Continue
  <2> QED
    BY <1>0, <2>1, <2>2 DEF LoopType
<1> QED
  BY <1>1, <1>2, <1>3, <1>4, <1>5, <1>6, Steps

(* A step keeps SessionType.                                                 *)
LEMMA TypeStep == SessionType /\ Order /\ PollRange /\ [Next]_vars => SessionType'
<1>1. SessionType' <=> /\ FilesType' /\ EventsType' /\ LoopType'
                       /\ tracks' \in Seq(Tracks) /\ revisions' \in Seq(Revisions)
  BY DEF SessionType, FilesType, EventsType, LoopType, Pairs, Revisions
<1> QED
  BY <1>1, FilesTypeStep, EventsTypeStep, LoopTypeStep

-----------------------------------------------------------------------------
(* The tracks only grow: what is tracked stays tracked, under its number.    *)
LEMMA TracksGrow ==
  ASSUME SessionType, Order, PollRange, [Next]_vars
  PROVE  /\ \A n \in DOMAIN tracks : n \in DOMAIN tracks' /\ tracks'[n].file = tracks[n].file
         /\ \A f : Tracked(f) => Tracked(f)'
<1>0. DOMAIN tracks = 1..Len(tracks) /\ Len(tracks) \in Nat
      /\ \A n \in DOMAIN tracks : tracks[n] \in Tracks
  BY TrackSeq
<1>1. tracks' \in Seq(Tracks)
  BY LoopTypeStep
<1>2. DOMAIN tracks' = 1..Len(tracks') /\ Len(tracks') \in Nat
  BY <1>1, LenProperties
<1>3. \A n \in DOMAIN tracks : n \in DOMAIN tracks' /\ tracks'[n].file = tracks[n].file
  <2>1. CASE CollectTracks
    <3>1. tracks = <<>>
      BY <2>1 DEF CollectTracks, Continue, Order
    <3> QED
      BY <1>0, <3>1
  <2>2. CASE Edited \/ Quiet
    BY <2>2, QuietSteps DEF Edited
  <2>3. ASSUME NEW f \in Files, NEW c \in BOOLEAN, Learn(f, c)
        PROVE  \A n \in DOMAIN tracks : n \in DOMAIN tracks' /\ tracks'[n].file = tracks[n].file
    <3>1. \A n \in DOMAIN tracks : Relearnt(tracks[n], c).file = tracks[n].file
      BY <1>0 DEF Relearnt, Tracks
    <3>2. CASE UNCHANGED tracks
      BY <3>2
    <3>3. ASSUME NEW n \in DOMAIN tracks, Changed(n, Relearnt(tracks[n], c))
          PROVE  \A m \in DOMAIN tracks : m \in DOMAIN tracks' /\ tracks'[m].file = tracks[m].file
      BY <1>0, <1>2, <3>1, <3>3 DEF Changed
    <3>4. ASSUME NEW track, Added(track)
          PROVE  \A m \in DOMAIN tracks : m \in DOMAIN tracks' /\ tracks'[m].file = tracks[m].file
      BY <1>0, <1>2, <3>4 DEF Added
    <3> QED
      BY <2>3, <3>2, <3>3, <3>4, Learns DEF Relearning
  <2>4. CASE FirstRead \/ SecondRead \/ FlushRead
    <3>1. Observed
      BY <2>4, Observes
    <3> QED
      BY <1>0, <1>2, <3>1 DEF Observed
  <2>5. CASE Publish
    <3> DEFINE new == [tracks[i] EXCEPT !.baseline = first, !.observed = first,
                                        !.published = TRUE]
    <3>1. i \in DOMAIN tracks /\ Changed(i, new)
      BY <2>5, Publishes DEF Published
    <3>2. new.file = tracks[i].file
      BY <1>0, <3>1 DEF Tracks
    <3> HIDE DEF new
    <3> QED
      BY <1>0, <1>2, <3>1, <3>2 DEF Changed
  <2> QED
    BY <2>1, <2>2, <2>3, <2>4, <2>5, Steps
<1> QED
  BY <1>3 DEF Tracked

(* A step keeps PollRange.                                                   *)
LEMMA PollRangeStep ==
  ASSUME SessionType, Order, PollRange, [Next]_vars
  PROVE  PollRange'
<1>0. \A n \in DOMAIN tracks : n \in DOMAIN tracks'
  BY TracksGrow
<1>1. DOMAIN tracks = 1..Len(tracks) /\ Len(tracks) \in Nat /\ i \in 1..(Len(tracks) + 1)
  BY TrackSeq DEF SessionType
<1>2. CASE CollectTracks
  BY <1>2 DEF CollectTracks, Continue, PollRange
<1>3. CASE Edited
  BY <1>3 DEF Edited, PollRange
<1>4. CASE Quiet
  BY <1>4
  DEF Quiet, Spawn, Watch, WatchFails, Drain, Discover, EndLearning, Wait, EndPoll, PublishFails,
      Continue, PollRange, vars, polling
<1>5. ASSUME NEW f \in Files, NEW c \in BOOLEAN, Learn(f, c) PROVE PollRange'
  BY <1>5 DEF Learn, Learning, PollRange
<1>6. CASE FirstRead
  BY <1>0, <1>1, <1>6 DEF FirstRead, Advance, Continue, PollRange
<1>7. CASE SecondRead
  BY <1>0, <1>1, <1>7 DEF SecondRead, Advance, Continue, PollRange
<1>8. CASE FlushRead
  BY <1>0, <1>1, <1>8 DEF FlushRead, Continue, PollRange
<1>9. CASE Publish
  BY <1>9 DEF Publish, Continue, PollRange
<1> QED
  BY <1>2, <1>3, <1>4, <1>5, <1>6, <1>7, <1>8, <1>9, Steps

(* Order, as far as the editor goes.                                         *)
OrderEditor ==
  /\ stage \in {"collect", "spawn"} <=> editor = "none"
  /\ stage \in Stopped => editor = "exited"

(* Order, as far as events go.                                               *)
OrderEvents ==
  /\ stage \notin Learning => batch = {}
  /\ stage \in Closing => events = {}
  /\ stage \in {"collect", "spawn", "watch"} => ~ watching
  /\ ~ watching => noticed = {}
  /\ events \subseteq noticed
  /\ \A f \in Files : <<f, TRUE>> \in batch => <<f, TRUE>> \in noticed

(* Order, as far as files, tracks and revisions go.                          *)
OrderTracks ==
  /\ stage = "collect" =>
       /\ tracks = <<>> /\ revisions = <<>>
       /\ live = [f \in Files |-> IF f \in Existing THEN Original ELSE None]
  /\ stage # "collect" => \A n \in DOMAIN Args : Tracked(Args[n])

(* A step keeps OrderEditor.                                                 *)
LEMMA OrderEditorStep == SessionType /\ OrderEditor /\ [Next]_vars => OrderEditor'
<1> SUFFICES ASSUME SessionType, OrderEditor, [Next]_vars PROVE OrderEditor'
  OBVIOUS
<1> USE DEF Stopped, OrderEditor
<1>1. CASE CollectTracks
  BY <1>1 DEF CollectTracks, Continue
<1>2. CASE Edited
  BY <1>2 DEF Edited
<1>3. CASE Spawn \/ Watch \/ WatchFails \/ Drain \/ Discover \/ EndPoll \/ PublishFails
           \/ UNCHANGED vars
  BY <1>3
  DEF Spawn, Watch, WatchFails, Drain, Discover, EndPoll, PublishFails, Continue, vars, files
<1>4. CASE EndLearning
  BY <1>4 DEF EndLearning, Continue, files
<1>5. CASE Wait
  BY <1>5 DEF Wait, Continue, files, SessionType
<1>6. ASSUME NEW f \in Files, NEW c \in BOOLEAN, Learn(f, c) PROVE OrderEditor'
  BY <1>6 DEF Learn, files
<1>7. CASE FirstRead \/ SecondRead \/ FlushRead \/ Publish
  BY <1>7 DEF FirstRead, SecondRead, FlushRead, Publish, Advance, Continue, Unlearned, files
<1> QED
  BY <1>1, <1>2, <1>3, <1>4, <1>5, <1>6, <1>7, Steps DEF Quiet

(* A step keeps OrderEvents: in a closing stage the editor is gone, and      *)
(* nothing is added to the events.                                           *)
LEMMA OrderEventsStep ==
  SessionType /\ OrderEditor /\ OrderEvents /\ [Next]_vars => OrderEvents'
<1> SUFFICES ASSUME SessionType, OrderEditor, OrderEvents, [Next]_vars PROVE OrderEvents'
  OBVIOUS
<1> USE DEF Learning, Closing, OrderEvents
<1>0. stage \in Closing => editor # "running"
  BY DEF OrderEditor, Stopped
<1>1. CASE CollectTracks
  BY <1>1 DEF CollectTracks, Continue
<1>2. CASE Edited
  <2>1. stage \notin Closing /\ UNCHANGED <<watching, batch, stage>>
    BY <1>0, <1>2 DEF Edited
  <2>2. PICK new \in SUBSET Pairs :
           /\ events' = events \union new
           /\ noticed' = noticed \union new
           /\ ~ watching => new = {}
    BY <1>2 DEF Edited
  <2> QED
    BY <2>1, <2>2
<1>3. CASE Spawn \/ Watch \/ WatchFails
  <2>1. ~ watching /\ UNCHANGED <<events, batch, noticed>>
    BY <1>3 DEF Spawn, Watch, WatchFails, Continue
  <2>2. /\ stage \in {"spawn", "watch"} /\ stage' \in {"watch", "drain"}
        /\ stage' = "watch" => (~ watching => ~ watching')
        /\ ~ watching' => ~ watching
    BY <1>3 DEF Spawn, Watch, WatchFails, Continue
  <2> QED
    BY <2>1, <2>2
<1>9. CASE Wait \/ EndPoll \/ PublishFails \/ UNCHANGED vars
  <2>1. UNCHANGED <<watching, events, batch, noticed>>
    BY <1>9 DEF Wait, EndPoll, PublishFails, vars
  <2>2. /\ stage' \in Learning => stage \in Learning
        /\ stage' \in Closing => stage \in Closing
        /\ stage \in Learning => stage' \in Learning
        /\ stage' \in {"collect", "spawn", "watch"} => stage \in {"collect", "spawn", "watch"}
    BY <1>9 DEF Wait, EndPoll, PublishFails, Continue, vars
  <2> QED
    BY <2>1, <2>2
<1>4. CASE EndLearning
  BY <1>4 DEF EndLearning, Continue
<1>5. CASE Drain
  <2>1. Coalesced \subseteq events
    BY DEF Coalesced
  <2>2. /\ batch' = Coalesced /\ events' = {} /\ UNCHANGED <<watching, noticed>>
        /\ stage' \in {"events", "lastevents"}
    BY <1>5 DEF Drain, Continue
  <2> QED
    BY <2>1, <2>2
<1>6. CASE Discover
  BY <1>6 DEF Discover, Continue
<1>7. ASSUME NEW f \in Files, NEW c \in BOOLEAN, Learn(f, c) PROVE OrderEvents'
  BY <1>7 DEF Learn
<1>8. CASE FirstRead \/ SecondRead \/ FlushRead \/ Publish
  BY <1>8 DEF FirstRead, SecondRead, FlushRead, Publish, Advance, Continue, Unlearned
<1> QED
  BY <1>1, <1>2, <1>3, <1>4, <1>5, <1>6, <1>7, <1>8, <1>9, Steps DEF Quiet

(* A step keeps OrderTracks.                                                 *)
LEMMA OrderTracksStep ==
  ASSUME SessionType, Order, PollRange, [Next]_vars
  PROVE  OrderTracks'
<1>0. OrderEditor /\ OrderTracks
  BY DEF Order, OrderEditor, OrderTracks
<1>1. \A n \in DOMAIN Args : Tracked(Args[n]) => Tracked(Args[n])'
  BY TracksGrow
<1>2. CASE CollectTracks
  <2>1. \A n \in DOMAIN Args : Tracked(Args[n])'
    <3>1. SUFFICES ASSUME NEW n \in DOMAIN Args PROVE Tracked(Args[n])'
      OBVIOUS
    <3>2. n \in 1..Len(Args) /\ Args[n] \in Files
      BY SessionAssumption, LenProperties, ElementOfSeq
    <3>3. DOMAIN tracks' = 1..Len(Args)
      BY <1>2, CollectsTracks, LenProperties
    <3>4. tracks'[n] = NewTrack(Args[n], IF live[Args[n]] = None THEN Empty ELSE live[Args[n]])
      BY <1>2, <3>2, CollectsTracks
    <3>5. n \in DOMAIN tracks' /\ tracks'[n].file = Args[n]
      BY <3>2, <3>3, <3>4 DEF NewTrack
    <3> QED
      BY <3>5 DEF Tracked
  <2> QED
    BY <1>2, <2>1 DEF CollectTracks, Continue, OrderTracks
<1>3. CASE stage # "collect" /\ stage' # "collect"
  BY <1>0, <1>1, <1>3 DEF OrderTracks
<1>4. CASE Edited
  BY <1>0, <1>3, <1>4 DEF Edited, OrderEditor
<1>5. CASE Quiet
  <2>1. UNCHANGED vars \/ (stage # "collect" /\ stage' # "collect")
    BY <1>5
    DEF Quiet, Spawn, Watch, WatchFails, Drain, Discover, EndLearning, Wait, EndPoll,
        PublishFails, Continue
  <2> QED
    BY <1>0, <1>3, <2>1 DEF vars, files, OrderTracks, Tracked
<1>6. ASSUME NEW f \in Files, NEW c \in BOOLEAN, Learn(f, c)
      PROVE  stage # "collect" /\ stage' # "collect"
  BY <1>6 DEF Learn, Learning
<1>7. CASE FirstRead \/ SecondRead \/ FlushRead \/ Publish
  BY <1>3, <1>7 DEF FirstRead, SecondRead, FlushRead, Publish, Advance, Continue
<1> QED
  BY <1>2, <1>3, <1>4, <1>5, <1>6, <1>7, Steps

(* A step keeps Order.                                                       *)
LEMMA OrderStep ==
  ASSUME SessionType, Order, PollRange, [Next]_vars
  PROVE  Order'
<1>1. OrderEditor /\ OrderEvents
  BY DEF Order, OrderEditor, OrderEvents
<1>2. OrderEditor' /\ OrderEvents' /\ OrderTracks'
  BY <1>1, OrderEditorStep, OrderEventsStep, OrderTracksStep
<1> QED
  BY <1>2 DEF Order, OrderEditor, OrderEvents, OrderTracks

(* The part of the invariant that all others rest on.                        *)
LoopInv == SessionType /\ Order /\ PollRange

(* A step keeps LoopInv.                                                     *)
LEMMA LoopInvStep == LoopInv /\ [Next]_vars => LoopInv'
BY TypeStep, OrderStep, PollRangeStep DEF LoopInv

-----------------------------------------------------------------------------
(* Baseline and publication of track n stay.                                 *)
Same(n) ==
  tracks'[n].baseline = tracks[n].baseline /\ tracks'[n].published = tracks[n].published

(* Track n, of which nothing is published, loses its baseline to a           *)
(* creation.                                                                 *)
Cleared(n) ==
  /\ ~ tracks[n].published /\ ~ tracks'[n].published /\ tracks'[n].baseline = Empty
  /\ <<tracks[n].file, TRUE>> \in batch
  /\ UNCHANGED revisions

(* A step leaves a track alone, clears it, or publishes what it has.         *)
LEMMA TrackMoves ==
  ASSUME LoopInv, [Next]_vars, NEW n \in DOMAIN tracks
  PROVE  Same(n) \/ Cleared(n) \/ (n = i /\ Publish)
<1>0. SessionType /\ Order /\ PollRange
  BY DEF LoopInv
<1>1. DOMAIN tracks = 1..Len(tracks) /\ Len(tracks) \in Nat /\ tracks[n] \in Tracks
  BY <1>0, TrackSeq
<1>2. CASE CollectTracks
  <2>1. tracks = <<>>
    BY <1>0, <1>2 DEF CollectTracks, Continue, Order
  <2> QED
    BY <1>1, <2>1
<1>3. CASE Edited \/ Quiet
  BY <1>3, QuietSteps DEF Edited, Same
<1>4. ASSUME NEW f \in Files, NEW c \in BOOLEAN, Learn(f, c) PROVE Same(n) \/ Cleared(n)
  <2>1. Relearning(f, c)
    BY <1>0, <1>4, Learns
  <2>2. CASE UNCHANGED tracks
    BY <2>2 DEF Same
  <2>3. ASSUME NEW m \in DOMAIN tracks, tracks[m].file = f, Changed(m, Relearnt(tracks[m], c)),
               m = n
        PROVE  Same(n) \/ Cleared(n)
    <3>1. tracks'[n] = Relearnt(tracks[n], c)
      BY <2>3 DEF Changed
    <3>2. CASE c /\ ~ tracks[n].published
      <4>1. ~ tracks'[n].published /\ tracks'[n].baseline = Empty
        BY <1>1, <3>1, <3>2 DEF Relearnt, Tracks
      <4>2. <<f, TRUE>> \in batch /\ UNCHANGED revisions
        BY <1>4, <3>2 DEF Learn
      <4> QED
        BY <2>3, <3>2, <4>1, <4>2 DEF Cleared
    <3>3. CASE ~ (c /\ ~ tracks[n].published)
      BY <3>1, <3>3 DEF Relearnt, Same
    <3> QED
      BY <3>2, <3>3
  <2>4. ASSUME NEW m \in DOMAIN tracks, NEW track, Changed(m, track), m # n PROVE Same(n)
    BY <2>4 DEF Changed, Same
  <2>5. ASSUME NEW track, Added(track) PROVE Same(n)
    BY <2>5 DEF Added, Same
  <2> QED
    BY <2>1, <2>2, <2>3, <2>4, <2>5 DEF Relearning
<1>5. CASE FirstRead \/ SecondRead \/ FlushRead
  <2>1. Observed
    BY <1>0, <1>5, Observes
  <2> QED
    BY <2>1 DEF Observed, Same
<1>6. CASE Publish /\ n # i
  BY <1>0, <1>6, Publishes DEF Published, Changed, Same
<1> QED
  BY <1>0, <1>2, <1>3, <1>4, <1>5, <1>6, Steps

(* A new track comes from the command line or from an event of a file that   *)
(* is not tracked.                                                           *)
LEMMA NewTracks ==
  ASSUME LoopInv, [Next]_vars, NEW n \in DOMAIN tracks', n \notin DOMAIN tracks
  PROVE  \/ /\ CollectTracks /\ n \in 1..Len(Args)
            /\ tracks'[n] = NewTrack(Args[n],
                              IF live[Args[n]] = None THEN Empty ELSE live[Args[n]])
         \/ \E f \in Files, c \in BOOLEAN :
              /\ Learn(f, c) /\ ~ Tracked(f) /\ live[f] # None /\ n = Len(tracks) + 1
              /\ tracks'[n] = NewTrack(f, IF c THEN Empty ELSE live[f])
<1>0. SessionType /\ Order /\ PollRange
  BY DEF LoopInv
<1>1. DOMAIN tracks = 1..Len(tracks) /\ Len(tracks) \in Nat
  BY <1>0, TrackSeq
<1>2. tracks' \in Seq(Tracks)
  BY <1>0, LoopTypeStep
<1>3. DOMAIN tracks' = 1..Len(tracks')
  BY <1>2, LenProperties
<1>4. CASE CollectTracks
  BY <1>0, <1>3, <1>4, CollectsTracks
<1>5. CASE Edited \/ Quiet
  BY <1>5, QuietSteps DEF Edited
<1>6. ASSUME NEW f \in Files, NEW c \in BOOLEAN, Learn(f, c)
      PROVE  /\ Learn(f, c) /\ ~ Tracked(f) /\ live[f] # None /\ n = Len(tracks) + 1
             /\ tracks'[n] = NewTrack(f, IF c THEN Empty ELSE live[f])
  <2>1. ASSUME NEW m, NEW track, Changed(m, track) PROVE FALSE
    BY <1>1, <1>3, <2>1 DEF Changed
  <2>2. /\ ~ Tracked(f) /\ live[f] # None
        /\ Added(NewTrack(f, IF c THEN Empty ELSE live[f]))
    BY <1>0, <1>6, <2>1, Learns DEF Relearning
  <2> QED
    BY <1>1, <1>3, <1>6, <2>2 DEF Added
<1>7. CASE FirstRead \/ SecondRead \/ FlushRead
  <2>1. Observed
    BY <1>0, <1>7, Observes
  <2> QED
    BY <1>1, <1>3, <2>1 DEF Observed
<1>8. CASE Publish
  BY <1>0, <1>1, <1>3, <1>8, Publishes DEF Published, Changed
<1> QED
  BY <1>0, <1>4, <1>5, <1>6, <1>7, <1>8, Steps

(* Only Publish adds a revision.                                             *)
LEMMA RevisionMoves ==
  ASSUME LoopInv, [Next]_vars
  PROVE  UNCHANGED revisions \/ (Publish /\ Published)
<1>0. SessionType /\ Order /\ PollRange
  BY DEF LoopInv
<1>1. CASE CollectTracks \/ Edited \/ Quiet
  BY <1>1, QuietSteps DEF CollectTracks, Edited
<1>2. ASSUME NEW f \in Files, NEW c \in BOOLEAN, Learn(f, c) PROVE UNCHANGED revisions
  BY <1>2 DEF Learn
<1>3. CASE FirstRead \/ SecondRead \/ FlushRead
  BY <1>0, <1>3, Observes
<1>4. CASE Publish
  BY <1>0, <1>4, Publishes
<1> QED
  BY <1>0, <1>1, <1>2, <1>3, <1>4, Steps

(* Revisions are only added, one at a time and after all others.             *)
LEMMA RevisionsGrow ==
  ASSUME LoopInv, [Next]_vars
  PROVE  /\ revisions' \in Seq(Revisions)
         /\ \A r \in DOMAIN revisions : r \in DOMAIN revisions' /\ revisions'[r] = revisions[r]
         /\ \A r \in DOMAIN revisions' : r \in DOMAIN revisions \/
              (/\ Publish /\ Published /\ r = Len(revisions) + 1
               /\ revisions'[r] = [file |-> tracks[i].file, base |-> tracks[i].baseline,
                                   content |-> first])
         /\ Publish => Len(revisions) + 1 \in DOMAIN revisions'
<1>1. DOMAIN revisions = 1..Len(revisions) /\ Len(revisions) \in Nat
      /\ revisions \in Seq(Revisions)
  BY TrackSeq DEF LoopInv
<1>2. CASE Publish /\ Published
  <2>1. revisions' \in Seq(Revisions) /\ Len(revisions') = Len(revisions) + 1
    BY <1>2 DEF Published
  <2>2. DOMAIN revisions' = 1..Len(revisions')
    BY <2>1, LenProperties
  <2> QED
    BY <1>1, <1>2, <2>1, <2>2 DEF Published
<1>3. CASE UNCHANGED revisions /\ ~ Publish
  BY <1>1, <1>3
<1>4. Publish => Published
  BY Publishes DEF LoopInv
<1> QED
  BY <1>2, <1>3, <1>4, RevisionMoves

(* The history of events only grows.                                         *)
LEMMA NoticedGrows ==
  ASSUME LoopInv, [Next]_vars
  PROVE  noticed \subseteq noticed'
<1>1. CASE Edited
  BY <1>1 DEF Edited
<1>2. CASE Quiet
  BY <1>2
  DEF Quiet, Spawn, Watch, WatchFails, Drain, Discover, EndLearning, Wait, EndPoll, PublishFails,
      vars
<1>3. CASE CollectTracks \/ \E f \in Files, c \in BOOLEAN : Learn(f, c)
  BY <1>3 DEF CollectTracks, Learn
<1>4. CASE FirstRead \/ SecondRead \/ FlushRead \/ Publish
  BY <1>4 DEF FirstRead, SecondRead, FlushRead, Publish, Unlearned
<1> QED
  BY <1>1, <1>2, <1>3, <1>4, Steps DEF LoopInv

(* IsFirst, in other words.                                                  *)
LEMMA FirstOf ==
  ASSUME NEW f, NEW n, NEW len \in Nat, n \in 1..len, DOMAIN revisions = 1..len
  PROVE  IsFirst(f, n) <=>
           /\ revisions[n].file = f
           /\ \A m \in DOMAIN revisions : m < n => revisions[m].file # f
BY DEF IsFirst, OfFile, Before

(* IsLast, in other words.                                                   *)
LEMMA LastOf ==
  ASSUME NEW f, NEW n, n \in DOMAIN revisions, Len(revisions) \in Nat,
         DOMAIN revisions = 1..Len(revisions)
  PROVE  IsLast(f, n) <=>
           /\ revisions[n].file = f
           /\ \A m \in DOMAIN revisions : m > n => revisions[m].file # f
BY DEF IsLast, OfFile, Between

(* The last revision of a file stays its last until another one is stored.   *)
LEMMA LastMoves ==
  ASSUME LoopInv, [Next]_vars, NEW f
  PROVE  /\ \A r \in DOMAIN revisions : IsLast(f, r) =>
              IsLast(f, r)' \/ (Publish /\ f = tracks[i].file)
         /\ \A r \in DOMAIN revisions : IsLast(f, r)' =>
              IsLast(f, r) /\ ~ (Publish /\ f = tracks[i].file)
         /\ Publish /\ f = tracks[i].file => \E r \in DOMAIN revisions' : IsLast(f, r)'
<1>1. /\ DOMAIN revisions = 1..Len(revisions) /\ Len(revisions) \in Nat
      /\ DOMAIN revisions' = 1..Len(revisions') /\ Len(revisions') \in Nat
  BY TrackSeq, RevisionsGrow, LenProperties DEF LoopInv
<1>2. \A r \in DOMAIN revisions' :
        IsLast(f, r)' <=> /\ revisions'[r].file = f
                          /\ \A m \in DOMAIN revisions' : m > r => revisions'[m].file # f
  BY <1>1 DEF IsLast, OfFile, Between
<1>3. \A r \in DOMAIN revisions :
        IsLast(f, r) <=> /\ revisions[r].file = f
                         /\ \A m \in DOMAIN revisions : m > r => revisions[m].file # f
  BY <1>1, LastOf
<1>4. /\ \A r \in DOMAIN revisions : r \in DOMAIN revisions' /\ revisions'[r] = revisions[r]
      /\ \A r \in DOMAIN revisions' : r \in DOMAIN revisions \/
           (Publish /\ r = Len(revisions) + 1 /\ revisions'[r].file = tracks[i].file)
      /\ Publish => Len(revisions) + 1 \in DOMAIN revisions'
  BY RevisionsGrow
<1>5. Publish => revisions'[Len(revisions) + 1].file = tracks[i].file
  BY <1>1, <1>4
<1>6. \A r \in DOMAIN revisions : r < Len(revisions) + 1
  BY <1>1
<1>7. \A r \in DOMAIN revisions : IsLast(f, r) => IsLast(f, r)' \/ (Publish /\ f = tracks[i].file)
  BY <1>2, <1>3, <1>4
<1>8. \A r \in DOMAIN revisions : IsLast(f, r)' => IsLast(f, r) /\ ~ (Publish /\ f = tracks[i].file)
  BY <1>2, <1>3, <1>4, <1>5, <1>6
<1>9. ASSUME Publish, f = tracks[i].file PROVE \E r \in DOMAIN revisions' : IsLast(f, r)'
  <2>1. PICK r \in DOMAIN revisions' : r = Len(revisions) + 1
    BY <1>4, <1>9
  <2>2. \A m \in DOMAIN revisions' : ~ m > r
    BY <1>1, <1>4, <2>1
  <2> QED
    BY <1>2, <1>5, <1>9, <2>1, <2>2
<1> QED
  BY <1>7, <1>8, <1>9

-----------------------------------------------------------------------------
(* A step keeps PublishedStored.                                             *)
LEMMA PublishedStoredStep ==
  ASSUME LoopInv, PublishedStored, [Next]_vars
  PROVE  PublishedStored'
<1> SUFFICES ASSUME NEW n \in DOMAIN tracks', NEW f \in Files,
                    tracks'[n].published, tracks'[n].file = f
             PROVE  \E r \in DOMAIN revisions' : IsLast(f, r)'
  BY DEF PublishedStored
<1>1. CASE n \notin DOMAIN tracks
  <2>1. \A g, c : ~ NewTrack(g, c).published
    BY DEF NewTrack
  <2> QED
    BY <1>1, <2>1, NewTracks
<1>2. CASE n \in DOMAIN tracks /\ ~ (Publish /\ f = tracks[i].file)
  <2>1. tracks[n].file = f
    BY <1>2, TracksGrow DEF LoopInv
  <2>2. tracks[n].published
    BY <1>2, <2>1, TrackMoves DEF Same, Cleared
  <2>3. PICK r \in DOMAIN revisions : IsLast(f, r)
    BY <1>2, <2>1, <2>2 DEF PublishedStored
  <2>4. r \in DOMAIN revisions' /\ IsLast(f, r)'
    BY <1>2, <2>3, LastMoves, RevisionsGrow
  <2> QED
    BY <2>4
<1>3. CASE Publish /\ f = tracks[i].file
  BY <1>3, LastMoves
<1> QED
  BY <1>1, <1>2, <1>3

(* A step keeps Based: a baseline is only cleared for a creation.            *)
LEMMA BasedStep ==
  ASSUME LoopInv, Based, [Next]_vars
  PROVE  Based'
<1> SUFFICES ASSUME NEW n \in DOMAIN tracks', NEW m \in DOMAIN Args,
                    tracks'[n].file = Args[m], <<Args[m], TRUE>> \notin noticed',
                    ~ tracks'[n].published
             PROVE  tracks'[n].baseline = IF Args[m] \in Existing THEN Original ELSE Empty
  BY DEF Based
<1>0. Args[m] \in Files /\ <<Args[m], TRUE>> \notin noticed
  BY NoticedGrows, SessionAssumption, LenProperties, ElementOfSeq
<1>1. CASE n \in DOMAIN tracks
  <2>1. tracks'[n].file = tracks[n].file
    BY <1>1, TracksGrow DEF LoopInv
  <2>2. ~ Cleared(n)
    BY <1>0, <2>1 DEF Cleared, LoopInv, Order
  <2>3. ~ (n = i /\ Publish)
    <3>1. ASSUME n = i, Publish PROVE tracks'[n].published
      <4>1. Published /\ tracks[i] \in Tracks
        BY <1>1, <3>1, Publishes, TrackSeq DEF LoopInv
      <4> QED
        BY <3>1, <4>1 DEF Published, Changed, Tracks
    <3> QED
      BY <3>1
  <2>4. Same(n)
    BY <1>1, <2>2, <2>3, TrackMoves
  <2> QED
    BY <1>0, <1>1, <2>1, <2>4 DEF Same, Based
<1>2. CASE n \notin DOMAIN tracks
  <2>1. CASE /\ CollectTracks /\ n \in 1..Len(Args)
             /\ tracks'[n] = NewTrack(Args[n],
                              IF live[Args[n]] = None THEN Empty ELSE live[Args[n]])
    <3>1. live = [f \in Files |-> IF f \in Existing THEN Original ELSE None]
      BY <2>1 DEF CollectTracks, Continue, LoopInv, Order
    <3>2. Args[n] = Args[m] /\ tracks'[n].baseline =
            IF live[Args[n]] = None THEN Empty ELSE live[Args[n]]
      BY <2>1 DEF NewTrack
    <3>3. Original # None
      BY Values
    <3> QED
      BY <1>0, <3>1, <3>2, <3>3
  <2>2. ASSUME NEW f \in Files, NEW c \in BOOLEAN, Learn(f, c), ~ Tracked(f),
               tracks'[n] = NewTrack(f, IF c THEN Empty ELSE live[f])
        PROVE  FALSE
    <3>1. f = Args[m]
      BY <2>2 DEF NewTrack
    <3>2. stage # "collect"
      BY <2>2 DEF Learn, Learning
    <3> QED
      BY <2>2, <3>1, <3>2 DEF LoopInv, Order
  <2> QED
    BY <1>2, <2>1, <2>2, NewTracks
<1> QED
  BY <1>1, <1>2

(* A step keeps KeptBaseline: when the first revision of a file is stored,   *)
(* its track is not published, and has its first baseline.                   *)
LEMMA KeptBaselineStep ==
  ASSUME LoopInv, PublishedStored, Based, KeptBaseline, [Next]_vars
  PROVE  KeptBaseline'
<1> SUFFICES ASSUME NEW m \in DOMAIN Args, <<Args[m], TRUE>> \notin noticed',
                    NEW r \in DOMAIN revisions', IsFirst(Args[m], r)'
             PROVE  revisions'[r].base = IF Args[m] \in Existing THEN Original ELSE Empty
  BY DEF KeptBaseline, HoldsBaseline
<1>0. Args[m] \in Files /\ <<Args[m], TRUE>> \notin noticed
  BY NoticedGrows, SessionAssumption, LenProperties, ElementOfSeq
<1>1. DOMAIN revisions = 1..Len(revisions) /\ Len(revisions) \in Nat
  BY TrackSeq DEF LoopInv
<1>2. DOMAIN revisions' = 1..Len(revisions') /\ Len(revisions') \in Nat
  BY RevisionsGrow, LenProperties
<1>3. /\ revisions'[r].file = Args[m]
      /\ \A k \in DOMAIN revisions' : k < r => revisions'[k].file # Args[m]
  BY <1>2 DEF IsFirst, OfFile, Before
<1>4. CASE r \in DOMAIN revisions
  <2>1. revisions'[r] = revisions[r]
    BY <1>4, RevisionsGrow
  <2>2. \A k \in DOMAIN revisions : k < r => revisions[k].file # Args[m]
    BY <1>3, RevisionsGrow
  <2>3. IsFirst(Args[m], r)
    BY <1>1, <1>3, <1>4, <2>1, <2>2, FirstOf
  <2> QED
    BY <1>0, <1>4, <2>1, <2>3 DEF KeptBaseline, HoldsBaseline
<1>5. CASE r \notin DOMAIN revisions
  <2>1. /\ Published /\ r = Len(revisions) + 1
        /\ revisions'[r] = [file |-> tracks[i].file, base |-> tracks[i].baseline,
                            content |-> first]
    BY <1>5, RevisionsGrow
  <2>2. i \in DOMAIN tracks /\ tracks[i].file = Args[m] /\ revisions'[r].base = tracks[i].baseline
    BY <1>3, <2>1 DEF Published
  <2>3. \A k \in DOMAIN revisions : revisions[k].file # Args[m]
    BY <1>1, <1>3, <2>1, RevisionsGrow
  <2>4. ~ tracks[i].published
    BY <1>0, <2>2, <2>3 DEF PublishedStored, IsLast
  <2> QED
    BY <1>0, <2>2, <2>4 DEF Based
<1> QED
  BY <1>4, <1>5

-----------------------------------------------------------------------------
(* A step keeps Flushed.                                                     *)
LEMMA FlushedStep ==
  ASSUME LoopInv, Flushed, [Next]_vars
  PROVE  Flushed'
<1>0. /\ SessionType /\ Order /\ PollRange
      /\ DOMAIN tracks = 1..Len(tracks) /\ Len(tracks) \in Nat /\ i \in 1..(Len(tracks) + 1)
  BY TrackSeq DEF LoopInv, SessionType
<1> USE DEF Flushing
<1>1. CASE CollectTracks \/ Spawn \/ Watch \/ WatchFails \/ Drain \/ Discover \/ Wait
           \/ PublishFails
  BY <1>1
  DEF CollectTracks, Spawn, Watch, WatchFails, Drain, Discover, Wait, PublishFails, Continue,
      Flushed
<1>2. CASE Edited
  <2>1. stage' \notin Stopped
    BY <1>0, <1>2 DEF Edited, Order
  <2> QED
    BY <2>1 DEF Flushed, Stopped
<1>3. CASE EndLearning
  <2>1. i' = 1 /\ stage' \in {"discover", "wait", "flush"}
    BY <1>3 DEF EndLearning, Continue
  <2> QED
    BY <2>1 DEF Flushed
<1>4. CASE EndPoll
  <2>1. i > Len(tracks) /\ stage' \in {"drain", "done"} /\ (stage' = "done" => stage = "flush")
    BY <1>4 DEF EndPoll, Continue
  <2>2. UNCHANGED <<live, tracks>>
    BY <1>4 DEF EndPoll, files
  <2> QED
    BY <1>0, <2>1, <2>2 DEF Flushed
<1>5. CASE UNCHANGED vars
  BY <1>5 DEF vars, files, polling, Flushed
<1>6. ASSUME NEW f \in Files, NEW c \in BOOLEAN, Learn(f, c) PROVE Flushed'
  BY <1>6 DEF Learn, Learning, Flushed
<1>7. CASE FirstRead \/ SecondRead
  BY <1>7 DEF FirstRead, SecondRead, Advance, Continue, Flushed
<1>8. CASE FlushRead
  <2> DEFINE found == live[tracks[i].file]
  <2>1. /\ stage = "flush" /\ first' = found /\ i <= Len(tracks) /\ stage' \in Flushing
        /\ stage' = "flush" => found \in {None, tracks[i].baseline}
        /\ i' = IF stage' = "flush" THEN i + 1 ELSE i
    BY <1>8 DEF FlushRead, Continue
  <2>2. Observed /\ UNCHANGED live
    BY <1>0, <1>8, Observes DEF files
  <2>3. \A n \in 1..(i' - 1) :
          n \in DOMAIN tracks /\ live[tracks[n].file] \in {None, tracks[n].baseline}
    BY <1>0, <2>1 DEF Flushed
  <2>4. \A n \in 1..(i' - 1) : live'[tracks'[n].file] \in {None, tracks'[n].baseline}
    BY <2>2, <2>3 DEF Observed
  <2>5. stage' = "flushpublish" => first' = live'[tracks'[i'].file]
    BY <1>0, <2>1, <2>2 DEF Observed
  <2> QED
    BY <2>1, <2>4, <2>5 DEF Flushed
<1>9. CASE Publish
  <2>1. /\ Published /\ i \in DOMAIN tracks /\ UNCHANGED live
        /\ tracks[i] \in Tracks
    BY <1>0, <1>9, Publishes, TrackSeq DEF Published, files
  <2>2. /\ i' = i + 1 /\ stage' \in {"poll", "flush"}
        /\ stage' = "flush" => stage = "flushpublish"
    BY <1>9 DEF Publish, Continue
  <2>3. tracks'[i].file = tracks[i].file /\ tracks'[i].baseline = first
    BY <2>1 DEF Published, Changed, Tracks
  <2>4. \A n \in 1..(i - 1) : n \in DOMAIN tracks /\ tracks'[n] = tracks[n]
    BY <1>0, <2>1 DEF Published, Changed
  <2>5. stage = "flushpublish" =>
          \A n \in 1..i : live'[tracks'[n].file] \in {None, tracks'[n].baseline}
    BY <1>0, <2>1, <2>3, <2>4 DEF Flushed
  <2>6. i' - 1 = i
    BY <1>0, <2>2
  <2> QED
    BY <2>2, <2>5, <2>6 DEF Flushed
<1> QED
  BY <1>0, <1>1, <1>2, <1>3, <1>4, <1>5, <1>6, <1>7, <1>8, <1>9, Steps DEF Quiet

(* An event of file f is still to be read.                                   *)
Pending(f) == \E c \in BOOLEAN : <<f, c>> \in events \union batch

(* The wrapper has learnt of file f, or will.                                *)
Knows(f) == Tracked(f) \/ Pending(f)

(* A creation of file f has been taken into account.                         *)
Counted(f) ==
  \E n \in DOMAIN tracks : tracks[n].file = f /\ (tracks[n].published \/ tracks[n].baseline = Empty)

(* It has been, or will be.                                                  *)
KnowsNew(f) == <<f, TRUE>> \in events \union batch \/ Counted(f)

(* What has been taken into account stays so.                                *)
LEMMA CountedKept ==
  ASSUME LoopInv, [Next]_vars, NEW f, Counted(f)
  PROVE  Counted(f)'
<1>1. PICK n \in DOMAIN tracks :
        tracks[n].file = f /\ (tracks[n].published \/ tracks[n].baseline = Empty)
  BY DEF Counted
<1>2. n \in DOMAIN tracks' /\ tracks'[n].file = f
  BY <1>1, TracksGrow DEF LoopInv
<1>3. ASSUME n = i, Publish PROVE tracks'[n].published
  <2>1. Published /\ tracks[i] \in Tracks
    BY <1>1, <1>3, Publishes, TrackSeq DEF LoopInv
  <2> QED
    BY <1>3, <2>1 DEF Published, Changed, Tracks
<1>4. tracks'[n].published \/ tracks'[n].baseline = Empty
  BY <1>1, <1>3, TrackMoves DEF Same, Cleared
<1> QED
  BY <1>2, <1>4 DEF Counted

(* Learn takes the event that it removes into account, and forgets no        *)
(* other.                                                                    *)
LEMMA LearnTells ==
  ASSUME LoopInv, [Next]_vars, NEW g \in Files, NEW c \in BOOLEAN, Learn(g, c),
         NEW f \in Files, live[f] # None
  PROVE  /\ Knows(f) => Knows(f)'
         /\ KnowsNew(f) => KnowsNew(f)'
<1>0. SessionType /\ [Next]_vars
  BY DEF LoopInv
<1>1. UNCHANGED events /\ batch' = batch \ {<<g, c>>}
  BY DEF Learn
<1>2. Relearning(g, c)
  BY <1>0, Learns
<1>3. \A b \in BOOLEAN : <<f, b>> \in events \union batch /\ <<f, b>> # <<g, c>> =>
        <<f, b>> \in events' \union batch'
  BY <1>1
<1>4. Tracked(f) => Tracked(f)'
  BY TracksGrow DEF LoopInv
<1>5. DOMAIN tracks = 1..Len(tracks) /\ Len(tracks) \in Nat
      /\ \A n \in DOMAIN tracks : tracks[n] \in Tracks
  BY <1>0, TrackSeq
<1>6. tracks' \in Seq(Tracks)
  BY <1>0, LoopTypeStep DEF LoopInv
<1>7. DOMAIN tracks' = 1..Len(tracks')
  BY <1>6, LenProperties
<1>8. CASE f # g
  <2>1. Pending(f) => Pending(f)'
    BY <1>3, <1>8 DEF Pending
  <2>2. Counted(f) => Counted(f)'
    BY CountedKept
  <2> QED
    BY <1>3, <1>4, <1>8, <2>1, <2>2 DEF Knows, KnowsNew
<1>9. CASE f = g
  <2>1. ASSUME NEW n \in DOMAIN tracks, tracks[n].file = f, Changed(n, Relearnt(tracks[n], c))
        PROVE  Tracked(f)' /\ (c => Counted(f)')
    <3>1. n \in DOMAIN tracks' /\ tracks'[n] = Relearnt(tracks[n], c)
      BY <1>5, <1>7, <2>1 DEF Changed
    <3>2. tracks'[n].file = f
      BY <2>1, TracksGrow DEF LoopInv
    <3>3. c => tracks'[n].published \/ tracks'[n].baseline = Empty
      BY <1>5, <3>1 DEF Relearnt, Tracks
    <3> QED
      BY <3>1, <3>2, <3>3 DEF Tracked, Counted
  <2>2. ASSUME Added(NewTrack(f, IF c THEN Empty ELSE live[f]))
        PROVE  Tracked(f)' /\ (c => Counted(f)')
    <3>1. /\ Len(tracks) + 1 \in DOMAIN tracks'
          /\ tracks'[Len(tracks) + 1] = NewTrack(f, IF c THEN Empty ELSE live[f])
      BY <1>5, <1>7, <2>2 DEF Added
    <3>2. PICK n \in DOMAIN tracks' : n = Len(tracks) + 1
      BY <3>1
    <3>3. tracks'[n].file = f /\ (c => tracks'[n].baseline = Empty)
      BY <3>1, <3>2 DEF NewTrack
    <3> QED
      BY <3>3 DEF Tracked, Counted
  <2>3. Tracked(f)' /\ (c => Counted(f)')
    BY <1>2, <1>9, <2>1, <2>2 DEF Relearning
  <2>4. CASE c
    BY <2>3, <2>4 DEF Knows, KnowsNew
  <2>5. CASE ~ c
    <3>1. <<f, TRUE>> # <<g, c>>
      BY <2>5
    <3>2. <<f, TRUE>> \in events \union batch => <<f, TRUE>> \in events' \union batch'
      BY <1>3, <3>1
    <3>3. Counted(f) => Counted(f)'
      BY CountedKept
    <3> QED
      BY <2>3, <3>2, <3>3 DEF Knows, KnowsNew
  <2> QED
    BY <2>4, <2>5
<1> QED
  BY <1>8, <1>9

(* No other step of the wrapper forgets an event: a drain may replace one    *)
(* by a creation of the same file.                                           *)
LEMMA EventsHeld ==
  ASSUME LoopInv, CollectTracks \/ Quiet \/ FirstRead \/ SecondRead \/ FlushRead \/ Publish,
         NEW f
  PROVE  /\ UNCHANGED noticed
         /\ \A b \in BOOLEAN : <<f, b>> \in events \union batch =>
              \E c \in BOOLEAN : <<f, c>> \in events' \union batch'
         /\ <<f, TRUE>> \in events \union batch => <<f, TRUE>> \in events' \union batch'
<1>1. CASE UNCHANGED <<events, batch, noticed>>
  BY <1>1
<1>2. CASE Drain
  <2>1. batch = {}
    BY <1>2 DEF Drain, Continue, LoopInv, Order, Learning
  <2>2. events' = {} /\ batch' = Coalesced /\ UNCHANGED noticed
    BY <1>2 DEF Drain
  <2>3. \A b \in BOOLEAN : <<f, b>> \in events => <<f, b>> \in Coalesced \/ <<f, TRUE>> \in events
    BY DEF Coalesced
  <2>4. <<f, TRUE>> \in events => <<f, TRUE>> \in Coalesced
    BY DEF Coalesced
  <2> QED
    BY <2>1, <2>2, <2>3, <2>4
<1>3. CASE Discover
  <2>1. batch = {} /\ UNCHANGED <<events, noticed>>
    BY <1>3 DEF Discover, Continue, LoopInv, Order, Learning
  <2> QED
    BY <2>1
<1>4. CASE CollectTracks \/ FirstRead \/ SecondRead \/ FlushRead \/ Publish
  BY <1>1, <1>4 DEF CollectTracks, FirstRead, SecondRead, FlushRead, Publish, Unlearned
<1>5. CASE Spawn \/ Watch \/ WatchFails \/ EndLearning \/ Wait \/ EndPoll \/ PublishFails
           \/ UNCHANGED vars
  BY <1>1, <1>5 DEF Spawn, Watch, WatchFails, EndLearning, Wait, EndPoll, PublishFails, vars
<1> QED
  BY <1>2, <1>3, <1>4, <1>5 DEF Quiet

(* A step keeps Told.                                                        *)
LEMMA ToldStep ==
  ASSUME LoopInv, Told, [Next]_vars
  PROVE  Told'
<1>0. SessionType /\ Order /\ PollRange
  BY DEF LoopInv
<1> SUFFICES ASSUME NEW f \in Files, live'[f] # None
             PROVE  /\ \A b \in BOOLEAN : <<f, b>> \in noticed' => Knows(f)'
                    /\ <<f, TRUE>> \in noticed' => KnowsNew(f)'
  BY DEF Told, Knows, KnowsNew, Pending, Counted
<1>1. live[f] # None =>
        /\ \A b \in BOOLEAN : <<f, b>> \in noticed => Knows(f)
        /\ <<f, TRUE>> \in noticed => KnowsNew(f)
  BY DEF Told, Knows, KnowsNew, Pending, Counted
<1>2. Tracked(f) => Tracked(f)'
  BY <1>0, TracksGrow
<1>3. Counted(f) => Counted(f)'
  BY CountedKept
<1>4. CASE Edited
  <2>1. PICK new \in SUBSET Pairs :
           /\ events' = events \union new
           /\ noticed' = noticed \union new
           /\ ~ watching => new = {}
           /\ \A g \in Files : watching /\ live[g] = None /\ live'[g] # None => <<g, TRUE>> \in new
    BY <1>4 DEF Edited
  <2>2. UNCHANGED batch
    BY <1>4 DEF Edited
  <2>3. ~ watching => noticed' = {}
    BY <1>0, <2>1 DEF Order
  <2>4. /\ \A b \in BOOLEAN : <<f, b>> \in new => Pending(f)'
        /\ <<f, TRUE>> \in new => KnowsNew(f)'
    BY <2>1 DEF Pending, KnowsNew
  <2>5. /\ Pending(f) => Pending(f)'
        /\ <<f, TRUE>> \in events \union batch => <<f, TRUE>> \in events' \union batch'
    BY <2>1, <2>2 DEF Pending
  <2>6. CASE live[f] = None /\ watching
    <3>1. <<f, TRUE>> \in new
      BY <2>1, <2>6
    <3> QED
      BY <2>4, <3>1 DEF Knows
  <2>7. CASE live[f] # None
    BY <1>1, <1>2, <1>3, <2>1, <2>4, <2>5, <2>7 DEF Knows, KnowsNew
  <2> QED
    BY <2>3, <2>6, <2>7
<1>5. ASSUME NEW g \in Files, NEW c \in BOOLEAN, Learn(g, c)
      PROVE  /\ \A b \in BOOLEAN : <<f, b>> \in noticed' => Knows(f)'
             /\ <<f, TRUE>> \in noticed' => KnowsNew(f)'
  <2>1. UNCHANGED <<live, noticed>>
    BY <1>5 DEF Learn, files
  <2> QED
    BY <1>1, <1>5, <2>1, LearnTells
<1>6. CASE CollectTracks
  <2>1. noticed' = {}
    BY <1>0, <1>6 DEF CollectTracks, Continue, Order
  <2> QED
    BY <2>1
<1>7. CASE Quiet \/ FirstRead \/ SecondRead \/ FlushRead \/ Publish
  <2>1. UNCHANGED live
    BY <1>7, QuietSteps DEF FirstRead, SecondRead, FlushRead, Publish, Unlearned, files
  <2>2. /\ UNCHANGED noticed
        /\ Pending(f) => Pending(f)'
        /\ <<f, TRUE>> \in events \union batch => <<f, TRUE>> \in events' \union batch'
    BY <1>7, EventsHeld DEF Pending
  <2> QED
    BY <1>1, <1>2, <1>3, <2>1, <2>2 DEF Knows, KnowsNew
<1> QED
  BY <1>0, <1>4, <1>5, <1>6, <1>7, Steps

(* The track that Publish leaves.                                            *)
LEMMA PublishedOf ==
  ASSUME LoopInv, Publish
  PROVE  /\ i \in DOMAIN tracks /\ first \in Contents
         /\ tracks'[i].published /\ tracks'[i].baseline = first
<1>1. Published
  BY Publishes DEF LoopInv
<1>2. i \in DOMAIN tracks /\ tracks[i] \in Tracks
  BY <1>1, TrackSeq DEF Published, LoopInv
<1> QED
  BY <1>1, <1>2 DEF Published, Changed, Tracks

(* A step keeps Latest.                                                      *)
LEMMA LatestStep ==
  ASSUME LoopInv, Latest, [Next]_vars
  PROVE  Latest'
<1> SUFFICES ASSUME NEW r \in DOMAIN revisions', NEW f \in Files, IsLast(f, r)'
             PROVE  \E n \in DOMAIN tracks' :
                      /\ tracks'[n].file = f /\ tracks'[n].published
                      /\ tracks'[n].baseline = revisions'[r].content
  BY DEF Latest
<1>1. \A n \in DOMAIN tracks : n \in DOMAIN tracks' /\ tracks'[n].file = tracks[n].file
  BY TracksGrow DEF LoopInv
<1>2. CASE r \in DOMAIN revisions
  <2>1. revisions'[r] = revisions[r] /\ IsLast(f, r) /\ ~ (Publish /\ f = tracks[i].file)
    BY <1>2, RevisionsGrow, LastMoves
  <2>2. PICK n \in DOMAIN tracks :
          /\ tracks[n].file = f /\ tracks[n].published
          /\ tracks[n].baseline = revisions[r].content
    BY <1>2, <2>1 DEF Latest
  <2>3. Same(n)
    BY <2>1, <2>2, TrackMoves DEF Cleared
  <2> QED
    BY <1>1, <2>1, <2>2, <2>3 DEF Same
<1>3. CASE r \notin DOMAIN revisions
  <2>1. /\ Publish /\ revisions'[r].file = tracks[i].file
        /\ revisions'[r].content = first
    BY <1>3, RevisionsGrow
  <2>2. i \in DOMAIN tracks /\ tracks'[i].published /\ tracks'[i].baseline = first
    BY <2>1, PublishedOf
  <2>3. revisions'[r].file = f
    BY DEF IsLast
  <2> QED
    BY <1>1, <2>1, <2>2, <2>3
<1> QED
  BY <1>2, <1>3

-----------------------------------------------------------------------------
(* If no file is named twice, a step keeps Distinct: an event of a file      *)
(* that is tracked adds no track.                                            *)
LEMMA DistinctStep ==
  ASSUME LoopInv, Distinct, DistinctArgs, [Next]_vars
  PROVE  Distinct'
<1> SUFFICES ASSUME NEW m \in DOMAIN tracks', NEW n \in DOMAIN tracks',
                    tracks'[m].file = tracks'[n].file
             PROVE  m = n
  BY DEF Distinct
<1>1. \A k \in DOMAIN tracks : tracks'[k].file = tracks[k].file
  BY TracksGrow DEF LoopInv
<1>2. DOMAIN tracks = 1..Len(tracks) /\ Len(tracks) \in Nat /\ DOMAIN Args = 1..Len(Args)
  BY TrackSeq, SessionAssumption, LenProperties DEF LoopInv
<1>3. \A k, f, c : NewTrack(f, c).file = f
  BY DEF NewTrack
<1>4. CASE CollectTracks
  <2>1. tracks = <<>>
    BY <1>4 DEF CollectTracks, Continue, LoopInv, Order
  <2>2. stage # "events" /\ stage # "fds" /\ stage # "lastevents"
    BY <1>4 DEF CollectTracks, Continue
  <2>3. \A f, c : ~ Learn(f, c)
    BY <2>2 DEF Learn, Learning
  <2>4. \A k \in DOMAIN tracks' : k \in 1..Len(Args) /\ tracks'[k].file = Args[k]
    BY <1>2, <1>3, <2>1, <2>3, NewTracks
  <2> QED
    BY <1>2, <2>4 DEF DistinctArgs
<1>5. CASE ~ CollectTracks
  <2>1. \A k \in DOMAIN tracks' : k \notin DOMAIN tracks =>
          k = Len(tracks) + 1 /\ ~ Tracked(tracks'[k].file)
    BY <1>3, <1>5, NewTracks
  <2>2. \A k \in DOMAIN tracks : Tracked(tracks'[k].file)
    BY <1>1 DEF Tracked
  <2> QED
    BY <1>1, <2>1, <2>2 DEF Distinct
<1> QED
  BY <1>4, <1>5

(* If no file has two tracks, a step keeps Chained: a revision is stored     *)
(* against the content of the one before.                                    *)
LEMMA ChainedStep ==
  ASSUME LoopInv, Distinct, Latest, Chained, [Next]_vars
  PROVE  Chained'
<1> SUFFICES ASSUME NEW m \in DOMAIN revisions', NEW n \in DOMAIN revisions', Follows(m, n)'
             PROVE  revisions'[n].base = revisions'[m].content
  BY DEF Chained
<1>1. /\ DOMAIN revisions = 1..Len(revisions) /\ Len(revisions) \in Nat
      /\ DOMAIN revisions' = 1..Len(revisions') /\ Len(revisions') \in Nat
      /\ \A r \in DOMAIN revisions : revisions[r] \in Revisions
  BY TrackSeq, RevisionsGrow, LenProperties DEF LoopInv
<1>2. /\ m < n /\ revisions'[n].file = revisions'[m].file
      /\ \A k \in DOMAIN revisions' : m < k /\ k < n => revisions'[k].file # revisions'[m].file
  BY <1>1 DEF Follows, OfFile, Between
<1>3. m \in DOMAIN revisions
  BY <1>1, <1>2, RevisionsGrow
<1>4. revisions'[m] = revisions[m] /\ revisions[m].file \in Files
  BY <1>1, <1>3, RevisionsGrow DEF Revisions
<1>5. \A k \in DOMAIN revisions : k \in DOMAIN revisions' /\ revisions'[k] = revisions[k]
  BY RevisionsGrow
<1>6. CASE n \in DOMAIN revisions
  <2>1. \A k \in Between(m, n) : k \in DOMAIN revisions
    BY <1>1, <1>3, <1>6 DEF Between
  <2>2. Follows(m, n)
    BY <1>1, <1>2, <1>4, <1>5, <1>6, <2>1 DEF Follows, OfFile, Between
  <2> QED
    BY <1>3, <1>4, <1>5, <1>6, <2>2 DEF Chained
<1>7. CASE n \notin DOMAIN revisions
  <2>1. /\ Publish /\ n = Len(revisions) + 1
        /\ revisions'[n].file = tracks[i].file /\ revisions'[n].base = tracks[i].baseline
    BY <1>7, RevisionsGrow
  <2>2. i \in DOMAIN tracks
    BY <2>1, PublishedOf
  <2>3. \A k \in DOMAIN revisions : k > m => revisions[k].file # tracks[i].file
    BY <1>1, <1>2, <1>5, <2>1
  <2>4. revisions[m].file = tracks[i].file
    BY <1>2, <1>4, <2>1
  <2>5. IsLast(tracks[i].file, m)
    BY <1>1, <1>3, <2>3, <2>4, LastOf
  <2>6. tracks[i].baseline = revisions[m].content
    BY <1>3, <1>4, <2>2, <2>4, <2>5 DEF Latest, Distinct
  <2> QED
    BY <1>4, <2>1, <2>6
<1> QED
  BY <1>6, <1>7

-----------------------------------------------------------------------------
(* Every part of the invariant holds at first.                               *)
LEMMA Starts ==
  Init => /\ LoopInv /\ PublishedStored /\ Latest /\ Based /\ KeptBaseline /\ Told /\ Flushed
          /\ Distinct /\ Chained
<1> SUFFICES ASSUME Init
             PROVE  /\ LoopInv /\ PublishedStored /\ Latest /\ Based /\ KeptBaseline /\ Told
                    /\ Flushed /\ Distinct /\ Chained
  OBVIOUS
<1>1. /\ DOMAIN tracks = {} /\ DOMAIN revisions = {} /\ Len(tracks) = 0 /\ noticed = {}
      /\ stage = "collect"
  BY DEF Init
<1>2. SessionType
  <2>1. live \in [Files -> Contents \union {None}]
    BY Values DEF Init
  <2>2. tracks \in Seq(Tracks) /\ revisions \in Seq(Revisions)
    BY DEF Init
  <2>3. saves \in 0..MaxSaves /\ i \in 1..(Len(tracks) + 1)
    BY <1>1, SessionAssumption DEF Init
  <2> QED
    BY <2>1, <2>2, <2>3 DEF Init, SessionType, Revisions
<1>3. Order /\ PollRange
  BY <1>1 DEF Init, Order, PollRange, Stopped, Closing, Learning
<1>4. PublishedStored /\ Latest /\ Based /\ KeptBaseline /\ Distinct /\ Chained
  BY <1>1 DEF PublishedStored, Latest, Based, KeptBaseline, HoldsBaseline, Distinct, Chained
<1>5. Told /\ Flushed
  BY <1>1 DEF Told, Flushed, Flushing
<1> QED
  BY <1>2, <1>3, <1>4, <1>5 DEF LoopInv

(* What holds whatever is on the command line.                               *)
SessionInv ==
  LoopInv /\ PublishedStored /\ Latest /\ Based /\ KeptBaseline /\ Told /\ Flushed

(* The invariant, whatever is on the command line and whatever fails.        *)
THEOREM SessionInvariance == Spec => []SessionInv
<1>1. Init => SessionInv
  BY Starts DEF SessionInv
<1>2. SessionInv /\ [Next]_vars => SessionInv'
  BY LoopInvStep, PublishedStoredStep, LatestStep, BasedStep, KeptBaselineStep, ToldStep,
     FlushedStep
  DEF SessionInv
<1> QED
  BY <1>1, <1>2, PTL DEF Spec

(* Every variable of Session keeps its type.                                 *)
THEOREM SessionTyped == Spec => []SessionType
<1>1. SessionInv => SessionType
  BY DEF SessionInv, LoopInv
<1> QED
  BY <1>1, SessionInvariance, PTL

(* Unless the file is created anew during the session, its first revision    *)
(* holds what it contained before.                                           *)
THEOREM BaselineKept == Spec => []KeptBaseline
<1>1. SessionInv => KeptBaseline
  BY DEF SessionInv
<1> QED
  BY <1>1, SessionInvariance, PTL

(* What the invariant says of a session that has ended well: every file      *)
(* with an event is tracked, and every track is stored.                      *)
LEMMA Settled ==
  ASSUME SessionInv, stage = "done", NEW f \in Files, live[f] # None
  PROVE  /\ \A created \in BOOLEAN : <<f, created>> \in noticed => Tracked(f)
         /\ <<f, TRUE>> \in noticed => Counted(f)
         /\ \A n \in DOMAIN tracks : tracks[n].file = f => tracks[n].baseline = live[f]
<1>1. events = {} /\ batch = {}
  BY DEF SessionInv, LoopInv, Order, Closing, Learning
<1>2. Told /\ Flushed
  BY DEF SessionInv
<1> QED
  BY <1>1, <1>2 DEF Told, Flushed, Counted

(* A session that ends well has stored the last content of every file it     *)
(* was told of, whichever way the editor saved it and however late the       *)
(* wrapper learnt of it.                                                     *)
THEOREM LastIsStored == Spec => []LastStored
<1>1. SessionInv => LastStored
  BY Settled DEF LastStored, Tracked
<1> QED
  BY <1>1, SessionInvariance, PTL

(* A session that ends well has stored every file that was created in it,    *)
(* even if the wrapper read it only after it was written.                    *)
THEOREM CreatedIsStored == Spec => []CreatedStored
<1>1. ASSUME SessionInv, stage = "done", NEW f \in Files,
             <<f, TRUE>> \in noticed, live[f] \notin {None, Empty}
      PROVE  \E r \in DOMAIN revisions : IsLast(f, r) /\ revisions[r].content = live[f]
  <2>1. PICK n \in DOMAIN tracks :
          tracks[n].file = f /\ (tracks[n].published \/ tracks[n].baseline = Empty)
    BY <1>1, Settled DEF Counted
  <2>2. tracks[n].baseline = live[f]
    BY <1>1, <2>1, Settled
  <2>3. PICK r \in DOMAIN revisions : IsLast(f, r)
    BY <1>1, <2>1, <2>2 DEF SessionInv, PublishedStored
  <2>4. PICK m \in DOMAIN tracks :
          tracks[m].file = f /\ tracks[m].baseline = revisions[r].content
    BY <1>1, <2>3 DEF SessionInv, Latest
  <2>5. revisions[r].content = live[f]
    BY <1>1, <2>4, Settled
  <2> QED
    BY <2>3, <2>5
<1>2. SessionInv => CreatedStored
  BY <1>1 DEF CreatedStored
<1> QED
  BY <1>2, SessionInvariance, PTL

(* The revisions of a file form a chain, each made against the content of    *)
(* the one before, unless the file was named twice on the command line:      *)
(* then it has two tracks, and the chain breaks.                             *)
THEOREM RevisionsChained ==
  ASSUME DistinctArgs
  PROVE  Spec => []Chained
<1>1. Init => SessionInv /\ Distinct /\ Chained
  BY Starts DEF SessionInv
<1>2. SessionInv /\ Distinct /\ Chained /\ [Next]_vars => (Distinct /\ Chained)'
  BY DistinctArgs, DistinctStep, ChainedStep DEF SessionInv
<1> QED
  BY <1>1, <1>2, SessionInvariance, PTL DEF Spec
=============================================================================
