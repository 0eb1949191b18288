------------------------------ MODULE Recordings ------------------------------
(***************************************************************************)
(* The recordings of one camera.  MediaMTX records and deletes the video   *)
(* by what its path was told, and reports each segment by webhook; the API *)
(* keeps an index of windows for the timeline, which a job prunes by the   *)
(* camera's row.  Nothing else ties the index to the video.                *)
(***************************************************************************)
EXTENDS Integers, FiniteSets, FiniteSetsExt

CONSTANTS RetentionDays, \* the values retention_days takes, in ticks
          PruneEvery,    \* ticks between two runs of the job, a day
          HookDelay,     \* ticks a webhook takes at most
          LastTick, MaxSkips, MaxRecEdits, \* bounds: time, runs left out, edits of the camera,
          MaxRecFields,  \* fields one edit changes,
          MaxSegments,   \* and segments
          NoRecPath

ASSUME RecordingsAssumption ==
  /\ RetentionDays \subseteq Nat \ {0} /\ PruneEvery \in Nat \ {0}
  /\ {HookDelay, LastTick, MaxSkips, MaxRecEdits, MaxRecFields, MaxSegments} \subseteq Nat
  /\ \E shortest, longest \in RetentionDays :
       \A days \in RetentionDays : shortest <= days /\ days <= longest
  /\ NoRecPath \notin [rec : BOOLEAN, after : RetentionDays \cup {0}]

VARIABLES recRow,   \* is_active, recording_enabled and retention_days, committed
          recPath,  \* what the path in MediaMTX was told
          clock,
          video,    \* segments on disk, by the tick in which they begin
          segHooks, \* segments whose webhook is on its way
          windows,  \* recording_windows
          recEdit,     \* the request that changes the camera
          prune,    \* what the job has read
          sincePrune, skips, recEdits,
          indexed,  \* history: segments that got a window
          torn,     \* history: segments whose window was pruned while path and row differed
          goneAt,   \* history: segment -> when its video was deleted
          changedAt,\* history: when row or path last changed or differed
          switchedAt \* history: when recording_enabled last changed

recVars == <<recRow, recPath, clock, video, segHooks, windows, recEdit, prune, sincePrune,
             skips, recEdits, indexed, torn, goneAt, changedAt, switchedAt>>
recHistory == <<indexed, torn, goneAt>>

Ticks == 0..LastTick
Never == LastTick + 1
RecRows == [active : BOOLEAN, rec : BOOLEAN, days : RetentionDays]
RecPaths == [rec : BOOLEAN, after : RetentionDays \cup {0}]
NoRecEdit == [step |-> "none", draft |-> {}]
NoPrune == [step |-> "none", days |-> {}]
\* A row without an end is what get_open_window looks for.
OpenEnd == -1

\* Only a path that records is told when to delete; the default is never.
RecBody(row) == [rec |-> row.rec, after |-> IF row.rec THEN row.days ELSE 0]
Agree(row, p) == p = RecBody(row)
\* Have they differed since video was last deleted?
Apart == changedAt = clock

RecordingsInit ==
  /\ \E days \in RetentionDays :
       recRow = [active |-> TRUE, rec |-> TRUE, days |-> days]
  /\ recPath = RecBody(recRow)
  /\ clock = 0 /\ video = {} /\ segHooks = {} /\ windows = {}
  /\ recEdit = NoRecEdit /\ prune = NoPrune /\ sincePrune = 0 /\ skips = 0 /\ recEdits = 0
  /\ indexed = {} /\ torn = {}
  /\ goneAt = [s \in Ticks |-> Never] /\ changedAt = 0 /\ switchedAt = 0

-----------------------------------------------------------------------------
(***************************************************************************)
(* The camera's row and its path.                                          *)
(***************************************************************************)
\* update_camera finds the row, deleted or not, and flushes it; a change of the
\* recording forces the path before the commit.
UpdateRecording ==
  /\ recEdit = NoRecEdit /\ recEdits < MaxRecEdits
  /\ \E active, rec \in BOOLEAN, days \in RetentionDays :
       LET draft == [recRow EXCEPT !.active = active, !.rec = rec, !.days = days]
           changed == {field \in {"active", "rec", "days"} : draft[field] # recRow[field]}
       IN /\ changed # {} /\ Cardinality(changed) <= MaxRecFields
          /\ recEdit' = [step |-> IF changed # {"active"} THEN "provision" ELSE "commit", draft |-> {draft}]
  /\ recEdits' = recEdits + 1
  /\ UNCHANGED <<recRow, recPath, clock, video, segHooks, windows, prune, sincePrune,
                 skips, recHistory, changedAt, switchedAt>>

\* delete_camera: the path, best effort, then a soft delete.
DeleteRecorded ==
  /\ recEdit = NoRecEdit /\ recEdits < MaxRecEdits
  /\ recEdit' = [step |-> "remove", draft |-> {[recRow EXCEPT !.active = FALSE]}]
  /\ recEdits' = recEdits + 1
  /\ UNCHANGED <<recRow, recPath, clock, video, segHooks, windows, prune, sincePrune,
                 skips, recHistory, changedAt, switchedAt>>

\* delete and add, or remove; failures are swallowed, also the one in between.
ProvisionRecording ==
  /\ recEdit.step \in {"provision", "remove"}
  /\ recPath' \in {recPath, NoRecPath} \cup
                 {RecBody(row) : row \in {d \in recEdit.draft : recEdit.step = "provision"}}
  /\ recEdit' = [recEdit EXCEPT !.step = "commit"]
  /\ changedAt' = clock
  /\ UNCHANGED <<recRow, clock, video, segHooks, windows, prune, sincePrune, skips,
                 recEdits, recHistory, switchedAt>>

\* get_db may fail to commit.  A deleted camera keeps its row, and its windows.
CommitRecording ==
  /\ recEdit.step = "commit"
  /\ recRow' \in {recRow} \cup recEdit.draft
  /\ recEdit' = NoRecEdit
  /\ changedAt' = clock
  /\ switchedAt' = IF recRow'.rec = recRow.rec THEN switchedAt ELSE clock
  /\ UNCHANGED <<recPath, clock, video, segHooks, windows, prune, sincePrune, skips, recEdits,
                 recHistory>>

MediaLosesPaths ==
  /\ recPath # NoRecPath /\ recEdits < MaxRecEdits
  /\ recPath' = NoRecPath
  /\ recEdits' = recEdits + 1
  /\ changedAt' = clock
  /\ UNCHANGED <<recRow, clock, video, segHooks, windows, recEdit, prune, sincePrune, skips,
                 recHistory, switchedAt>>

\* The watchdog provides paths of cameras with a source; the boot of the API all.
Reprovision ==
  /\ recPath = NoRecPath /\ recRow.active
  /\ recPath' = RecBody(recRow)
  /\ changedAt' = clock
  /\ UNCHANGED <<recRow, clock, video, segHooks, windows, recEdit, prune, sincePrune, skips,
                 recEdits, recHistory, switchedAt>>

-----------------------------------------------------------------------------
(***************************************************************************)
(* The index.                                                              *)
(***************************************************************************)
OpenWindows == {w \in windows : w.end = OpenEnd}

\* record_segment_complete.  Windows are created with an end, so that none is open
\* and every segment has a window of its own.
RecordSegment(s) ==
  IF OpenWindows # {}
    THEN \E w \in OpenWindows : windows' = (windows \ {w}) \cup {[w EXCEPT !.end = clock]}
    ELSE windows' = windows \cup {[start |-> s, end |-> clock]}

\* A failure is answered ok, and so is the path of a camera that publishes,
\* live/{stream_key}, which is not understood.
SegmentHook(s) ==
  /\ s \in segHooks
  /\ segHooks' = segHooks \ {s}
  /\ \/ RecordSegment(s) /\ indexed' = indexed \cup {s}
     \/ UNCHANGED <<windows, indexed>>
  /\ UNCHANGED <<recRow, recPath, clock, video, recEdit, prune, sincePrune, skips, recEdits,
                 torn, goneAt, changedAt, switchedAt>>

\* Mutant of Prunes: the job goes through all cameras.
PrunesAll(row) == row \in RecRows

\* The job goes through cameras that record, deleted ones too.
Prunes(row) == row.rec

PruneReads ==
  /\ prune = NoPrune /\ sincePrune = PruneEvery
  /\ prune' = [step |-> "read", days |-> {row.days : row \in {r \in {recRow} : Prunes(r)}}]
  /\ UNCHANGED <<recRow, recPath, clock, video, segHooks, windows, recEdit, sincePrune,
                 skips, recEdits, recHistory, changedAt, switchedAt>>

\* delete_before
Outdated(w, days) == w.end # OpenEnd /\ w.end < clock - days

PruneDeletes ==
  LET old == {w \in windows : \E days \in prune.days : Outdated(w, days)}
  IN /\ prune.step = "read"
     /\ windows' = windows \ old
     /\ torn' = IF Apart THEN torn \cup {w.start : w \in old} ELSE torn
     /\ prune' = NoPrune /\ sincePrune' = 0
     /\ UNCHANGED <<recRow, recPath, clock, video, segHooks, recEdit, skips, recEdits,
                    indexed, goneAt, changedAt, switchedAt>>

\* The worker is down at that hour, or the job dies before it commits.
PruneSkipped ==
  /\ sincePrune = PruneEvery /\ skips < MaxSkips
  /\ skips' = skips + 1 /\ prune' = NoPrune /\ sincePrune' = 0
  /\ UNCHANGED <<recRow, recPath, clock, video, segHooks, windows, recEdit, recEdits,
                 recHistory, changedAt, switchedAt>>

\* get_available_ranges
InRange(from, to) == {w \in windows : w.start <= to /\ (w.end = OpenEnd \/ w.end >= from)}

-----------------------------------------------------------------------------
(***************************************************************************)
(* Time passes: MediaMTX may complete a segment, and deletes old ones.     *)
(***************************************************************************)
Deleted(now) ==
  {s \in video : recPath # NoRecPath /\ recPath.after # 0 /\ s < now - recPath.after}

Recorded == video \cup {s \in Ticks : goneAt[s] # Never}
\* The stream may be down.
MayRecord == recPath # NoRecPath /\ recPath.rec /\ Cardinality(Recorded) < MaxSegments

RecordingTick ==
  /\ recEdit = NoRecEdit /\ prune = NoPrune /\ sincePrune < PruneEvery /\ clock < LastTick
  /\ \A s \in segHooks : clock <= s + HookDelay
  /\ clock' = clock + 1 /\ sincePrune' = sincePrune + 1
  /\ \E new \in {{}, {clock}} :
       /\ new # {} => MayRecord
       /\ video' = (video \cup new) \ Deleted(clock + 1)
       /\ segHooks' = segHooks \cup new
  /\ goneAt' = [s \in Ticks |-> IF s \in Deleted(clock + 1) THEN clock + 1 ELSE goneAt[s]]
  /\ changedAt' = IF Agree(recRow, recPath) THEN changedAt ELSE clock + 1
  /\ UNCHANGED <<recRow, recPath, windows, recEdit, prune, skips, recEdits, indexed, torn,
                 switchedAt>>

RecordingsNext ==
  \/ UpdateRecording \/ DeleteRecorded \/ ProvisionRecording \/ CommitRecording
  \/ MediaLosesPaths \/ Reprovision
  \/ \E s \in Ticks : SegmentHook(s)
  \/ PruneReads \/ PruneDeletes \/ PruneSkipped
  \/ RecordingTick

RecordingsSpec == RecordingsInit /\ [][RecordingsNext]_recVars

-----------------------------------------------------------------------------
\* Type invariant.
RecordingsTypeOK ==
  /\ recRow \in RecRows /\ recPath \in RecPaths \cup {NoRecPath}
  /\ {clock, changedAt, switchedAt} \subseteq Ticks
  /\ {video, segHooks, indexed, torn} \subseteq SUBSET Ticks
  /\ \A w \in windows : w.start \in Ticks /\ w.end \in Ticks \cup {OpenEnd}
  /\ recEdit.step \in {"none", "provision", "remove", "commit"} /\ recEdit.draft \subseteq RecRows
  /\ prune.step \in {"none", "read"} /\ prune.days \subseteq RetentionDays
  /\ sincePrune \in 0..PruneEvery /\ skips \in 0..MaxSkips /\ recEdits \in 0..MaxRecEdits
  /\ goneAt \in [Ticks -> Ticks \cup {Never}]

\* A segment on disk that was indexed is on the timeline.
Findable ==
  \A s \in (video \cap indexed) \ torn :
    \E w \in InRange(s, s + 1) : w.start <= s /\ w.end > s

\* While the row says that the camera records, the timeline forgets video that is
\* gone, of a deleted camera too and whatever the path was told.
GoneSoon ==
  recRow.rec =>
    \A w \in windows :
      w.start \notin video =>
        clock <= Max({goneAt[w.start], switchedAt}) + PruneEvery * (1 + skips) + HookDelay
                   + Max(RetentionDays) - Min(RetentionDays)

\* The timeline and the video, which two programs delete each by its own clock and its
\* own copy of the retention, agree: what can be played is shown, unless a run of the
\* job found path and row apart, as it does of a deleted camera that records, whose
\* video nobody deletes any more; and what is gone is shown for a bounded time.
TimelineIsTrue == Findable /\ GoneSoon
=============================================================================
