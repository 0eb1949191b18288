----------------------------- MODULE EventClips -----------------------------
(***************************************************************************)
(* The clip of an event, from the job or the upload that makes it to the   *)
(* nightly cleanup.  A clip is a row, committed status by status in short  *)
(* transactions, and an object in the storage.  Clips of the edge arrive   *)
(* by PUT from an ARQ job that tries again; the others are rendered by the *)
(* worker of the VPS.  Workers die anywhere in between.                    *)
(***************************************************************************)
EXTENDS Integers, FiniteSets

CONSTANTS ClipEvents,
          Workers,    \* API requests and worker jobs that run at once
          Quota,      \* clips that storage_quota_mb has room for
          Retention,  \* event -> days its tenant's licence keeps clips
          MaxTries,   \* bound: event -> tries of its job
          MaxStruck,  \* bound: events met by a crash or a storage failure
          Nothing     \* no event

ASSUME ClipsAssumption ==
  /\ Nothing \notin ClipEvents /\ IsFiniteSet(Workers)
  /\ Quota \in Nat /\ MaxStruck \in Nat /\ MaxTries \in [ClipEvents -> Nat]
  /\ Retention \in [ClipEvents -> Nat] \* one of them is the longest
  /\ \A e \in ClipEvents : \E d \in ClipEvents : \A f \in ClipEvents : Retention[f] <= Retention[d]

VARIABLES edge,     \* do these events come with edge_generates_clip
          clipRow,      \* event -> status of its row in event_clips
          clipAge,      \* event -> days since the row was created
          object,   \* events whose clip is in the storage
          worker,   \* worker -> event, stage and kind of what it runs
          job,      \* event -> state of the job that is to produce its clip
          tries,    \* event -> tries of that job
          doomed,   \* rows the running cleanup has selected, uncommitted
          clipFaults    \* history: events met by a crash or a storage failure

clipVars == <<edge, clipRow, clipAge, object, worker, job, tries, doomed, clipFaults>>

ClipStatus == {"pending", "staged", "uploaded", "failed"}
IdleWorker == [event |-> Nothing, stage |-> "idle", try |-> 0]
Busy(e) == \E w \in Workers : worker[w].event = e
LongestRetention == CHOOSE d \in {Retention[e] : e \in ClipEvents} :
                      \A e \in ClipEvents : Retention[e] <= d
MaxAge == LongestRetention + 1

\* StorageQuota.used_bytes: rows have no size before they are uploaded.
Used == Cardinality({e \in ClipEvents : clipRow[e] = "uploaded"})
\* Mutant of HasRoom: the new clip is not counted.
HasRoomOffByOne == Quota = 0 \/ Used <= Quota

\* has_room_for; no quota means no limit.
HasRoom == Quota = 0 \/ Used + 1 <= Quota

ClipsInit ==
  /\ edge \in BOOLEAN
  /\ clipRow = [e \in ClipEvents |-> "none"] /\ clipAge = [e \in ClipEvents |-> 0]
  /\ object = {} /\ doomed = {} /\ clipFaults = {}
  /\ worker = [w \in Workers |-> IdleWorker]
  /\ job = [e \in ClipEvents |-> "queued"] /\ tries = [e \in ClipEvents |-> 0]

At(w, stage) == worker[w].stage = stage
EventOf(w) == worker[w].event
WorkerGoes(w, stage) == worker' = [worker EXCEPT ![w].stage = stage]
WorkerEnds(w) == worker' = [worker EXCEPT ![w] = IdleWorker]

\* A crash or a failure of the storage meets these events.
Strikes(es) ==
  /\ clipFaults' = clipFaults \union es
  /\ Cardinality(clipFaults') <= MaxStruck

\* Another try of e's job, if ARQ has any left.
Again(e) == IF tries[e] < MaxTries[e] THEN "queued" ELSE "dropped"
Retries(e) == job' = [job EXCEPT ![e] = Again(e)]
\* A reply reaches the try it belongs to, if that still waits.
Waits(w) == job[EventOf(w)] = "running" /\ worker[w].try = tries[EventOf(w)]
Replies(w, reply) == job' = IF Waits(w) THEN [job EXCEPT ![EventOf(w)] = reply] ELSE job

\* task_render_and_upload_edge_clip has its MP4 and sends it; on the VPS,
\* task_dispatch_event_notifications starts generate_and_upload.
Starts(e, w) ==
  /\ job[e] = "queued" /\ tries[e] < MaxTries[e] /\ At(w, "idle")
  /\ clipRow[e] # "none" \/ clipAge[e] = 0
  /\ job' = [job EXCEPT ![e] = "running"]
  /\ tries' = [tries EXCEPT ![e] = @ + 1]
  /\ worker' = [worker EXCEPT ![w] = [event |-> e,
                  stage |-> IF edge THEN "received" ELSE "admitted", try |-> tries[e] + 1]]
  /\ UNCHANGED <<edge, clipRow, clipAge, object, doomed, clipFaults>>

\* Neither recording nor snapshot, ffmpeg fails, the event is unknown: no retry.
NoClip(e) ==
  /\ job[e] = "queued"
  /\ job' = [job EXCEPT ![e] = "dropped"]
  /\ UNCHANGED <<edge, clipRow, clipAge, object, worker, tries, doomed, clipFaults>>

\* upload_event_clip: the quota is a sum that is read before the upload.
Admits(w) ==
  /\ At(w, "received")
  /\ IF HasRoom
     THEN WorkerGoes(w, "admitted") /\ UNCHANGED job
     ELSE WorkerEnds(w) /\ Replies(w, "dropped")
  /\ UNCHANGED <<edge, clipRow, clipAge, object, tries, doomed, clipFaults>>

\* get_by_event: whatever became of the row that is found, the answer is 200.
FindsExisting(w) ==
  /\ At(w, "admitted") /\ clipRow[EventOf(w)] # "none"
  /\ WorkerEnds(w) /\ Replies(w, "done")
  /\ UNCHANGED <<edge, clipRow, clipAge, object, tries, doomed, clipFaults>>

FindsNone(w) ==
  /\ At(w, "admitted") /\ clipRow[EventOf(w)] = "none"
  /\ WorkerGoes(w, "absent")
  /\ UNCHANGED <<edge, clipRow, clipAge, object, job, tries, doomed, clipFaults>>

\* create and commit; vms_event_id is unique.
CreatesRow(w) ==
  /\ At(w, "absent") /\ clipRow[EventOf(w)] = "none"
  /\ clipRow' = [clipRow EXCEPT ![EventOf(w)] = "pending"]
  /\ clipAge' = [clipAge EXCEPT ![EventOf(w)] = 0]
  /\ WorkerGoes(w, "created")
  /\ UNCHANGED <<edge, object, job, tries, doomed, clipFaults>>

CreateConflicts(w) ==
  /\ At(w, "absent") /\ clipRow[EventOf(w)] # "none"
  /\ WorkerEnds(w)
  /\ Replies(w, IF edge THEN Again(EventOf(w)) ELSE "dropped")
  /\ UNCHANGED <<edge, clipRow, clipAge, object, tries, doomed, clipFaults>>

\* _update_status_isolated(STAGED); generate_and_upload goes to FAILED at once
\* when there is no snapshot.
StagesRow(w) ==
  /\ At(w, "created")
  /\ \/ /\ clipRow' = [clipRow EXCEPT ![EventOf(w)] = "staged"]
        /\ WorkerGoes(w, "staged") /\ UNCHANGED <<job, clipFaults>>
     \/ /\ clipRow' = [clipRow EXCEPT ![EventOf(w)] = "failed"]
        /\ WorkerEnds(w) /\ Replies(w, "done")
        /\ Strikes({EventOf(w)})
  /\ UNCHANGED <<edge, clipAge, object, tries, doomed>>

\* _upload_and_finalize: the object first, then the row.
Uploads(w) ==
  /\ At(w, "staged")
  /\ object' = object \union {EventOf(w)}
  /\ WorkerGoes(w, "stored")
  /\ UNCHANGED <<edge, clipRow, clipAge, job, tries, doomed, clipFaults>>

Finalizes(w) ==
  /\ At(w, "stored")
  /\ clipRow' = [clipRow EXCEPT ![EventOf(w)] = "uploaded"]
  /\ WorkerEnds(w) /\ Replies(w, "done")
  /\ UNCHANGED <<edge, clipAge, object, tries, doomed, clipFaults>>

\* Rendering, the upload or the last update raises: FAILED, and still a 200.
UploadFails(w) ==
  /\ At(w, "staged") \/ At(w, "stored")
  /\ clipRow' = [clipRow EXCEPT ![EventOf(w)] = "failed"]
  /\ WorkerEnds(w) /\ Replies(w, "done")
  /\ Strikes({EventOf(w)})
  /\ UNCHANGED <<edge, clipAge, object, tries, doomed>>

\* The process is killed, or its job cancelled: no handler runs.
Crashes(w) ==
  /\ ~At(w, "idle")
  /\ WorkerEnds(w) /\ Strikes({EventOf(w)})
  /\ Replies(w, Again(EventOf(w)))
  /\ UNCHANGED <<edge, clipRow, clipAge, object, tries, doomed>>

\* The 30 s of the edge's client are over while the VPS goes on; or the reply
\* is lost.
PutTimesOut(e) ==
  /\ edge /\ job[e] = "running"
  /\ Retries(e)
  /\ UNCHANGED <<edge, clipRow, clipAge, object, worker, tries, doomed, clipFaults>>

\* Nothing that runs now still runs a day later.
DayPasses ==
  /\ doomed = {} /\ \A w \in Workers : At(w, "idle")
  /\ \E e \in ClipEvents : clipRow[e] # "none" /\ clipAge[e] < MaxAge
  /\ clipAge' = [e \in ClipEvents |-> IF clipRow[e] # "none" /\ clipAge[e] < MaxAge THEN clipAge[e] + 1 ELSE clipAge[e]]
  /\ UNCHANGED <<edge, clipRow, object, worker, job, tries, doomed, clipFaults>>

\* task_cleanup_old_clips selects by the longest retention in use, and skips
\* the clips their own tenant still keeps.
Expired == {e \in ClipEvents : /\ clipRow[e] = "uploaded"
                               /\ clipAge[e] > LongestRetention /\ clipAge[e] > Retention[e]}

\* One after the other the objects are deleted; their rows go in one commit.
CleanupDeletes(e) ==
  /\ e \in Expired \ doomed
  /\ object' = object \ {e}
  /\ doomed' = doomed \union {e}
  /\ UNCHANGED <<edge, clipRow, clipAge, worker, job, tries, clipFaults>>

CleanupCommits ==
  /\ doomed # {}
  /\ clipRow' = [e \in ClipEvents |-> IF e \in doomed THEN "none" ELSE clipRow[e]]
  /\ doomed' = {}
  /\ UNCHANGED <<edge, clipAge, object, worker, job, tries, clipFaults>>

CleanupCrashes ==
  /\ doomed # {} /\ doomed' = {}
  /\ Strikes(doomed)
  /\ UNCHANGED <<edge, clipRow, clipAge, object, worker, job, tries>>

ClipsNext ==
  \/ \E e \in ClipEvents, w \in Workers : Starts(e, w)
  \/ \E e \in ClipEvents : NoClip(e) \/ PutTimesOut(e) \/ CleanupDeletes(e)
  \/ \E w \in Workers : \/ Admits(w) \/ FindsExisting(w) \/ FindsNone(w)
                        \/ CreatesRow(w) \/ CreateConflicts(w) \/ StagesRow(w)
                        \/ Uploads(w) \/ Finalizes(w) \/ UploadFails(w) \/ Crashes(w)
  \/ DayPasses \/ CleanupCommits \/ CleanupCrashes

ClipsSpec == ClipsInit /\ [][ClipsNext]_clipVars

(***************************************************************************)
(* Properties                                                              *)
(***************************************************************************)
\* What every variable may hold.
ClipsTypeOK ==
  /\ edge \in BOOLEAN /\ clipRow \in [ClipEvents -> ClipStatus \union {"none"}] /\ clipAge \in [ClipEvents -> 0..MaxAge]
  /\ \A s \in {object, doomed, clipFaults} : s \subseteq ClipEvents
  /\ worker \in [Workers -> [event : ClipEvents \union {Nothing},
       stage : {"idle", "received", "admitted", "absent", "created", "staged", "stored"},
       try : Nat]]
  /\ job \in [ClipEvents -> {"queued", "running", "done", "dropped"}]
  /\ \A e \in ClipEvents : tries[e] \in 0..MaxTries[e]

\* A clip that is shown as uploaded and that its tenant's licence still keeps
\* can be played, even if the cleanup dies between its deletions and its commit.
LiveClipsPlayable ==
  \A e \in ClipEvents : clipRow[e] = "uploaded" /\ clipAge[e] <= Retention[e] => e \in object

\* The quota of a tenant is overrun by no more than the uploads that run at
\* once, whatever is retried, late or lost.
OverrunBounded == edge /\ Quota > 0 => Used <= Quota + Cardinality(Workers) - 1

\* A clip the edge was told is there is uploaded, under way or past its
\* retention, and a row is left behind half done, only if a crash or the storage
\* struck that very clip: concurrent tries and timeouts alone lose nothing.
LostOnlyByFault ==
  \A e \in ClipEvents \ clipFaults :
    /\ clipRow[e] \in {"pending", "staged"} => Busy(e)
    /\ job[e] = "done" => clipRow[e] = "uploaded" \/ Busy(e) \/ clipAge[e] > Retention[e]

\* Clips that were promised are there and can be played, within the quota.
ClipsKept == LiveClipsPlayable /\ OverrunBounded /\ LostOnlyByFault
=============================================================================
