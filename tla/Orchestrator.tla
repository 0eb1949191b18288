---------------------------- MODULE Orchestrator ----------------------------
(***************************************************************************)
(* The analytics orchestrator: a discovery loop that starts and cancels    *)
(* one asyncio task per camera, the tasks that read frames, the batch loop *)
(* that infers on the frames of several cameras at once, and the detection *)
(* cache that decides which results reach the plugins.                     *)
(*                                                                         *)
(* A step is what a coroutine does between two awaits.  A frame is its     *)
(* camera, its number and whether something is to be detected in it; a     *)
(* future is known by its frame, and its value is answer[c] for as long as *)
(* the task of c waits.                                                    *)
(***************************************************************************)
EXTENDS Naturals, Sequences

CONSTANTS
    Cameras,          \* camera ids
    Plugins,          \* the loaded plugins that share the inference
    OtherPlugin,      \* one that may be installed and is not loaded
    QueueSize,        \* Queue(maxsize=64) of Orchestrator.__init__
    MaxBatch,         \* Orchestrator._MAX_BATCH
    MaxEmptyFrames,   \* max_empty_frames of DetectionCache
    MaxFrames,        \* bound: frames read per camera
    MaxChanges,       \* bound: changes of the world
    MaxMishaps        \* bound: failed requests, failed batches, timeouts

ASSUME OrchestratorAssumption ==
    /\ QueueSize \in Nat \ {0} /\ MaxBatch \in Nat \ {0}
    /\ MaxEmptyFrames \in Nat \ {0} /\ MaxFrames \in Nat
    /\ MaxChanges \in Nat /\ MaxMishaps \in Nat
    /\ Plugins # {} /\ OtherPlugin \notin Plugins

VARIABLES
    shown,       \* what GET /plugins/cameras would answer: the cameras on line
    readable,    \* the cameras whose RTSP stream opens and yields frames
    installed,   \* camera -> the plugins with a running installation
    listed,      \* the cameras on line in the list the discovery loop holds
    polling,     \* "asleep" or "zones": fetching the zones, list in hand
    camTask,     \* _camera_tasks: "none", or how far the camera's task is
    active,      \* the plugins that the camera's task hands frames to
    frame,       \* the last frame the camera's task read
    answer,      \* its future: "none", "pending", "busy", "empty", "broken",
                 \* or "late" once wait_for has given it up
    frameQueue,  \* _frame_queue
    batch,       \* the frames _batch_inference_loop has collected
    hadSome,     \* last_detections_count > 0 in the cache's CameraState
    empties,     \* empty_frame_count
    view,        \* the plugins to which the last frame they got showed something
    behind,      \* the plugins without the last frame that the cache let through
    changes, mishaps

orchVars == <<shown, readable, installed, listed, polling, camTask, active, frame, answer,
              frameQueue, batch, hadSome, empties, view, behind, changes, mishaps>>

worldVars == <<shown, readable, installed, changes>>
pollVars  == <<listed, polling>>
cacheVars == <<hadSome, empties, view, behind>>

Frames    == [camera : Cameras, no : 0..MaxFrames, busy : BOOLEAN]
TaskSteps == {"none", "opening", "filtering", "reading", "posting", "waiting",
              "telling", "over"}
FutureStates   == {"none", "pending", "busy", "empty", "broken", "late"}

\* Type invariant.
OrchTypeOK ==
    /\ shown \subseteq Cameras /\ readable \subseteq Cameras
    /\ installed \in [Cameras -> SUBSET (Plugins \cup {OtherPlugin})]
    /\ active \in [Cameras -> SUBSET Plugins] /\ listed \subseteq Cameras
    /\ polling \in {"asleep", "zones"}
    /\ camTask \in [Cameras -> TaskSteps]
    /\ frame \in [Cameras -> Frames] /\ answer \in [Cameras -> FutureStates]
    /\ frameQueue \in Seq(Frames) /\ Len(frameQueue) <= QueueSize
    /\ batch \in Seq(Frames) /\ Len(batch) <= MaxBatch
    /\ hadSome \in [Cameras -> BOOLEAN]
    /\ empties \in [Cameras -> 0..MaxEmptyFrames]
    /\ view \in [Cameras -> SUBSET Plugins] /\ behind \in [Cameras -> SUBSET Plugins]
    /\ changes \in 0..MaxChanges /\ mishaps \in 0..MaxMishaps

OrchInit ==
    /\ shown \in SUBSET Cameras /\ readable = shown
    /\ installed = [c \in Cameras |-> Plugins] /\ active = [c \in Cameras |-> {}]
    /\ listed = {} /\ polling = "asleep"
    /\ camTask = [c \in Cameras |-> "none"]
    /\ frame = [c \in Cameras |-> [camera |-> c, no |-> 0, busy |-> FALSE]]
    /\ answer = [c \in Cameras |-> "none"]
    /\ frameQueue = <<>> /\ batch = <<>>
    /\ hadSome = [c \in Cameras |-> FALSE]
    /\ empties = [c \in Cameras |-> 0]
    /\ view = [c \in Cameras |-> {}] /\ behind = [c \in Cameras |-> {}]
    /\ changes = 0 /\ mishaps = 0

Toggle(S, c) == IF c \in S THEN S \ {c} ELSE S \cup {c}

Mishap == mishaps < MaxMishaps /\ mishaps' = mishaps + 1

-----------------------------------------------------------------------------
(* The environment. *)

\* A camera goes on or off line, its stream starts or stops to be readable,
\* an operator installs and removes plugins for it.
WorldChanges(c) ==
    /\ changes < MaxChanges
    /\ changes' = changes + 1
    /\ \/ shown' = Toggle(shown, c) /\ UNCHANGED <<readable, installed>>
       \/ readable' = Toggle(readable, c) /\ UNCHANGED <<shown, installed>>
       \/ /\ \E names \in SUBSET (Plugins \cup {OtherPlugin}) :
               installed' = [installed EXCEPT ![c] = names]
          /\ UNCHANGED <<shown, readable>>
    /\ UNCHANGED <<pollVars, active, camTask, frame, answer, frameQueue, batch,
                   cacheVars, mishaps>>

-----------------------------------------------------------------------------
(* The discovery loop. *)

\* list_cameras: in an error it answers with the last list it got.
PollLists ==
    /\ polling = "asleep"
    /\ polling' = "zones"
    /\ \/ listed' = shown /\ UNCHANGED mishaps
       \/ Mishap /\ UNCHANGED listed
    /\ UNCHANGED <<worldVars, active, camTask, frame, answer, frameQueue, batch,
                   cacheVars>>

\* A task is created for a camera on line that has none.  A task that has
\* returned or raised still is in _camera_tasks.
Started  == {c \in listed : camTask[c] = "none"}
Dropped  == {c \in Cameras \ listed : camTask[c] # "none"}

\* _maybe_start_camera_task for every camera, then the tasks of the cameras
\* that left are cancelled; a cancelled wait cancels its future.
PollApplies ==
    /\ polling = "zones"
    /\ polling' = "asleep"
    /\ camTask' = [c \in Cameras |-> CASE c \in Started -> "opening"
                                       [] c \in Dropped -> "none"
                                       [] OTHER -> camTask[c]]
    /\ answer' = [c \in Cameras |->
                    IF c \in Started \cup Dropped THEN "none" ELSE answer[c]]
    /\ UNCHANGED <<worldVars, listed, active, frame, frameQueue, batch, cacheVars,
                   mishaps>>

-----------------------------------------------------------------------------
(* The task of a camera. *)

Steps(c, step) == camTask' = [camTask EXCEPT ![c] = step]

\* source.open(): when the stream does not open the task returns.
OpenStream(c) ==
    /\ camTask[c] = "opening"
    /\ Steps(c, IF c \in readable THEN "filtering" ELSE "over")
    /\ UNCHANGED <<worldVars, pollVars, active, frame, answer, frameQueue, batch,
                   cacheVars, mishaps>>

\* get_active_plugins_for_camera: a failed request is answered as no plugin, and
\* no plugin as every plugin.  The task returns when none that is loaded is named.
FilterPlugins(c) ==
    /\ camTask[c] = "filtering"
    /\ \E names \in {installed[c], {}} :
         LET named == IF names = {} THEN Plugins ELSE names \cap Plugins
         IN /\ IF names = installed[c] THEN UNCHANGED mishaps ELSE Mishap
            /\ active' = [active EXCEPT ![c] = named]
            /\ Steps(c, IF named = {} THEN "over" ELSE "reading")
    /\ UNCHANGED <<worldVars, pollVars, frame, answer, frameQueue, batch,
                   cacheVars>>

\* source.read() yields a frame; while the stream is lost it reconnects and
\* yields none.
ReadFrame(c, busy) ==
    /\ camTask[c] = "reading" /\ c \in readable
    /\ frame[c].no < MaxFrames
    /\ frame' = [frame EXCEPT ![c] = [camera |-> c, no |-> @.no + 1,
                                      busy |-> busy]]
    /\ Steps(c, "posting")
    /\ UNCHANGED <<worldVars, pollVars, active, answer, frameQueue, batch, cacheVars,
                   mishaps>>

\* The refresh of the zones raises what list_rois does not catch, such as a
\* body that is no JSON: nothing in the task catches it either.
RefreshRaises(c) ==
    /\ camTask[c] = "reading"
    /\ Mishap
    /\ Steps(c, "over")
    /\ UNCHANGED <<worldVars, pollVars, active, frame, answer, frameQueue, batch,
                   cacheVars>>

\* Mutant of PostFrame: a queue without a maximal size.
PostFrameUnbounded(c) ==
    /\ camTask[c] = "posting"
    /\ frameQueue' = Append(frameQueue, frame[c])
    /\ answer' = [answer EXCEPT ![c] = "pending"]
    /\ Steps(c, "waiting")
    /\ UNCHANGED <<worldVars, pollVars, active, frame, batch, cacheVars, mishaps>>

\* await _frame_queue.put(...) of the frame with a new future.
PostFrame(c) ==
    /\ camTask[c] = "posting"
    /\ Len(frameQueue) < QueueSize
    /\ frameQueue' = Append(frameQueue, frame[c])
    /\ answer' = [answer EXCEPT ![c] = "pending"]
    /\ Steps(c, "waiting")
    /\ UNCHANGED <<worldVars, pollVars, active, frame, batch, cacheVars, mishaps>>

\* wait_for(future, 30.0) gives up: the frame counts as one without detections.
AnswerLate(c) ==
    /\ camTask[c] = "waiting" /\ answer[c] = "pending"
    /\ Mishap
    /\ answer' = [answer EXCEPT ![c] = "late"]
    /\ UNCHANGED <<worldVars, pollVars, active, camTask, frame, frameQueue, batch,
                   cacheVars>>

Detected(c) == answer[c] = "busy"

\* DetectionCache.should_process: something was detected, or had been before.
ShouldProcess(c) == Detected(c) \/ hadSome[c]

\* The plugin gets the frame.  What it raises is logged and goes no further.
Tell(c, plugin) ==
    view' = [view EXCEPT ![c] = IF Detected(c) THEN @ \cup {plugin} ELSE @ \ {plugin}]

\* The cache takes note of the result, and if it lets the frame through the first
\* plugin gets it at once.
HandleAnswer(c) ==
    /\ camTask[c] = "waiting" /\ answer[c] \in {"busy", "empty", "late"}
    /\ IF ShouldProcess(c)
       THEN /\ \E plugin \in active[c] :
                 /\ Tell(c, plugin)
                 /\ behind' = [behind EXCEPT ![c] = Plugins \ {plugin}]
            /\ Steps(c, "telling")
       ELSE Steps(c, "reading") /\ UNCHANGED <<view, behind>>
    /\ hadSome' = [hadSome EXCEPT ![c] = Detected(c)]
    /\ empties' = [empties EXCEPT ![c] =
                     CASE Detected(c) -> 0
                       [] hadSome[c]  -> 1
                       [] OTHER       -> (@ + 1) % MaxEmptyFrames]
    /\ UNCHANGED <<worldVars, pollVars, active, frame, answer, frameQueue, batch,
                   mishaps>>

\* The others get it one after another; snapshots and results are awaited in
\* between, and the task may be cancelled there.
TellNext(c) ==
    /\ camTask[c] = "telling"
    /\ \/ \E plugin \in active[c] \cap behind[c] :
            /\ Tell(c, plugin)
            /\ behind' = [behind EXCEPT ![c] = @ \ {plugin}]
            /\ UNCHANGED camTask
       \/ active[c] \cap behind[c] = {} /\ Steps(c, "reading") /\ UNCHANGED <<view, behind>>
    /\ UNCHANGED <<worldVars, pollVars, active, frame, answer, frameQueue, batch,
                   hadSome, empties, mishaps>>

\* set_exception on the future: the task catches a timeout only, and ends.
AnswerBroken(c) ==
    /\ camTask[c] = "waiting" /\ answer[c] = "broken"
    /\ Steps(c, "over")
    /\ UNCHANGED <<worldVars, pollVars, active, frame, answer, frameQueue, batch,
                   cacheVars, mishaps>>

-----------------------------------------------------------------------------
(* The batch loop. *)

\* Takes one more frame within the window of the batch.
CollectFrame ==
    /\ frameQueue # <<>> /\ Len(batch) < MaxBatch
    /\ batch' = Append(batch, Head(frameQueue))
    /\ frameQueue' = Tail(frameQueue)
    /\ UNCHANGED <<worldVars, pollVars, active, camTask, frame, answer, cacheVars,
                   mishaps>>

\* Mutant of Pending: futures are looked up by camera.
PendingOfCamera(f) ==
    camTask[f.camera] = "waiting" /\ answer[f.camera] = "pending"

\* The future of a frame is resolved unless it is done: given up, cancelled.
Pending(f) ==
    /\ camTask[f.camera] = "waiting" /\ answer[f.camera] = "pending"
    /\ frame[f.camera].no = f.no

\* By each pending future of the batch, what its frame shows.
Resolved(outcome) ==
    [c \in Cameras |->
        IF \E i \in DOMAIN batch : batch[i].camera = c /\ Pending(batch[i])
        THEN outcome[CHOOSE i \in DOMAIN batch :
                     batch[i].camera = c /\ Pending(batch[i])]
        ELSE answer[c]]

\* predict_batch on the frames, under the GPU semaphore: one list of
\* detections per frame, or one exception for all of them.
Infer ==
    /\ batch # <<>>
    /\ batch' = <<>>
    /\ \/ answer' = Resolved([i \in DOMAIN batch |->
                                IF batch[i].busy THEN "busy" ELSE "empty"])
          /\ UNCHANGED mishaps
       \/ Mishap /\ answer' = Resolved([i \in DOMAIN batch |-> "broken"])
    /\ UNCHANGED <<worldVars, pollVars, active, camTask, frame, frameQueue, cacheVars>>

-----------------------------------------------------------------------------
DiscoveryLoop == PollLists \/ PollApplies

BatchLoop == CollectFrame \/ Infer

CameraTask(c) ==
    \/ OpenStream(c) \/ FilterPlugins(c)
    \/ \E busy \in BOOLEAN : ReadFrame(c, busy)
    \/ RefreshRaises(c) \/ PostFrame(c) \/ AnswerLate(c)
    \/ HandleAnswer(c) \/ TellNext(c) \/ AnswerBroken(c)

OrchNext ==
    \/ DiscoveryLoop \/ BatchLoop
    \/ \E c \in Cameras : CameraTask(c) \/ WorldChanges(c)

OrchSpec == OrchInit /\ [][OrchNext]_orchVars

-----------------------------------------------------------------------------
(* Properties. *)

\* Through the queue, the batches, the timeouts and the cache, each plugin of a
\* camera thinks of its scene what the camera's own last frame showed, or that it
\* is empty when the wait for that frame was given up.  Only a plugin that was
\* not active, or not yet told when the task was cancelled, while the others were
\* told that the scene is empty may go on seeing something there, until the next
\* detection; none ever misses what the last frame showed.
SeesItsOwnFrame ==
    \A c \in Cameras : camTask[c] = "reading" /\ answer[c] # "none" =>
        LET shows == frame[c].busy /\ answer[c] # "late"
        IN \A plugin \in active[c] :
               \/ (plugin \in view[c]) = shows
               \/ ~shows /\ plugin \in behind[c]
=============================================================================
