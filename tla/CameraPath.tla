----------------------------- MODULE CameraPath -----------------------------
(***************************************************************************)
(* One camera that the VPS serves: its row, its path in MediaMTX and the   *)
(* stream on that path.  Requests provision the path before they commit    *)
(* the row; the watchdog and the boot of the API provision it from rows    *)
(* they read; MediaMTX reports by webhook, the watchdog by polling.  Rows  *)
(* of other cameras matter only to the check for duplicates.               *)
(***************************************************************************)
EXTENDS Integers, FiniteSets

CONSTANTS CameraRequests,  \* API requests about the camera that run at once
          Grace,     \* OFFLINE_GRACE_SECONDS, in periods of the watchdog
          MaxEdits,  \* bound: requests that are started
          MaxFields, \* bound: fields one update changes
          NoPath     \* MediaMTX has no path of the camera

ASSUME CameraAssumption ==
  /\ Grace \in Nat \ {0} /\ MaxEdits \in Nat /\ MaxFields \in Nat
  /\ NoPath \notin [url : 0..1, rec : BOOLEAN]
  /\ CameraRequests \cap {"watchdog", "boot"} = {}

VARIABLES push,    \* stream_protocol: rtmp_push, else a source is pulled
          cameraRow,     \* the committed row
          path,    \* what MediaMTX was told about the path
          ready,   \* there is a stream on the path
          hooks,   \* webhooks on their way
          task,    \* request or background task -> what it is doing
          edits,   \* requests started
          polled,  \* has the watchdog run in this period
          streamAge,     \* periods since ready or is_active changed
          blind,   \* did list_paths fail in the last poll
          created, \* is the row there
          apart,   \* history: has something set path and row apart
          crossed, \* history: tasks under way while another changed path or row
          calm,    \* history: no path was lost and no row changed in this period
          stale    \* history: an old is_online was written back

cameraVars == <<push, cameraRow, path, ready, hooks, task, edits, polled, streamAge, blind,
                created, apart, crossed, calm, stale>>

Watchdog == "watchdog"
Boot == "boot"
Tasks == CameraRequests \union {Watchdog, Boot}
Urls == 0..1
Long == Grace + 2   \* ages are not counted further
Plus1(n) == IF n < Long THEN n + 1 ELSE Long

Rows == [active : BOOLEAN, url : Urls, rec : BOOLEAN, edge : BOOLEAN,
         online : BOOLEAN, seen : 0..Long]
NoRow == [active |-> FALSE, url |-> 0, rec |-> FALSE, edge |-> FALSE,
          online |-> FALSE, seen |-> Long]
Paths == [url : Urls, rec : BOOLEAN]
PathSteps == {"read", "get", "add", "delete", "re-add", "remove", "write", "commit", "status"}
IdleTask == [op |-> "idle", step |-> "read", draft |-> NoRow, force |-> FALSE, listed |-> FALSE]

Quiet == \A t \in Tasks : task[t].op = "idle"
TaskDoing(t, step) == task[t].op # "idle" /\ task[t].step = step
TaskGoes(t, step) == task' = [task EXCEPT ![t].step = step]
EndsTask(t) == task' = [task EXCEPT ![t] = IdleTask]
Draft(t) == task[t].draft
\* An UPDATE holds the row's lock until its transaction ends.
Locked == \E t \in CameraRequests : /\ task[t].op \in {"update", "delete"}
                                    /\ task[t].step \notin {"read", "write", "remove"}
Changed(new, old) == {f \in {"active", "url", "rec", "edge"} : new[f] # old[f]}
Excuse(if) == apart' = (apart \/ if)

\* A task calls MediaMTX or commits. When that changes something, whatever else
\* is under way has read what no longer is, and must not act on it.
Acts(t, changes) ==
  /\ Excuse(t \in crossed)
  /\ crossed' = IF changes THEN {u \in Tasks \ {t} : task[u].op # "idle"} ELSE crossed \ {t}
Leaves(t) == crossed' = crossed \ {t}

\* CameraRepository.create: a new camera is active and off line.
Inserted(rec, edge) == [NoRow EXCEPT !.active = TRUE, !.rec = rec, !.edge = edge]

\* The camera is still to be created, or it was, and perhaps deleted since, and
\* everything is settled.
CameraInit ==
  /\ push \in BOOLEAN
  /\ \/ cameraRow = NoRow /\ path = NoPath /\ created = FALSE
     \/ \E rec, edge, active \in BOOLEAN :
          /\ push => ~edge
          /\ cameraRow = [Inserted(rec, edge) EXCEPT !.active = active]
          /\ path = IF active /\ ~edge THEN [url |-> 0, rec |-> rec] ELSE NoPath
          /\ created = TRUE
  /\ ready = FALSE /\ hooks = {}
  /\ task = [t \in Tasks |-> IdleTask]
  /\ edits = 0 /\ polled = FALSE /\ streamAge = 0 /\ blind = FALSE
  /\ apart = FALSE /\ crossed = {} /\ calm = FALSE /\ stale = FALSE

(***************************************************************************)
(* MediaMTXClient.add_path, one HTTP call per action.  All failures are    *)
(* logged and swallowed.                                                   *)
(***************************************************************************)
\* Where a task goes on when add_path returns.
After(t) == CASE task[t].op = "watchdog" -> "status"
              [] task[t].op = "boot"     -> "end"
              [] OTHER                   -> "commit"
Returns(t) == IF After(t) = "end" THEN EndsTask(t) ELSE TaskGoes(t, After(t))
\* Mutant of Body: the record flag is not sent.
BodyUnrecorded(t) == [url |-> Draft(t).url, rec |-> FALSE]

Body(t) == [url |-> Draft(t).url, rec |-> Draft(t).rec]

\* A path that is known is left alone without force, whatever its source.
GetPath(t) ==
  /\ TaskDoing(t, "get")
  /\ IF path # NoPath /\ ~task[t].force
     THEN /\ Returns(t)
          /\ Excuse(path # Body(t))
     ELSE TaskGoes(t, "add") /\ UNCHANGED apart
  /\ UNCHANGED <<push, cameraRow, path, ready, hooks, edits, polled, streamAge, blind, created,
                 crossed, calm, stale>>

AddPath(t) ==
  /\ TaskDoing(t, "add") \/ TaskDoing(t, "re-add")
  /\ IF path = NoPath
     THEN path' = Body(t) /\ Returns(t)
     ELSE /\ IF task[t].step = "add" THEN TaskGoes(t, "delete") ELSE Returns(t)
          /\ UNCHANGED path
  /\ Acts(t, path = NoPath)
  /\ UNCHANGED <<push, cameraRow, ready, hooks, edits, polled, streamAge, blind, created, calm, stale>>

\* Whoever takes the path away ends its stream.
TakesPath ==
  /\ path' = NoPath /\ ready' = FALSE /\ calm' = FALSE
  /\ hooks' = IF ready THEN hooks \union {"off"} ELSE hooks
  /\ streamAge' = IF ready THEN 0 ELSE streamAge

DeletePath(t) ==
  /\ TaskDoing(t, "delete")
  /\ TakesPath /\ TaskGoes(t, "re-add") /\ Acts(t, TRUE)
  /\ UNCHANGED <<push, cameraRow, edits, polled, blind, created, stale>>

CallFails(t) ==
  /\ task[t].op # "idle" /\ task[t].step \in {"get", "add", "delete", "re-add"}
  /\ Returns(t) /\ Excuse(TRUE) /\ Leaves(t) /\ calm' = FALSE
  /\ UNCHANGED <<push, cameraRow, path, ready, hooks, edits, polled, streamAge, blind, created, stale>>

(***************************************************************************)
(* Requests                                                                *)
(***************************************************************************)
\* What the body of POST /cameras and of PATCH /cameras/{id} decides of; a body
\* may name the URL that the row has.
CreateBodies == [rec : BOOLEAN, edge : BOOLEAN]
UpdateBodies == [active : BOOLEAN, rec : BOOLEAN, edge : BOOLEAN, url : Urls, names : BOOLEAN]

\* create_camera: no active camera has the name or the URL, a push camera has no
\* agent; the row is flushed.
CreateCamera(r) ==
  /\ task[r].op = "idle" /\ ~created /\ edits < MaxEdits
  /\ \A t \in CameraRequests : task[t].op # "create"
  /\ \E body \in CreateBodies :
       LET edge == body.edge /\ ~push
       IN task' = [task EXCEPT ![r] =
            [op |-> "create", step |-> IF edge THEN "commit" ELSE "get",
             draft |-> Inserted(body.rec, edge), force |-> FALSE, listed |-> FALSE]]
  /\ edits' = edits + 1
  /\ UNCHANGED <<push, cameraRow, path, ready, hooks, polled, streamAge, blind, created, apart,
                 crossed, calm, stale>>

\* update_camera reads the whole row and will write all of it, whether or not it
\* is active.
ReadCamera(r) ==
  /\ task[r].op = "idle" /\ created /\ edits < MaxEdits
  /\ \E op \in {"update", "delete"} :
       task' = [task EXCEPT ![r] =
         [op |-> op, step |-> IF op = "update" THEN "write" ELSE "remove",
          draft |-> IF op = "update" THEN cameraRow ELSE NoRow,
          force |-> FALSE, listed |-> FALSE]]
  /\ edits' = edits + 1
  /\ UNCHANGED <<push, cameraRow, path, ready, hooks, polled, streamAge, blind, created, apart,
                 crossed, calm, stale>>

\* The fields the caller gives. A body that names the URL or changes the recording
\* provisions the path, of a deleted camera too; only the latter forces it.
\* Nothing is done about the path of a camera that is moved or switched off.
UpdateCamera(r) ==
  /\ TaskDoing(r, "write") /\ task[r].op = "update" /\ ~Locked
  /\ \E body \in UpdateBodies :
       LET old == Draft(r)
           new == [old EXCEPT !.active = body.active, !.rec = body.rec,
                              !.edge = body.edge, !.url = body.url]
           provisions == ~new.edge /\ (body.names \/ new.rec # old.rec)
       IN /\ push => ~new.edge /\ new.url = old.url
          /\ new.url # old.url => body.names
          /\ Cardinality(Changed(new, old)) <= MaxFields
          /\ task' = [task EXCEPT ![r] =
                [@ EXCEPT !.step = IF provisions THEN "get" ELSE "commit",
                          !.draft = new, !.force = new.rec # old.rec]]
          /\ Excuse(\/ new.edge # old.edge \/ new.active # old.active
                    \/ ~new.active /\ provisions)
  /\ UNCHANGED <<push, cameraRow, path, ready, hooks, edits, polled, streamAge, blind, created,
                 crossed, calm, stale>>

\* delete_camera: the path first, best effort, then a soft delete.
RemovePath(r) ==
  /\ TaskDoing(r, "remove")
  /\ \/ TakesPath /\ Acts(r, TRUE)
     \/ Excuse(TRUE) /\ UNCHANGED <<path, ready, hooks, streamAge, crossed, calm>>
  /\ TaskGoes(r, "write")
  /\ UNCHANGED <<push, cameraRow, edits, polled, blind, created, stale>>

DeleteCamera(r) ==
  /\ TaskDoing(r, "write") /\ task[r].op = "delete" /\ ~Locked
  /\ TaskGoes(r, "commit")
  /\ UNCHANGED <<push, cameraRow, path, ready, hooks, edits, polled, streamAge, blind, created,
                 apart, crossed, calm, stale>>

\* get_db commits when the handler has returned.
CommitCamera(r) ==
  /\ r \in CameraRequests /\ TaskDoing(r, "commit")
  /\ cameraRow' = IF task[r].op = "delete" THEN [cameraRow EXCEPT !.active = FALSE] ELSE Draft(r)
  /\ EndsTask(r) /\ Acts(r, TRUE)
  /\ created' = TRUE /\ calm' = FALSE
  /\ stale' = (stale \/ (task[r].op = "update" /\ Draft(r).online # cameraRow.online))
  /\ streamAge' = IF cameraRow'.active # cameraRow.active THEN 0 ELSE streamAge
  /\ UNCHANGED <<push, path, ready, hooks, edits, polled, blind>>

\* The request dies or its commit fails; what MediaMTX was told remains.
RollBack(r) ==
  /\ r \in CameraRequests /\ task[r].op # "idle"
  /\ EndsTask(r) /\ Excuse(TRUE) /\ Leaves(r)
  /\ UNCHANGED <<push, cameraRow, path, ready, hooks, edits, polled, streamAge, blind, created,
                 calm, stale>>

(***************************************************************************)
(* task_camera_watchdog and _provision_mediamtx_paths                      *)
(***************************************************************************)
Pulls == ~push /\ ~cameraRow.edge

\* list_paths fails with an empty list, which looks as if there were no path.
WatchdogReads ==
  /\ task[Watchdog].op = "idle" /\ ~polled
  /\ polled' = TRUE
  /\ \E works \in BOOLEAN :
       LET absent == ~works \/ path = NoPath
       IN /\ blind' = ~works
          /\ task' = IF cameraRow.active
                     THEN [task EXCEPT ![Watchdog] =
                            [op |-> "watchdog", step |-> IF absent /\ Pulls THEN "get" ELSE "status",
                             draft |-> cameraRow, force |-> FALSE, listed |-> works /\ ready]]
                     ELSE task
  /\ UNCHANGED <<push, cameraRow, path, ready, hooks, edits, streamAge, created, apart, crossed,
                 calm, stale>>

\* What it saw of the stream and of last_seen_at, as long ago as that may be.
WatchdogWrites ==
  /\ TaskDoing(Watchdog, "status") /\ ~Locked
  /\ cameraRow' = IF task[Watchdog].listed THEN [cameraRow EXCEPT !.online = TRUE, !.seen = 0]
            ELSE IF Draft(Watchdog).online /\ Draft(Watchdog).seen > Grace
                 THEN [cameraRow EXCEPT !.online = FALSE]
                 ELSE cameraRow
  /\ EndsTask(Watchdog) /\ Leaves(Watchdog)
  /\ stale' = (stale /\ task[Watchdog].listed # ready)
  /\ UNCHANGED <<push, path, ready, hooks, edits, polled, streamAge, blind, created, apart, calm>>

\* The API starts again: its requests are gone, all paths are reaffirmed.
BootReads ==
  /\ task[Boot].op = "idle" /\ edits < MaxEdits
  /\ \A t \in CameraRequests : task[t].op = "idle"
  /\ edits' = edits + 1
  /\ cameraRow.active /\ ~cameraRow.edge
  /\ task' = [task EXCEPT ![Boot] = [op |-> "boot", step |-> "get", draft |-> cameraRow,
                                     force |-> TRUE, listed |-> FALSE]]
  /\ UNCHANGED <<push, cameraRow, path, ready, hooks, polled, streamAge, blind, created, apart,
                 crossed, calm, stale>>

(***************************************************************************)
(* MediaMTX and its webhooks                                               *)
(***************************************************************************)
StreamChanges ==
  /\ path # NoPath
  /\ ready' = ~ready /\ streamAge' = 0
  /\ hooks' = hooks \union {IF ready THEN "off" ELSE "on"}
  /\ UNCHANGED <<push, cameraRow, path, task, edits, polled, blind, created, apart, crossed, calm,
                 stale>>

\* mediamtx_on_ready and mediamtx_on_not_ready; the caller is curl -s.
HookArrives(h) ==
  /\ h \in hooks /\ ~Locked /\ task[Boot].op = "idle"
  /\ hooks' = hooks \ {h}
  /\ \/ cameraRow' = IF ~created THEN cameraRow
               ELSE IF h = "on" THEN [cameraRow EXCEPT !.online = TRUE, !.seen = 0]
                    ELSE [cameraRow EXCEPT !.online = FALSE]
     \/ UNCHANGED cameraRow
  /\ UNCHANGED <<push, path, ready, task, edits, polled, streamAge, blind, created, apart, crossed,
                 calm, stale>>

\* What add_path said is not in mediamtx.yml.
MediaMTXRestarts ==
  /\ path # NoPath
  /\ path' = NoPath /\ ready' = FALSE /\ calm' = FALSE
  /\ streamAge' = IF ready THEN 0 ELSE streamAge
  /\ Excuse(TRUE)
  /\ UNCHANGED <<push, cameraRow, hooks, task, edits, polled, blind, created, crossed, stale>>

\* A period of the watchdog passes; bound: tasks and hooks are faster.
NextPeriod ==
  /\ polled /\ Quiet /\ hooks = {}
  /\ polled' = FALSE /\ calm' = TRUE
  /\ streamAge' = Plus1(streamAge)
  /\ cameraRow' = [cameraRow EXCEPT !.seen = Plus1(@)]
  /\ UNCHANGED <<push, path, ready, hooks, task, edits, blind, created, apart, crossed, stale>>

CameraNext ==
  \/ \E t \in Tasks : GetPath(t) \/ AddPath(t) \/ DeletePath(t) \/ CallFails(t)
  \/ \E r \in CameraRequests : \/ CreateCamera(r) \/ ReadCamera(r) \/ UpdateCamera(r)
                               \/ RemovePath(r) \/ DeleteCamera(r) \/ CommitCamera(r) \/ RollBack(r)
  \/ WatchdogReads \/ WatchdogWrites \/ BootReads
  \/ StreamChanges \/ MediaMTXRestarts \/ NextPeriod
  \/ \E h \in hooks : HookArrives(h)

CameraSpec == CameraInit /\ [][CameraNext]_cameraVars

-----------------------------------------------------------------------------
\* Types of the state.
CameraTypeOK ==
  /\ push \in BOOLEAN /\ ready \in BOOLEAN /\ polled \in BOOLEAN
  /\ cameraRow \in Rows /\ path \in Paths \union {NoPath}
  /\ hooks \subseteq {"on", "off"}
  /\ task \in [Tasks -> [op : {"idle", "create", "update", "delete", "watchdog", "boot"},
                         step : PathSteps, draft : Rows, force : BOOLEAN, listed : BOOLEAN]]
  /\ created \in BOOLEAN /\ apart \in BOOLEAN /\ stale \in BOOLEAN /\ calm \in BOOLEAN
  /\ crossed \subseteq {t \in Tasks : task[t].op # "idle"}
  /\ edits \in 0..MaxEdits /\ streamAge \in 0..Long /\ blind \in BOOLEAN
  /\ (ready => path # NoPath) /\ (push => ~cameraRow.edge)

\* Once nothing is running, MediaMTX serves exactly the cameras that are active
\* and not at the edge, from the source and with the recording their rows say,
\* however requests, watchdog and boot overlapped, unless one acted after another
\* had changed the path or the row under it, a call failed or a request died,
\* MediaMTX was restarted, or one of the updates was made that do not bring the
\* path to the row: a new URL of a path that is live, a move to or from an agent,
\* a change of is_active, or any of a camera that is not active that names its
\* URL or changes its recording, which gives it a path (add_path, update_camera,
\* delete_camera).
PathFollowsRow ==
  Quiet /\ ~apart =>
    path = IF cameraRow.active /\ ~cameraRow.edge
           THEN [url |-> cameraRow.url, rec |-> cameraRow.rec] ELSE NoPath

\* is_online catches up with the stream of an active camera, webhook or not:
\* with its end within the grace period and two polls, with its start within
\* two polls unless list_paths keeps failing (task_camera_watchdog).  Only an
\* update_camera that writes back the is_online it had read delays either.
StatusCatchesUp ==
  Quiet /\ polled /\ cameraRow.active /\ ~stale =>
    /\ ~ready /\ streamAge > Grace + 1 => ~cameraRow.online
    /\ ready /\ streamAge >= 1 => cameraRow.online \/ blind

\* Whatever went wrong before, of failed calls, restarts of MediaMTX and tasks that
\* crossed, the watchdog leaves an active camera that is pulled with a path in
\* each period in which no call fails, nobody takes the path away and no request
\* commits (task_camera_watchdog).  Which source that path has is another matter:
\* the watchdog does not look, and never takes the path of a deleted camera away.
PathComesBack ==
  Quiet /\ polled /\ calm /\ cameraRow.active /\ Pulls => path # NoPath

\* What MediaMTX serves follows the row, is there again after a loss, and the
\* row's status follows the stream.
RowAndPathAgree == PathFollowsRow /\ PathComesBack /\ StatusCatchesUp
=============================================================================
