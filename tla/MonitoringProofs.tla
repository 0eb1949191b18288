-------------------------- MODULE MonitoringProofs --------------------------
(***************************************************************************)
(* What users are told of their cameras: proofs for each part from the     *)
(* stream to the alarm, for any number of cameras, requests, tracks,       *)
(* processes and zones, and for all of them together.                      *)
(***************************************************************************)
EXTENDS MCMonitoring, FiniteSetTheorems, SequenceTheorems, TLAPS

(***************************************************************************)
(* CameraPath: row and path agree. The inductive invariant says how far a  *)
(* task that nobody has crossed has brought the path to the row, and that  *)
(* one that was crossed has yet to act; when the watchdog has yet to add   *)
(* the path; and what row, drafts and watchdog know of the stream by its   *)
(* age.                                                                    *)
(***************************************************************************)
TaskRecords == [op : {"idle", "create", "update", "delete", "watchdog", "boot"},
                step : PathSteps, draft : Rows, force : BOOLEAN, listed : BOOLEAN]

\* What MediaMTX should serve for a row, and what of a row that depends on.
Served(row) == IF row.active /\ ~row.edge THEN [url |-> row.url, rec |-> row.rec] ELSE NoPath
SamePlace(a, b) == a.active = b.active /\ a.url = b.url /\ a.rec = b.rec /\ a.edge = b.edge

\* What a task does, and which rows it may hold.
OpsOf(t) == IF t = Watchdog THEN {"idle", "watchdog"}
            ELSE IF t = Boot THEN {"idle", "boot"}
            ELSE {"idle", "create", "update", "delete"}
TaskOK(t) ==
  /\ task[t].op \in OpsOf(t)
  /\ task[t].op = "idle" => task[t] = IdleTask
  /\ push => ~task[t].draft.edge
  /\ task[t].op = "create" => ~created /\ task[t].draft.active
  /\ task[t].op \in {"update", "delete"} => created
  /\ task[t].op = "boot" => task[t].force
OneCreates == \A t, u \in Tasks : task[t].op = "create" /\ task[u].op = "create" => t = u
TasksOK == (\A t \in Tasks : TaskOK(t)) /\ OneCreates /\ (~created => ~cameraRow.active)

\* How far a task k that nobody has crossed has brought the path p to the row.
ProvisionOK(k, p, row) ==
  /\ k.step \in {"write", "get", "add", "delete", "re-add", "commit"}
  /\ k.step = "write" => p = Served(row) /\ SamePlace(k.draft, row)
  /\ k.step \in {"get", "add", "delete", "re-add"} => k.draft.active /\ ~k.draft.edge
  /\ k.step = "commit" => p = Served(k.draft)
RemovalOK(k, p) ==
  k.step \in {"remove", "write", "commit"} /\ (k.step # "remove" => p = NoPath)
PollOK(k, p, row) ==
  /\ p = Served(row) /\ row.active /\ k.step \in {"get", "status"}
  /\ k.step = "get" => SamePlace(k.draft, row) /\ ~k.draft.edge /\ ~k.force
BootOK(k, row) ==
  /\ SamePlace(k.draft, row) /\ row.active /\ ~row.edge
  /\ k.step \in {"get", "add", "delete", "re-add"}
StepOK(k, p, row) ==
  /\ k.op \in {"create", "update"} => ProvisionOK(k, p, row)
  /\ k.op = "delete" => RemovalOK(k, p)
  /\ k.op = "watchdog" => PollOK(k, p, row)
  /\ k.op = "boot" => BootOK(k, row)
  /\ k.step = "re-add" => p = NoPath
\* A request or a boot cannot end without a call that tells, nor can a watchdog
\* that has set out to add the path.
Owes(k) == k.op \notin {"idle", "watchdog"}
MustAct(k) == Owes(k) \/ (k.op = "watchdog" /\ k.step \in {"add", "delete", "re-add"})
Doomed == \E t \in crossed : MustAct(task[t])
Arrived == /\ path = Served(cameraRow)
           /\ \A t \in Tasks \ crossed :
                task[t].op # "idle" => StepOK(task[t], path, cameraRow)
Underway == \E t \in Tasks \ crossed : Owes(task[t]) /\ StepOK(task[t], path, cameraRow)
OnTheWay == ~apart => Doomed \/ Arrived \/ Underway

\* A path that is gone is one that the watchdog has found gone.
Finding == task[Watchdog].op # "idle" /\ task[Watchdog].step \in {"get", "add"}
ComesBack == calm /\ polled /\ cameraRow.active /\ Pulls => path # NoPath \/ Finding

\* What the row, the drafts and the watchdog know of a stream that has been up,
\* or down, for some periods.
Dark == ~ready /\ streamAge > Grace + 1
Bright == ready /\ streamAge > 0
Polling == task[Watchdog].op # "idle"
Shown == ~Polling /\ polled /\ cameraRow.active /\ ~stale
SeenBefore == ~ready => /\ cameraRow.seen >= streamAge
                        /\ \A t \in Tasks : task[t].draft.seen >= streamAge
PollIsTrue ==
  /\ ~ready /\ streamAge > 0 => ~task[Watchdog].listed
  /\ Polling => polled
DarkIsShown ==
  Dark => /\ Shown => ~cameraRow.online
          /\ Polling /\ cameraRow.online => task[Watchdog].draft.online
          /\ ~polled \/ Polling =>
               \A t \in Tasks : task[t].op = "update" => task[t].draft.online = cameraRow.online
BrightIsShown ==
  Bright => /\ Polling => task[Watchdog].listed \/ blind
            /\ Shown => cameraRow.online \/ blind
StatusFollows ==
  /\ hooks # {} => streamAge = 0
  /\ SeenBefore /\ PollIsTrue /\ DarkIsShown /\ BrightIsShown

\* The inductive invariant of a camera's path and status.
CamInv == CameraTypeOK /\ TasksOK /\ OnTheWay /\ StatusFollows /\ ComesBack

LEMMA GraceIsNumber == Grace \in Nat /\ Grace > 0 /\ Long \in Nat /\ Long = Grace + 2
                       /\ Long > Grace + 1 /\ MaxEdits \in Nat
BY CameraAssumption DEF Long

LEMMA TwoBackgroundTasks ==
  /\ Watchdog \in Tasks /\ Boot \in Tasks /\ Watchdog # Boot
  /\ \A r \in CameraRequests : r \in Tasks /\ r # Watchdog /\ r # Boot
BY CameraAssumption DEF Tasks, Watchdog, Boot

LEMMA AgesGrow ==
  \A n \in 0..Long : Plus1(n) \in 0..Long /\ Plus1(n) >= n /\ (\A m \in 0..Long : m >= n => Plus1(m) >= Plus1(n))
BY GraceIsNumber DEF Plus1

\* A row and what its fields hold.
LEMMA RowFields ==
  ASSUME NEW row \in Rows
  PROVE  /\ row.active \in BOOLEAN /\ row.rec \in BOOLEAN /\ row.edge \in BOOLEAN
         /\ row.online \in BOOLEAN /\ row.url \in Urls /\ row.seen \in 0..Long
BY DEF Rows

LEMMA IdleTaskHolds ==
  /\ NoRow \in Rows /\ IdleTask \in TaskRecords /\ IdleTask.op = "idle"
  /\ IdleTask.draft = NoRow /\ IdleTask.listed = FALSE
  /\ NoRow.active = FALSE /\ NoRow.edge = FALSE /\ NoRow.online = FALSE /\ NoRow.seen = Long
<1>1. FALSE \in BOOLEAN
  OBVIOUS
<1>2. Long \in 0..Long /\ 0 \in Urls
  BY GraceIsNumber DEF Urls
<1>3. NoRow \in Rows
  BY <1>1, <1>2 DEF NoRow, Rows
<1>4. "read" \in PathSteps
  BY DEF PathSteps
<1>5. IdleTask \in TaskRecords
  BY <1>1, <1>3, <1>4 DEF IdleTask, TaskRecords
<1>6. IdleTask.op = "idle" /\ IdleTask.draft = NoRow /\ IdleTask.listed = FALSE
  BY DEF IdleTask
<1>7. NoRow.active = FALSE /\ NoRow.edge = FALSE /\ NoRow.online = FALSE /\ NoRow.seen = Long
  BY DEF NoRow
<1> QED
  BY <1>3, <1>5, <1>6, <1>7

LEMMA InsertedHolds ==
  ASSUME NEW rec \in BOOLEAN, NEW edge \in BOOLEAN
  PROVE  /\ Inserted(rec, edge) \in Rows
         /\ Inserted(rec, edge).active = TRUE /\ Inserted(rec, edge).edge = edge
         /\ Inserted(rec, edge).rec = rec /\ Inserted(rec, edge).url = 0
         /\ Inserted(rec, edge).online = FALSE /\ Inserted(rec, edge).seen = Long
<1>1. NoRow \in Rows /\ NoRow.url = 0 /\ NoRow.online = FALSE /\ NoRow.seen = Long
  BY IdleTaskHolds DEF NoRow
<1>2. Inserted(rec, edge) \in Rows
  BY <1>1 DEF Inserted, Rows
<1>3. /\ Inserted(rec, edge).active = TRUE /\ Inserted(rec, edge).edge = edge
      /\ Inserted(rec, edge).rec = rec /\ Inserted(rec, edge).url = 0
      /\ Inserted(rec, edge).online = FALSE /\ Inserted(rec, edge).seen = Long
  BY <1>1 DEF Inserted, Rows
<1> QED
  BY <1>2, <1>3

LEMMA CameraTypes ==
  ASSUME CameraTypeOK
  PROVE  /\ cameraRow \in Rows /\ task \in [Tasks -> TaskRecords]
         /\ \A t \in Tasks : task[t] \in TaskRecords /\ task[t].draft \in Rows
         /\ path \in Paths \union {NoPath} /\ hooks \subseteq {"on", "off"}
         /\ streamAge \in 0..Long /\ edits \in 0..MaxEdits
<1>1. task \in [Tasks -> TaskRecords]
  BY DEF CameraTypeOK, TaskRecords
<1>2. ASSUME NEW t \in Tasks PROVE task[t] \in TaskRecords /\ task[t].draft \in Rows
  <2>1. task[t] \in TaskRecords
    BY <1>1
  <2> QED
    BY <2>1 DEF TaskRecords
<1> QED
  BY <1>1, <1>2 DEF CameraTypeOK

LEMMA BodyIsAPath ==
  ASSUME CameraTypeOK, NEW t \in Tasks
  PROVE  /\ Body(t) \in Paths /\ Body(t) # NoPath
         /\ Body(t) = [url |-> task[t].draft.url, rec |-> task[t].draft.rec]
<1>1. task[t].draft.url \in Urls /\ task[t].draft.rec \in BOOLEAN
  BY CameraTypes, RowFields
<1>2. Body(t) = [url |-> task[t].draft.url, rec |-> task[t].draft.rec]
  BY DEF Body, Draft
<1>3. Body(t) \in Paths
  BY <1>1, <1>2 DEF Paths
<1>4. Body(t) # NoPath
  BY <1>3, CameraAssumption DEF Paths, Urls
<1> QED
  BY <1>2, <1>3, <1>4

LEMMA ServedIsAPath ==
  ASSUME NEW row \in Rows, Served(row) # NoPath
  PROVE  row.active /\ ~row.edge
BY DEF Served

LEMMA ServedOfAnActiveRow ==
  ASSUME NEW row \in Rows, row.active, ~row.edge
  PROVE  Served(row) = [url |-> row.url, rec |-> row.rec] /\ Served(row) # NoPath
<1>1. Served(row) = [url |-> row.url, rec |-> row.rec]
  BY DEF Served
<1>2. [url |-> row.url, rec |-> row.rec] \in Paths
  BY RowFields DEF Paths
<1> QED
  BY <1>1, <1>2, CameraAssumption DEF Paths, Urls

LEMMA SamePlaceSamePath ==
  ASSUME NEW a, NEW b, SamePlace(a, b)
  PROVE  Served(a) = Served(b)
BY DEF SamePlace, Served

-----------------------------------------------------------------------------
(* One task moves. *)

LEMMA OneTaskMoves ==
  ASSUME CameraTypeOK, NEW t \in Tasks, NEW k \in TaskRecords, task' = [task EXCEPT ![t] = k]
  PROVE  /\ task' \in [Tasks -> TaskRecords] /\ task'[t] = k
         /\ \A u \in Tasks : u # t => task'[u] = task[u]
BY CameraTypes

\* What is left of the types when one task has moved.
LEMMA TypesKept ==
  ASSUME CameraTypeOK, task' \in [Tasks -> TaskRecords], push' = push,
         ready' \in BOOLEAN, polled' \in BOOLEAN, cameraRow' \in Rows,
         path' \in Paths \union {NoPath}, hooks' \subseteq {"on", "off"},
         created' \in BOOLEAN, apart' \in BOOLEAN, stale' \in BOOLEAN, blind' \in BOOLEAN,
         edits' \in 0..MaxEdits, streamAge' \in 0..Long,
         ready' => path' # NoPath, push => ~cameraRow'.edge,
         calm' \in BOOLEAN, crossed' \subseteq {t \in Tasks : task'[t].op # "idle"}
  PROVE  CameraTypeOK'
BY DEF CameraTypeOK, TaskRecords

\* Whom a step of task t leaves crossed.
CrossedMoves(t) == \/ crossed' = crossed \/ crossed' = crossed \ {t}
                   \/ crossed' = {u \in Tasks \ {t} : task[u].op # "idle"}

LEMMA CrossedKept ==
  ASSUME CameraTypeOK, NEW t \in Tasks, NEW k \in TaskRecords, task' = [task EXCEPT ![t] = k],
         CrossedMoves(t), k.op = "idle" => t \notin crossed'
  PROVE  crossed' \subseteq {u \in Tasks : task'[u].op # "idle"}
<1>1. task'[t] = k /\ \A u \in Tasks : u # t => task'[u] = task[u]
  BY OneTaskMoves
<1>2. crossed \subseteq {u \in Tasks : task[u].op # "idle"}
  BY DEF CameraTypeOK
<1>3. ASSUME NEW u \in crossed' PROVE u \in Tasks /\ task'[u].op # "idle"
  <2>1. u \in Tasks /\ (u # t => task[u].op # "idle")
    BY <1>2, <1>3 DEF CrossedMoves
  <2> QED
    BY <1>1, <1>3, <2>1
<1> QED
  BY <1>3

\* A call that tells does so for a task that nobody has crossed.
LEMMA ActsHolds ==
  ASSUME CameraTypeOK, NEW t \in Tasks, NEW moves \in BOOLEAN, Acts(t, moves)
  PROVE  /\ apart' \in BOOLEAN /\ (~apart' => ~apart /\ t \notin crossed)
         /\ CrossedMoves(t) /\ t \notin crossed'
         /\ moves => crossed' = {u \in Tasks \ {t} : task[u].op # "idle"}
         /\ ~moves => crossed' = crossed \ {t}
<1>1. apart' \in BOOLEAN /\ (~apart' => ~apart /\ t \notin crossed)
  BY DEF Acts, Excuse
<1>2. /\ moves => crossed' = {u \in Tasks \ {t} : task[u].op # "idle"}
      /\ ~moves => crossed' = crossed \ {t}
  BY DEF Acts
<1> QED
  BY <1>1, <1>2 DEF CrossedMoves

LEMMA Excused ==
  ASSUME NEW if, Excuse(if)
  PROVE  apart' \in BOOLEAN /\ (~apart' => ~apart /\ ~if)
BY DEF Excuse

LEMMA TasksKept ==
  ASSUME CameraTypeOK, TasksOK, NEW t \in Tasks, NEW k \in TaskRecords,
         task' = [task EXCEPT ![t] = k],
         push' = push, created' = created, cameraRow' = cameraRow,
         k.op \in OpsOf(t), k.op = "idle" => k = IdleTask, push => ~k.draft.edge,
         k.op = "create" => /\ ~created /\ k.draft.active
                            /\ \A u \in Tasks : u # t => task[u].op # "create",
         k.op \in {"update", "delete"} => created,
         k.op = "boot" => k.force
  PROVE  TasksOK'
<1>1. task'[t] = k /\ \A u \in Tasks : u # t => task'[u] = task[u]
  BY OneTaskMoves
<1>2. ASSUME NEW u \in Tasks PROVE TaskOK(u)'
  <2>1. CASE u = t
    BY <1>1, <2>1 DEF TaskOK
  <2>2. CASE u # t
    BY <1>1, <2>2 DEF TaskOK, TasksOK
  <2> QED
    BY <2>1, <2>2
<1>3. OneCreates'
  BY <1>1 DEF OneCreates, TasksOK
<1> QED
  BY <1>2, <1>3 DEF TasksOK

\* A task that goes on, or ends, holds what it held.
LEMMA TaskGoesOn ==
  ASSUME CameraTypeOK, TasksOK, NEW t \in Tasks, NEW k \in TaskRecords,
         task' = [task EXCEPT ![t] = k],
         push' = push, created' = created, cameraRow' = cameraRow,
         \/ k = IdleTask
         \/ /\ k.op = task[t].op /\ k.op # "idle" /\ k.draft = task[t].draft
            /\ k.force = task[t].force
  PROVE  TasksOK'
<1>1. CASE k = IdleTask
  <2>1. k.op = "idle" /\ k.draft.edge = FALSE
    BY <1>1, IdleTaskHolds
  <2>2. k.op \in OpsOf(t)
    BY <2>1 DEF OpsOf
  <2> QED
    BY <1>1, <2>1, <2>2, TasksKept
<1>2. CASE /\ k.op = task[t].op /\ k.op # "idle" /\ k.draft = task[t].draft
           /\ k.force = task[t].force
  <2>1. TaskOK(t)
    BY DEF TasksOK
  <2>2. k.op \in OpsOf(t) /\ (push => ~k.draft.edge)
    BY <1>2, <2>1 DEF TaskOK
  <2>3. k.op = "create" => ~created /\ k.draft.active /\ \A u \in Tasks : u # t => task[u].op # "create"
    BY <1>2, <2>1 DEF TaskOK, TasksOK, OneCreates
  <2>4. (k.op \in {"update", "delete"} => created) /\ (k.op = "boot" => k.force)
    BY <1>2, <2>1 DEF TaskOK
  <2> QED
    BY <1>2, <2>2, <2>3, <2>4, TasksKept
<1> QED
  BY <1>1, <1>2

-----------------------------------------------------------------------------
(* The path is on its way to the row. *)

\* When nothing is under way the path has arrived.
LEMMA QuietlyArrived ==
  ASSUME CameraTypeOK, OnTheWay, ~apart, Quiet
  PROVE  path = Served(cameraRow)
<1>1. ASSUME NEW t \in Tasks PROVE ~MustAct(task[t]) /\ ~Owes(task[t])
  BY DEF Quiet, MustAct, Owes
<1>2. ~Doomed /\ ~Underway
  BY <1>1 DEF Doomed, Underway, CameraTypeOK
<1> QED
  BY <1>2 DEF OnTheWay, Arrived

\* The place that a row names is all of it that matters here.
LEMMA RowsOfOnePlace ==
  ASSUME NEW k, NEW p, NEW a, NEW b, StepOK(k, p, a), SamePlace(a, b)
  PROVE  StepOK(k, p, b)
<1>1. Served(a) = Served(b)
  BY SamePlaceSamePath
<1> QED
  BY <1>1 DEF StepOK, ProvisionOK, PollOK, BootOK, SamePlace

LEMMA PathUntouched ==
  ASSUME OnTheWay, task' = task, path' = path, ~apart' => ~apart, crossed' = crossed,
         SamePlace(cameraRow, cameraRow')
  PROVE  OnTheWay'
<1>1. Served(cameraRow) = Served(cameraRow')
  BY SamePlaceSamePath
<1>2. ASSUME NEW t \in Tasks, StepOK(task[t], path, cameraRow)
      PROVE  StepOK(task'[t], path', cameraRow')
  BY <1>2, RowsOfOnePlace
<1>3. Doomed => Doomed'
  BY DEF Doomed
<1>4. Arrived => Arrived'
  BY <1>1, <1>2 DEF Arrived
<1>5. Underway => Underway'
  BY <1>2 DEF Underway
<1> QED
  BY <1>3, <1>4, <1>5 DEF OnTheWay

\* One task changes path or row: all others are crossed, and it has arrived, or
\* it has yet to.
LEMMA ChangesKeep ==
  ASSUME CameraTypeOK, OnTheWay, NEW t \in Tasks, NEW k \in TaskRecords, task[t].op # "idle",
         task' = [task EXCEPT ![t] = k], Acts(t, TRUE),
         ~apart' /\ StepOK(task[t], path, cameraRow) =>
           \/ Owes(k) /\ StepOK(k, path', cameraRow')
           \/ /\ path' = Served(cameraRow')
              /\ k.op # "idle" => StepOK(k, path', cameraRow')
  PROVE  OnTheWay'
<1>1. task'[t] = k /\ \A u \in Tasks : u # t => task'[u] = task[u]
  BY OneTaskMoves
<1>2. crossed' = {u \in Tasks \ {t} : task[u].op # "idle"} /\ (~apart' => ~apart /\ t \notin crossed)
  BY ActsHolds
<1>3. ASSUME ~apart', NEW u \in Tasks, u # t, MustAct(task[u]) PROVE Doomed'
  <2>1. u \in crossed' /\ task'[u] = task[u]
    BY <1>1, <1>2, <1>3 DEF MustAct, Owes
  <2> QED
    BY <1>3, <2>1 DEF Doomed
<1>4. ASSUME ~apart', StepOK(task[t], path, cameraRow) PROVE Arrived' \/ Underway'
  <2>1. CASE Owes(k) /\ StepOK(k, path', cameraRow')
    BY <1>1, <1>2, <2>1 DEF Underway
  <2>2. CASE path' = Served(cameraRow') /\ (k.op # "idle" => StepOK(k, path', cameraRow'))
    <3>1. ASSUME NEW u \in Tasks \ crossed', task'[u].op # "idle" PROVE u = t
      BY <1>1, <1>2, <3>1
    <3> QED
      BY <1>1, <2>2, <3>1 DEF Arrived
  <2> QED
    BY <1>4, <2>1, <2>2
<1>5. ASSUME ~apart' PROVE Doomed' \/ Arrived' \/ Underway'
  <2>1. ~apart /\ t \notin crossed /\ crossed \subseteq Tasks
    BY <1>2, <1>5 DEF CameraTypeOK
  <2>2. CASE Doomed
    BY <1>3, <1>5, <2>1, <2>2 DEF Doomed
  <2>3. CASE Arrived
    BY <1>4, <1>5, <2>1, <2>3 DEF Arrived
  <2>4. CASE Underway
    <3>1. PICK u \in Tasks \ crossed : Owes(task[u]) /\ StepOK(task[u], path, cameraRow)
      BY <2>4 DEF Underway
    <3> QED
      BY <1>3, <1>4, <1>5, <3>1 DEF MustAct
  <2> QED
    BY <2>1, <2>2, <2>3, <2>4 DEF OnTheWay
<1> QED
  BY <1>5 DEF OnTheWay

\* One task moves and changes neither.
LEMMA StepsKeep ==
  ASSUME CameraTypeOK, OnTheWay, NEW t \in Tasks, NEW k \in TaskRecords,
         task' = [task EXCEPT ![t] = k], path' = path, SamePlace(cameraRow, cameraRow'),
         ~apart' =>
           /\ ~apart
           /\ \/ crossed' = crossed /\ (k.op = "idle" => t \notin crossed)
              \/ /\ crossed' = crossed \ {t}
                 /\ t \notin crossed \/ (k.op = "idle" /\ ~MustAct(task[t]))
           /\ t \in crossed /\ MustAct(task[t]) => MustAct(k)
           /\ task[t].op = "idle" /\ path = Served(cameraRow) => StepOK(k, path, cameraRow)
           /\ t \notin crossed /\ task[t].op # "idle" /\ StepOK(task[t], path, cameraRow) =>
                \/ k.op = "idle" /\ task[t].op = "watchdog"
                \/ k.op = task[t].op /\ StepOK(k, path, cameraRow)
  PROVE  OnTheWay'
<1>1. task'[t] = k /\ \A u \in Tasks : u # t => task'[u] = task[u]
  BY OneTaskMoves
<1>2. Served(cameraRow) = Served(cameraRow')
  BY SamePlaceSamePath
<1>3. ASSUME NEW j, StepOK(j, path, cameraRow) PROVE StepOK(j, path', cameraRow')
  BY <1>3, RowsOfOnePlace
<1>4. ASSUME ~apart', Doomed PROVE Doomed'
  <2>1. PICK u \in crossed : MustAct(task[u])
    BY <1>4 DEF Doomed
  <2>2. u \in Tasks
    BY DEF CameraTypeOK
  <2>3. CASE u = t
    BY <1>1, <1>4, <2>1, <2>3 DEF Doomed
  <2>4. CASE u # t
    BY <1>1, <1>4, <2>1, <2>2, <2>4 DEF Doomed
  <2> QED
    BY <2>3, <2>4
<1>5. ASSUME ~apart', Arrived PROVE Arrived'
  <2>1. ASSUME NEW u \in Tasks \ crossed', task'[u].op # "idle"
        PROVE  StepOK(task'[u], path', cameraRow')
    <3>1. CASE u = t
      <4>1. t \notin crossed /\ k.op # "idle"
        BY <1>1, <1>5, <2>1, <3>1
      <4>2. StepOK(k, path, cameraRow)
        BY <1>5, <4>1 DEF Arrived
      <4> QED
        BY <1>1, <1>3, <3>1, <4>2
    <3>2. CASE u # t
      <4>1. u \notin crossed /\ task'[u] = task[u]
        BY <1>1, <1>5, <2>1, <3>2
      <4> QED
        BY <1>3, <1>5, <2>1, <4>1 DEF Arrived
    <3> QED
      BY <3>1, <3>2
  <2> QED
    BY <1>2, <1>5, <2>1 DEF Arrived
<1>6. ASSUME ~apart', Underway PROVE Underway'
  <2>1. PICK u \in Tasks \ crossed : Owes(task[u]) /\ StepOK(task[u], path, cameraRow)
    BY <1>6 DEF Underway
  <2>2. u \notin crossed'
    BY <1>6, <2>1
  <2>3. Owes(task'[u]) /\ StepOK(task'[u], path, cameraRow)
    <3>1. CASE u = t
      BY <1>1, <1>6, <2>1, <3>1 DEF Owes
    <3>2. CASE u # t
      BY <1>1, <2>1, <3>2
    <3> QED
      BY <3>1, <3>2
  <2> QED
    BY <1>3, <2>2, <2>3 DEF Underway
<1> QED
  BY <1>4, <1>5, <1>6 DEF OnTheWay

\* Nobody takes the path away, and the watchdog has not given up.
LEMMA ComesBackKept ==
  ASSUME ComesBack, calm' = calm, polled' = polled, push' = push, path' = path,
         cameraRow'.active = cameraRow.active, cameraRow'.edge = cameraRow.edge,
         Finding => Finding'
  PROVE  ComesBack'
BY DEF ComesBack, Pulls

\* Another task than the watchdog moves.
LEMMA FindingKept ==
  ASSUME CameraTypeOK, NEW t \in Tasks, NEW k \in TaskRecords, task' = [task EXCEPT ![t] = k],
         t # Watchdog
  PROVE  Finding' <=> Finding
<1>1. task'[Watchdog] = task[Watchdog]
  BY OneTaskMoves, TwoBackgroundTasks
<1> QED
  BY <1>1 DEF Finding

-----------------------------------------------------------------------------
(* The status follows the stream. *)

\* A stream that has just begun or ended obliges nobody yet.
LEMMA StatusStartsOver ==
  ASSUME CameraTypeOK', streamAge' = 0, (Polling => polled)'
  PROVE  StatusFollows'
<1>1. ~Dark' /\ ~Bright'
  BY GraceIsNumber DEF Dark, Bright
<1>2. cameraRow'.seen \in 0..Long
  <2>1. cameraRow' \in Rows
    BY DEF CameraTypeOK
  <2> QED
    BY <2>1, RowFields
<1>3. ASSUME NEW t \in Tasks PROVE task'[t].draft.seen \in 0..Long
  <2>1. task'[t].draft \in Rows
    BY DEF CameraTypeOK
  <2> QED
    BY <2>1, RowFields
<1>4. SeenBefore'
  BY <1>2, <1>3, GraceIsNumber DEF SeenBefore
<1>5. PollIsTrue'
  BY DEF PollIsTrue, Polling
<1> QED
  BY <1>1, <1>4, <1>5 DEF StatusFollows, DarkIsShown, BrightIsShown

\* What a request has read of the status it may write back.
StatusRead(k, t) ==
  /\ k.draft.seen \in {task[t].draft.seen, cameraRow.seen, Long}
  /\ k.op = "update" => \/ k.draft.online = cameraRow.online
                        \/ task[t].op = "update" /\ k.draft.online = task[t].draft.online
  /\ t = Watchdog => /\ k.op = task[t].op /\ k.listed = task[t].listed
                     /\ k.draft.online = task[t].draft.online

StreamStays ==
  \/ streamAge' = 0
  \/ streamAge' = streamAge /\ ready' = ready /\ hooks' = hooks

LEMMA StatusKept ==
  ASSUME CameraTypeOK, CameraTypeOK', StatusFollows, NEW t \in Tasks, NEW k \in TaskRecords,
         task' = [task EXCEPT ![t] = k], StatusRead(k, t), StreamStays,
         cameraRow' = cameraRow, polled' = polled, blind' = blind, stale' = stale
  PROVE  StatusFollows'
<1>1. task'[t] = k /\ \A u \in Tasks : u # t => task'[u] = task[u]
  BY OneTaskMoves
<1>2. /\ task'[Watchdog].op = task[Watchdog].op /\ task'[Watchdog].listed = task[Watchdog].listed
      /\ task'[Watchdog].draft.online = task[Watchdog].draft.online
  BY <1>1, TwoBackgroundTasks DEF StatusRead
<1>3. (Polling => polled)'
  BY <1>2 DEF StatusFollows, PollIsTrue, Polling
<1>4. CASE streamAge' = 0
  BY <1>4, <1>3, StatusStartsOver
<1>5. CASE streamAge' = streamAge /\ ready' = ready /\ hooks' = hooks
  <2>1. (Dark' <=> Dark) /\ (Bright' <=> Bright) /\ (Polling' <=> Polling) /\ (Shown' <=> Shown)
    BY <1>5, <1>2 DEF Dark, Bright, Polling, Shown
  <2>2. SeenBefore'
    <3>1. cameraRow.seen \in 0..Long /\ task[t].draft.seen \in 0..Long /\ streamAge \in 0..Long
      BY CameraTypes, RowFields
    <3>2. ASSUME ~ready, NEW u \in Tasks PROVE task'[u].draft.seen >= streamAge
      <4>1. CASE u = t
        BY <1>1, <3>1, <3>2, <4>1, GraceIsNumber DEF StatusRead, StatusFollows, SeenBefore
      <4>2. CASE u # t
        BY <1>1, <3>2, <4>2 DEF StatusFollows, SeenBefore
      <4> QED
        BY <4>1, <4>2
    <3> QED
      BY <1>5, <3>2 DEF StatusFollows, SeenBefore
  <2>3. ASSUME Dark, ~polled \/ Polling, NEW u \in Tasks, task'[u].op = "update"
        PROVE  task'[u].draft.online = cameraRow.online
    <3>1. CASE u = t
      BY <1>1, <2>3, <3>1 DEF StatusRead, StatusFollows, DarkIsShown
    <3>2. CASE u # t
      BY <1>1, <2>3, <3>2 DEF StatusFollows, DarkIsShown
    <3> QED
      BY <3>1, <3>2
  <2>4. DarkIsShown'
    BY <1>2, <2>1, <2>3 DEF StatusFollows, DarkIsShown
  <2>5. BrightIsShown'
    BY <1>2, <2>1 DEF StatusFollows, BrightIsShown
  <2>6. hooks' # {} => streamAge' = 0
    BY <1>5 DEF StatusFollows
  <2>7. PollIsTrue'
    BY <1>5, <1>2, <1>3 DEF StatusFollows, PollIsTrue
  <2> QED
    BY <2>2, <2>4, <2>5, <2>6, <2>7 DEF StatusFollows
<1> QED
  BY <1>4, <1>5 DEF StreamStays

\* Tasks, row and stream as they were.
LEMMA StatusUntouched ==
  ASSUME CameraTypeOK, CameraTypeOK', StatusFollows, task' = task, StreamStays,
         cameraRow' = cameraRow, polled' = polled, blind' = blind, stale' = stale
  PROVE  StatusFollows'
<1>1. PICK k \in TaskRecords : k = task[Boot]
  BY CameraTypes, TwoBackgroundTasks
<1>2. task' = [task EXCEPT ![Boot] = k]
  BY <1>1, CameraTypes
<1>3. StatusRead(k, Boot)
  BY <1>1, TwoBackgroundTasks DEF StatusRead
<1> QED
  BY <1>2, <1>3, StatusKept, TwoBackgroundTasks

-----------------------------------------------------------------------------
(* The steps of a task that leave its draft alone. *)

GoesOnWith(t, k) ==
  /\ k.op = task[t].op /\ k.op # "idle" /\ k.draft = task[t].draft /\ k.listed = task[t].listed
  /\ k.force = task[t].force

LEMMA NextStep ==
  ASSUME CameraTypeOK, NEW t \in Tasks, task[t].op # "idle", NEW step \in PathSteps, TaskGoes(t, step)
  PROVE  \E k \in TaskRecords : task' = [task EXCEPT ![t] = k] /\ k.step = step /\ GoesOnWith(t, k)
<1>1. task[t] \in TaskRecords /\ task \in [Tasks -> TaskRecords]
  BY CameraTypes
<1>2. PICK k \in TaskRecords : k = [task[t] EXCEPT !.step = step]
  BY <1>1 DEF TaskRecords
<1>3. task' = [task EXCEPT ![t] = k]
  BY <1>1, <1>2 DEF TaskGoes
<1>4. k.step = step /\ GoesOnWith(t, k)
  BY <1>1, <1>2 DEF TaskRecords, GoesOnWith
<1> QED
  BY <1>3, <1>4

LEMMA TasksByOp ==
  ASSUME TasksOK, NEW t \in Tasks
  PROVE  /\ task[t].op = "watchdog" => t = Watchdog
         /\ task[t].op = "boot" => t = Boot
         /\ task[t].op \in {"create", "update", "delete"} => t \in CameraRequests
         /\ t \in CameraRequests => task[t].op \in {"idle", "create", "update", "delete"}
<1>1. task[t].op \in OpsOf(t)
  BY DEF TasksOK, TaskOK
<1> QED
  BY <1>1, TwoBackgroundTasks DEF OpsOf, Tasks

\* Where add_path returns to.
LEMMA ReturnsTo ==
  ASSUME CameraTypeOK, TasksOK, NEW t \in Tasks, task[t].op # "idle", Returns(t)
  PROVE  \E k \in TaskRecords :
           /\ task' = [task EXCEPT ![t] = k]
           /\ \/ task[t].op = "boot" /\ k = IdleTask /\ t # Watchdog
              \/ task[t].op = "watchdog" /\ k.step = "status" /\ GoesOnWith(t, k)
              \/ task[t].op \notin {"boot", "watchdog"} /\ k.step = "commit" /\ GoesOnWith(t, k)
<1>1. CASE task[t].op = "boot"
  <2>1. task' = [task EXCEPT ![t] = IdleTask]
    BY <1>1 DEF Returns, After, EndsTask
  <2>2. t # Watchdog
    BY <1>1, TasksByOp, TwoBackgroundTasks
  <2> QED
    BY <1>1, <2>1, <2>2, IdleTaskHolds
<1>2. CASE task[t].op = "watchdog"
  <2>1. TaskGoes(t, "status") /\ "status" \in PathSteps
    BY <1>2 DEF Returns, After, PathSteps
  <2> QED
    BY <1>2, <2>1, NextStep
<1>3. CASE task[t].op \notin {"boot", "watchdog"}
  <2>1. TaskGoes(t, "commit") /\ "commit" \in PathSteps
    BY <1>3 DEF Returns, After, PathSteps
  <2> QED
    BY <1>3, <2>1, NextStep
<1> QED
  BY <1>1, <1>2, <1>3

\* Types, tasks and status are kept by a step that only takes a task further.
LEMMA CallKeeps ==
  ASSUME CamInv, NEW t \in Tasks, NEW k \in TaskRecords, task' = [task EXCEPT ![t] = k],
         \/ k = IdleTask /\ t # Watchdog
         \/ GoesOnWith(t, k),
         StreamStays, path' \in Paths \union {NoPath}, ready' \in BOOLEAN,
         ready' => path' # NoPath, hooks' \subseteq {"on", "off"}, streamAge' \in 0..Long,
         apart' \in BOOLEAN, calm' \in BOOLEAN, CrossedMoves(t), k = IdleTask => t \notin crossed',
         UNCHANGED <<push, cameraRow, edits, polled, blind, created, stale>>
  PROVE  CameraTypeOK' /\ TasksOK' /\ StatusFollows'
<1>1. CameraTypeOK /\ TasksOK /\ StatusFollows
  BY DEF CamInv
<1>2. task' \in [Tasks -> TaskRecords]
  BY <1>1, OneTaskMoves
<1>3. CameraTypeOK'
  <2>1. /\ polled' \in BOOLEAN /\ cameraRow' \in Rows /\ created' \in BOOLEAN
        /\ stale' \in BOOLEAN /\ blind' \in BOOLEAN /\ edits' \in 0..MaxEdits
    BY <1>1 DEF CameraTypeOK
  <2>2. push => ~cameraRow'.edge
    BY <1>1 DEF CameraTypeOK
  <2>3. k.op = "idle" => k = IdleTask
    BY DEF GoesOnWith
  <2>4. crossed' \subseteq {u \in Tasks : task'[u].op # "idle"}
    BY <1>1, <2>3, CrossedKept
  <2> QED
    BY <1>1, <1>2, <2>1, <2>2, <2>4, TypesKept
<1>4. TasksOK'
  BY <1>1, TaskGoesOn DEF GoesOnWith
<1>5. StatusRead(k, t)
  <2>1. CASE k = IdleTask /\ t # Watchdog
    BY <2>1, IdleTaskHolds DEF StatusRead
  <2>2. CASE GoesOnWith(t, k)
    BY <2>2 DEF GoesOnWith, StatusRead
  <2> QED
    BY <2>1, <2>2
<1>6. StatusFollows'
  BY <1>1, <1>3, <1>5, StatusKept
<1> QED
  BY <1>3, <1>4, <1>6

\* Nothing happens to the stream.
LEMMA StreamAsItWas ==
  ASSUME CameraTypeOK, ready' = ready, hooks' = hooks, streamAge' = streamAge,
         path' = path \/ path' \in Paths
  PROVE  /\ StreamStays /\ path' \in Paths \union {NoPath} /\ ready' \in BOOLEAN
         /\ (ready' => path' # NoPath) /\ hooks' \subseteq {"on", "off"} /\ streamAge' \in 0..Long
<1>1. ready' \in BOOLEAN /\ hooks' \subseteq {"on", "off"} /\ streamAge' \in 0..Long
  BY DEF CameraTypeOK
<1>2. path' \in Paths \union {NoPath}
  BY DEF CameraTypeOK
<1>3. ready' => path' # NoPath
  BY CameraAssumption DEF CameraTypeOK, Paths, Urls
<1> QED
  BY <1>1, <1>2, <1>3 DEF StreamStays

LEMMA StreamTaken ==
  ASSUME CameraTypeOK, TakesPath
  PROVE  /\ StreamStays /\ path' \in Paths \union {NoPath} /\ ready' \in BOOLEAN
         /\ (ready' => path' # NoPath) /\ hooks' \subseteq {"on", "off"} /\ streamAge' \in 0..Long
         /\ path' = NoPath
<1>1. ready \in BOOLEAN /\ hooks \subseteq {"on", "off"} /\ streamAge \in 0..Long
  BY DEF CameraTypeOK
<1>2. path' = NoPath /\ path' \in Paths \union {NoPath} /\ ready' = FALSE
  BY DEF TakesPath
<1>3. ready' \in BOOLEAN /\ (ready' => path' # NoPath)
  BY <1>2
<1>4. CASE ready
  <2>1. hooks' = hooks \union {"off"} /\ streamAge' = 0
    BY <1>4 DEF TakesPath
  <2>2. hooks' \subseteq {"on", "off"} /\ streamAge' \in 0..Long
    BY <1>1, <2>1, GraceIsNumber
  <2> QED
    BY <1>2, <1>3, <2>1, <2>2 DEF StreamStays
<1>5. CASE ~ready
  <2>1. ready' = ready /\ hooks' = hooks /\ streamAge' = streamAge
    BY <1>1, <1>5 DEF TakesPath
  <2> QED
    BY <1>1, <1>2, <1>3, <2>1 DEF StreamStays
<1> QED
  BY <1>4, <1>5

-----------------------------------------------------------------------------
(* add_path and its calls. *)

LEMMA CamParts ==
  ASSUME CamInv
  PROVE  CameraTypeOK /\ TasksOK /\ OnTheWay /\ StatusFollows /\ ComesBack
BY DEF CamInv

\* A task that was crossed and goes on has still to act.
LEMMA StillToAct ==
  ASSUME NEW t \in Tasks, NEW k, GoesOnWith(t, k), MustAct(task[t]),
         task[t].op = "watchdog" => k.step \in {"add", "delete", "re-add"}
  PROVE  MustAct(k)
BY DEF MustAct, Owes, GoesOnWith

\* The watchdog adds a path only when there is none.
LEMMA PollFindsNone ==
  ASSUME NEW k, NEW p, NEW row \in Rows, k.op = "watchdog", k.step = "get", StepOK(k, p, row)
  PROVE  p = [url |-> k.draft.url, rec |-> k.draft.rec] /\ p # NoPath /\ ~k.force
<1>1. /\ p = Served(row) /\ row.active /\ SamePlace(k.draft, row) /\ ~k.draft.edge /\ ~k.force
  BY DEF StepOK, PollOK
<1>2. ~row.edge /\ row.url = k.draft.url /\ row.rec = k.draft.rec
  BY <1>1 DEF SamePlace
<1> QED
  BY <1>1, <1>2, ServedOfAnActiveRow

\* What add_path leaves of a task that nobody crossed when it returns with the
\* path as it was asked to.
LEMMA ReturnedWithPath ==
  ASSUME CameraTypeOK, NEW t \in Tasks, NEW k \in TaskRecords, NEW p, p = Body(t),
         k.op = task[t].op, k.op \in {"create", "update"}, k.draft = task[t].draft, k.step = "commit",
         task[t].step \in {"get", "add", "re-add"}, StepOK(task[t], path, cameraRow)
  PROVE  Owes(k) /\ StepOK(k, p, cameraRow)
<1>1. task[t].draft \in Rows /\ task[t].draft.active /\ ~task[t].draft.edge
  BY CameraTypes DEF StepOK, ProvisionOK
<1>2. p = Served(k.draft)
  BY <1>1, BodyIsAPath, ServedOfAnActiveRow
<1> QED
  BY <1>2 DEF Owes, StepOK, ProvisionOK

LEMMA GetPathKeeps ==
  ASSUME CamInv, NEW t \in Tasks, GetPath(t)
  PROVE  CamInv'
<1>1. CameraTypeOK /\ TasksOK /\ OnTheWay /\ StatusFollows /\ ComesBack
  BY CamParts
<1>2. /\ task[t].op # "idle" /\ task[t].step = "get"
      /\ UNCHANGED <<push, cameraRow, path, ready, hooks, edits, polled, streamAge, blind, created,
                     crossed, calm, stale>>
  BY DEF GetPath, TaskDoing
<1>3. /\ StreamStays /\ path' \in Paths \union {NoPath} /\ ready' \in BOOLEAN
      /\ (ready' => path' # NoPath) /\ hooks' \subseteq {"on", "off"} /\ streamAge' \in 0..Long
  BY <1>1, <1>2, StreamAsItWas
<1>4. calm' \in BOOLEAN /\ CrossedMoves(t) /\ SamePlace(cameraRow, cameraRow') /\ cameraRow \in Rows
      /\ cameraRow'.active = cameraRow.active /\ cameraRow'.edge = cameraRow.edge
  BY <1>1, <1>2 DEF CameraTypeOK, CrossedMoves, SamePlace
<1>5. CASE path # NoPath /\ ~task[t].force
  <2>1. Returns(t) /\ Excuse(path # Body(t))
    BY <1>5 DEF GetPath
  <2>2. apart' \in BOOLEAN /\ (~apart' => ~apart /\ path = Body(t))
    BY <2>1, Excused
  <2>3. task[t].op # "boot"
    BY <1>1, <1>5 DEF TasksOK, TaskOK
  <2>4. PICK k \in TaskRecords :
        /\ task' = [task EXCEPT ![t] = k]
        /\ \/ task[t].op = "watchdog" /\ k.step = "status" /\ GoesOnWith(t, k)
           \/ task[t].op \notin {"boot", "watchdog"} /\ k.step = "commit" /\ GoesOnWith(t, k)
    BY <1>1, <1>2, <2>1, <2>3, ReturnsTo
  <2>5. k.op = task[t].op /\ k.op # "idle" /\ k.draft = task[t].draft /\ GoesOnWith(t, k)
        /\ k # IdleTask
    BY <2>4, IdleTaskHolds DEF GoesOnWith
  <2>6. CameraTypeOK' /\ TasksOK' /\ StatusFollows'
    BY <1>2, <1>3, <1>4, <2>2, <2>4, <2>5, CallKeeps
  <2>7. ASSUME ~apart', StepOK(task[t], path, cameraRow) PROVE StepOK(k, path, cameraRow)
    <3>1. CASE task[t].op = "watchdog"
      BY <2>4, <2>5, <2>7, <3>1 DEF StepOK, PollOK
    <3>2. CASE task[t].op \in {"create", "update"}
      BY <1>1, <1>2, <2>2, <2>4, <2>5, <2>7, <3>2, ReturnedWithPath
    <3>3. task[t].op # "delete"
      BY <1>2, <2>7 DEF StepOK, RemovalOK
    <3>4. task[t] \in TaskRecords
      BY <1>1, CameraTypes
    <3> QED
      BY <1>2, <2>3, <3>1, <3>2, <3>3, <3>4 DEF TaskRecords
  <2>8. MustAct(task[t]) => MustAct(k)
    BY <1>2, <2>5, StillToAct DEF MustAct, Owes
  <2>9. OnTheWay'
    BY <1>1, <1>2, <1>4, <2>2, <2>4, <2>5, <2>7, <2>8, StepsKeep
  <2>10. ComesBack'
    BY <1>2, <1>5 DEF ComesBack
  <2> QED
    BY <2>6, <2>9, <2>10 DEF CamInv
<1>6. CASE ~(path # NoPath /\ ~task[t].force)
  <2>1. TaskGoes(t, "add") /\ apart' = apart /\ "add" \in PathSteps
    BY <1>6 DEF GetPath, PathSteps
  <2>2. apart' \in BOOLEAN
    BY <1>1, <2>1 DEF CameraTypeOK
  <2>3. PICK k \in TaskRecords : task' = [task EXCEPT ![t] = k] /\ k.step = "add" /\ GoesOnWith(t, k)
    BY <1>1, <1>2, <2>1, NextStep
  <2>4. k.op = task[t].op /\ k.draft = task[t].draft /\ k.op # "idle" /\ k # IdleTask
    BY <2>3, IdleTaskHolds DEF GoesOnWith
  <2>5. CameraTypeOK' /\ TasksOK' /\ StatusFollows'
    BY <1>2, <1>3, <1>4, <2>2, <2>3, <2>4, CallKeeps
  <2>6. ASSUME StepOK(task[t], path, cameraRow) PROVE StepOK(k, path, cameraRow)
    <3>1. task[t].op # "watchdog"
      BY <1>2, <1>4, <1>6, <2>6, PollFindsNone
    <3> QED
      BY <1>2, <2>3, <2>4, <2>6, <3>1 DEF StepOK, ProvisionOK, RemovalOK, BootOK
  <2>7. MustAct(task[t]) => MustAct(k)
    BY <2>3, StillToAct
  <2>8. OnTheWay'
    BY <1>1, <1>2, <1>4, <2>1, <2>3, <2>4, <2>6, <2>7, StepsKeep
  <2>9. Finding => Finding'
    <3>1. CASE t = Watchdog
      <4>1. task'[Watchdog].op # "idle" /\ task'[Watchdog].step = "add"
        BY <1>1, <2>3, <2>4, <3>1, OneTaskMoves
      <4> QED
        BY <4>1 DEF Finding
    <3>2. CASE t # Watchdog
      BY <1>1, <2>3, <3>2, FindingKept
    <3> QED
      BY <3>1, <3>2
  <2>10. ComesBack'
    BY <1>1, <1>2, <1>4, <2>9, ComesBackKept
  <2> QED
    BY <2>5, <2>8, <2>10 DEF CamInv
<1> QED
  BY <1>5, <1>6

LEMMA AddPathKeeps ==
  ASSUME CamInv, NEW t \in Tasks, AddPath(t)
  PROVE  CamInv'
<1>1. CameraTypeOK /\ TasksOK /\ OnTheWay /\ StatusFollows /\ ComesBack
  BY CamParts
<1>2. /\ task[t].op # "idle" /\ task[t].step \in {"add", "re-add"} /\ Acts(t, path = NoPath)
      /\ UNCHANGED <<push, cameraRow, ready, hooks, edits, polled, streamAge, blind, created, calm,
                     stale>>
  BY DEF AddPath, TaskDoing
<1>3. /\ Body(t) \in Paths /\ Body(t) # NoPath /\ cameraRow \in Rows /\ task[t] \in TaskRecords
      /\ calm' \in BOOLEAN
  BY <1>1, <1>2, BodyIsAPath, CameraTypes DEF CameraTypeOK
<1>4. path' = path \/ path' \in Paths
  BY <1>3 DEF AddPath
<1>5. /\ StreamStays /\ path' \in Paths \union {NoPath} /\ ready' \in BOOLEAN
      /\ (ready' => path' # NoPath) /\ hooks' \subseteq {"on", "off"} /\ streamAge' \in 0..Long
  BY <1>1, <1>2, <1>4, StreamAsItWas
<1>6. path' # NoPath
  BY <1>3 DEF AddPath
<1>7. ComesBack'
  BY <1>6 DEF ComesBack
<1>8. (path = NoPath) \in BOOLEAN
  OBVIOUS
<1>9. /\ apart' \in BOOLEAN /\ (~apart' => ~apart /\ t \notin crossed)
      /\ CrossedMoves(t) /\ t \notin crossed' /\ (path # NoPath => crossed' = crossed \ {t})
  BY <1>1, <1>2, <1>8, ActsHolds
<1>10. ASSUME StepOK(task[t], path, cameraRow)
       PROVE  /\ task[t].op \in {"create", "update", "boot"}
              /\ task[t].step = "re-add" => path = NoPath
  BY <1>2, <1>3, <1>10 DEF StepOK, RemovalOK, PollOK, TaskRecords
<1>11. CASE path = NoPath \/ task[t].step = "re-add"
  <2>1. Returns(t)
    BY <1>2, <1>11 DEF AddPath
  <2>2. PICK k \in TaskRecords :
        /\ task' = [task EXCEPT ![t] = k]
        /\ \/ task[t].op = "boot" /\ k = IdleTask /\ t # Watchdog
           \/ task[t].op = "watchdog" /\ k.step = "status" /\ GoesOnWith(t, k)
           \/ task[t].op \notin {"boot", "watchdog"} /\ k.step = "commit" /\ GoesOnWith(t, k)
    BY <1>1, <1>2, <2>1, ReturnsTo
  <2>3. CameraTypeOK' /\ TasksOK' /\ StatusFollows'
    BY <1>2, <1>3, <1>5, <1>9, <2>2, CallKeeps
  <2>4. CASE path = NoPath
    <3>1. path' = Body(t) /\ Acts(t, TRUE)
      BY <1>2, <2>4 DEF AddPath
    <3>2. ASSUME ~apart', StepOK(task[t], path, cameraRow)
          PROVE  \/ Owes(k) /\ StepOK(k, path', cameraRow')
                 \/ /\ path' = Served(cameraRow')
                    /\ k.op # "idle" => StepOK(k, path', cameraRow')
      <4>1. CASE task[t].op \in {"create", "update"}
        <5>1. k.op = task[t].op /\ k.draft = task[t].draft /\ k.step = "commit"
          BY <2>2, <4>1 DEF GoesOnWith
        <5>2. Owes(k) /\ StepOK(k, path', cameraRow)
          BY <1>1, <1>2, <1>5, <3>1, <3>2, <4>1, <5>1, ReturnedWithPath
        <5> QED
          BY <1>2, <5>2
      <4>2. CASE task[t].op = "boot"
        <5>1. k.op = "idle"
          BY <2>2, <4>2, IdleTaskHolds
        <5>2. /\ SamePlace(task[t].draft, cameraRow) /\ cameraRow.active /\ ~cameraRow.edge
          BY <3>2, <4>2 DEF StepOK, BootOK
        <5>3. Served(cameraRow) = [url |-> cameraRow.url, rec |-> cameraRow.rec]
          BY <1>3, <5>2, ServedOfAnActiveRow
        <5>4. path' = Served(cameraRow')
          BY <1>1, <1>2, <3>1, <5>2, <5>3, BodyIsAPath DEF SamePlace
        <5> QED
          BY <5>1, <5>4
      <4> QED
        BY <1>10, <3>2, <4>1, <4>2
    <3>3. OnTheWay'
      BY <1>1, <1>2, <2>2, <3>1, <3>2, ChangesKeep
    <3> QED
      BY <1>7, <2>3, <3>3 DEF CamInv
  <2>5. CASE path # NoPath /\ task[t].step = "re-add"
    <3>1. ~StepOK(task[t], path, cameraRow)
      BY <1>10, <2>5
    <3>2. path' = path /\ crossed' = crossed \ {t} /\ SamePlace(cameraRow, cameraRow')
      BY <1>2, <1>9, <2>5 DEF AddPath, SamePlace
    <3>3. OnTheWay'
      BY <1>1, <1>2, <1>9, <2>2, <3>1, <3>2, StepsKeep
    <3> QED
      BY <1>7, <2>3, <3>3 DEF CamInv
  <2> QED
    BY <1>11, <2>4, <2>5
<1>12. CASE path # NoPath /\ task[t].step = "add"
  <2>1. TaskGoes(t, "delete") /\ path' = path /\ "delete" \in PathSteps
    BY <1>12 DEF AddPath, PathSteps
  <2>2. PICK k \in TaskRecords : task' = [task EXCEPT ![t] = k] /\ k.step = "delete" /\ GoesOnWith(t, k)
    BY <1>1, <1>2, <2>1, NextStep
  <2>3. k.op = task[t].op /\ k.draft = task[t].draft /\ k.op # "idle"
    BY <2>2 DEF GoesOnWith
  <2>4. CameraTypeOK' /\ TasksOK' /\ StatusFollows'
    BY <1>2, <1>3, <1>5, <1>9, <2>2, CallKeeps
  <2>5. ASSUME StepOK(task[t], path, cameraRow) PROVE StepOK(k, path, cameraRow)
    BY <1>2, <1>10, <1>12, <2>2, <2>3, <2>5 DEF StepOK, ProvisionOK, BootOK
  <2>6. crossed' = crossed \ {t} /\ SamePlace(cameraRow, cameraRow')
    BY <1>2, <1>9, <1>12 DEF SamePlace
  <2>7. OnTheWay'
    BY <1>1, <1>2, <1>9, <2>1, <2>2, <2>3, <2>5, <2>6, StepsKeep
  <2> QED
    BY <1>7, <2>4, <2>7 DEF CamInv
<1> QED
  BY <1>2, <1>11, <1>12

LEMMA DeletePathKeeps ==
  ASSUME CamInv, NEW t \in Tasks, DeletePath(t)
  PROVE  CamInv'
<1>1. CameraTypeOK /\ TasksOK /\ OnTheWay /\ StatusFollows
  BY CamParts
<1>2. /\ task[t].op # "idle" /\ task[t].step = "delete" /\ Acts(t, TRUE)
      /\ TakesPath /\ TaskGoes(t, "re-add") /\ "re-add" \in PathSteps
      /\ UNCHANGED <<push, cameraRow, edits, polled, blind, created, stale>>
  BY DEF DeletePath, TaskDoing, PathSteps
<1>3. PICK k \in TaskRecords : task' = [task EXCEPT ![t] = k] /\ k.step = "re-add" /\ GoesOnWith(t, k)
  BY <1>1, <1>2, NextStep
<1>4. /\ StreamStays /\ path' \in Paths \union {NoPath} /\ ready' \in BOOLEAN
      /\ (ready' => path' # NoPath) /\ hooks' \subseteq {"on", "off"} /\ streamAge' \in 0..Long
      /\ path' = NoPath
  BY <1>1, <1>2, StreamTaken
<1>5. calm' \in BOOLEAN /\ ~calm'
  BY <1>2 DEF TakesPath
<1>6. apart' \in BOOLEAN /\ CrossedMoves(t) /\ t \notin crossed'
  BY <1>1, <1>2, ActsHolds
<1>7. CameraTypeOK' /\ TasksOK' /\ StatusFollows'
  BY <1>2, <1>3, <1>4, <1>5, <1>6, CallKeeps
<1>8. k.op = task[t].op /\ k.draft = task[t].draft /\ k.op # "idle"
  BY <1>3 DEF GoesOnWith
<1>9. ASSUME StepOK(task[t], path, cameraRow) PROVE Owes(k) /\ StepOK(k, path', cameraRow')
  BY <1>2, <1>3, <1>4, <1>8, <1>9 DEF StepOK, ProvisionOK, RemovalOK, PollOK, BootOK, Owes
<1>10. OnTheWay'
  BY <1>1, <1>2, <1>3, <1>9, ChangesKeep
<1>11. ComesBack'
  BY <1>5 DEF ComesBack
<1> QED
  BY <1>7, <1>10, <1>11 DEF CamInv

\* A step that is an excuse needs no place for the path.
LEMMA ExcusedKeeps ==
  ASSUME CamInv, NEW t \in Tasks, NEW k \in TaskRecords, task' = [task EXCEPT ![t] = k],
         \/ k = IdleTask /\ t # Watchdog
         \/ GoesOnWith(t, k),
         Excuse(TRUE), CrossedMoves(t), k = IdleTask => t \notin crossed',
         ~calm' \/ (calm' = calm /\ t # Watchdog), calm' \in BOOLEAN,
         UNCHANGED <<push, cameraRow, path, ready, hooks, edits, polled, streamAge, blind, created, stale>>
  PROVE  CamInv'
<1>1. apart' \in BOOLEAN /\ apart'
  BY Excused DEF Excuse
<1>2. /\ StreamStays /\ path' \in Paths \union {NoPath} /\ ready' \in BOOLEAN
      /\ (ready' => path' # NoPath) /\ hooks' \subseteq {"on", "off"} /\ streamAge' \in 0..Long
  BY CamParts, StreamAsItWas
<1>3. CameraTypeOK' /\ TasksOK' /\ StatusFollows'
  BY <1>1, <1>2, CallKeeps
<1>4. ComesBack'
  <2>1. CASE ~calm'
    BY <2>1 DEF ComesBack
  <2>2. CASE calm' = calm /\ t # Watchdog
    <3>1. Finding => Finding'
      BY <2>2, CamParts, FindingKept
    <3> QED
      BY <2>2, <3>1, CamParts, ComesBackKept
  <2> QED
    BY <2>1, <2>2
<1> QED
  BY <1>1, <1>3, <1>4 DEF CamInv, OnTheWay

LEMMA CallFailsKeeps ==
  ASSUME CamInv, NEW t \in Tasks, CallFails(t)
  PROVE  CamInv'
<1>1. CameraTypeOK /\ TasksOK
  BY CamParts
<1>2. PICK k \in TaskRecords :
        /\ task' = [task EXCEPT ![t] = k]
        /\ \/ task[t].op = "boot" /\ k = IdleTask /\ t # Watchdog
           \/ task[t].op = "watchdog" /\ k.step = "status" /\ GoesOnWith(t, k)
           \/ task[t].op \notin {"boot", "watchdog"} /\ k.step = "commit" /\ GoesOnWith(t, k)
  BY <1>1, ReturnsTo DEF CallFails
<1>3. CrossedMoves(t) /\ t \notin crossed' /\ ~calm' /\ calm' \in BOOLEAN /\ Excuse(TRUE)
  BY DEF CallFails, Leaves, CrossedMoves
<1> QED
  BY <1>2, <1>3, ExcusedKeeps DEF CallFails

LEMMA RollBackKeeps ==
  ASSUME CamInv, NEW r \in CameraRequests, RollBack(r)
  PROVE  CamInv'
<1>1. r \in Tasks /\ r # Watchdog
  BY TwoBackgroundTasks
<1>2. task' = [task EXCEPT ![r] = IdleTask] /\ IdleTask \in TaskRecords
  BY IdleTaskHolds DEF RollBack, EndsTask
<1>3. CrossedMoves(r) /\ r \notin crossed' /\ calm' = calm /\ calm' \in BOOLEAN /\ Excuse(TRUE)
  BY CamParts DEF RollBack, Leaves, CrossedMoves, CameraTypeOK
<1> QED
  BY <1>1, <1>2, <1>3, ExcusedKeeps DEF RollBack

-----------------------------------------------------------------------------
(* Requests. *)

\* A request begins; nothing else moves.
LEMMA RequestBegins ==
  ASSUME CamInv, NEW r \in Tasks, r # Watchdog, NEW k \in TaskRecords,
         task' = [task EXCEPT ![r] = k], task[r].op = "idle",
         k.op \in OpsOf(r), k.op # "idle", push => ~k.draft.edge,
         k.op = "create" => /\ ~created /\ k.draft.active
                            /\ \A u \in Tasks : u # r => task[u].op # "create",
         k.op \in {"update", "delete"} => created,
         k.op = "boot" => k.force,
         k.op = "update" => k.draft.online = cameraRow.online,
         k.draft.seen \in {cameraRow.seen, Long}, edits' \in 0..MaxEdits,
         path = Served(cameraRow) => StepOK(k, path, cameraRow),
         UNCHANGED <<push, cameraRow, path, ready, hooks, polled, streamAge, blind, created, apart,
                     crossed, calm, stale>>
  PROVE  CamInv'
<1>1. CameraTypeOK /\ TasksOK /\ OnTheWay /\ StatusFollows /\ ComesBack
  BY CamParts
<1>2. r \notin crossed /\ CrossedMoves(r) /\ SamePlace(cameraRow, cameraRow')
  BY <1>1 DEF CameraTypeOK, CrossedMoves, SamePlace
<1>3. /\ StreamStays /\ path' \in Paths \union {NoPath} /\ ready' \in BOOLEAN
      /\ (ready' => path' # NoPath) /\ hooks' \subseteq {"on", "off"} /\ streamAge' \in 0..Long
  BY <1>1, StreamAsItWas
<1>4. CameraTypeOK'
  <2>1. task' \in [Tasks -> TaskRecords]
    BY <1>1, OneTaskMoves
  <2>2. /\ polled' \in BOOLEAN /\ cameraRow' \in Rows /\ created' \in BOOLEAN
        /\ stale' \in BOOLEAN /\ blind' \in BOOLEAN /\ apart' \in BOOLEAN /\ calm' \in BOOLEAN
    BY <1>1 DEF CameraTypeOK
  <2>3. push => ~cameraRow'.edge
    BY <1>1 DEF CameraTypeOK
  <2>4. crossed' \subseteq {u \in Tasks : task'[u].op # "idle"}
    BY <1>1, <1>2, CrossedKept
  <2> QED
    BY <1>1, <1>3, <2>1, <2>2, <2>3, <2>4, TypesKept
<1>5. TasksOK'
  BY <1>1, TasksKept
<1>6. StatusFollows'
  <2>1. StatusRead(k, r)
    BY DEF StatusRead
  <2> QED
    BY <1>1, <1>3, <1>4, <2>1, StatusKept
<1>7. OnTheWay'
  BY <1>1, <1>2, StepsKeep
<1>8. ComesBack'
  <2>1. Finding => Finding'
    BY <1>1, FindingKept
  <2> QED
    BY <1>1, <2>1, ComesBackKept
<1> QED
  BY <1>4, <1>5, <1>6, <1>7, <1>8 DEF CamInv

LEMMA EditsCounted ==
  ASSUME CameraTypeOK, edits < MaxEdits, edits' = edits + 1
  PROVE  edits' \in 0..MaxEdits
BY GraceIsNumber DEF CameraTypeOK

\* A row that is switched off is not served.
LEMMA OffIsNotServed ==
  ASSUME NEW row, ~row.active \/ row.edge
  PROVE  Served(row) = NoPath
BY DEF Served

LEMMA CreateCameraKeeps ==
  ASSUME CamInv, NEW r \in CameraRequests, CreateCamera(r)
  PROVE  CamInv'
<1>1. CameraTypeOK /\ TasksOK /\ OnTheWay /\ StatusFollows
  BY CamParts
<1>2. /\ task[r].op = "idle" /\ ~created /\ edits < MaxEdits /\ edits' = edits + 1
      /\ \A t \in CameraRequests : task[t].op # "create"
      /\ UNCHANGED <<push, cameraRow, path, ready, hooks, polled, streamAge, blind, created, apart,
                     crossed, calm, stale>>
  BY DEF CreateCamera
<1>3. PICK body \in CreateBodies :
        LET edge == body.edge /\ ~push
        IN task' = [task EXCEPT ![r] =
             [op |-> "create", step |-> IF edge THEN "commit" ELSE "get",
              draft |-> Inserted(body.rec, edge), force |-> FALSE, listed |-> FALSE]]
  BY DEF CreateCamera
<1>4. body.rec \in BOOLEAN /\ body.edge \in BOOLEAN
  BY DEF CreateBodies
<1>5. PICK edge \in BOOLEAN : edge = (body.edge /\ ~push)
  BY <1>4
<1>6. PICK row \in Rows : /\ row = Inserted(body.rec, edge) /\ row.active = TRUE /\ row.edge = edge
                          /\ row.seen = Long
  BY <1>4, InsertedHolds
<1>7. PICK step \in PathSteps : /\ step = IF edge THEN "commit" ELSE "get"
                                /\ edge => step = "commit"
                                /\ ~edge => step = "get"
  BY DEF PathSteps
<1>8. FALSE \in BOOLEAN /\ "create" \in {"create", "update", "delete", "watchdog", "boot"}
  OBVIOUS
<1>9. PICK k \in TaskRecords :
        /\ k = [op |-> "create", step |-> step, draft |-> row, force |-> FALSE, listed |-> FALSE]
        /\ k.op = "create" /\ k.step = step /\ k.draft = row
  <2> DEFINE kk == [op |-> "create", step |-> step, draft |-> row, force |-> FALSE, listed |-> FALSE]
  <2>1. kk \in TaskRecords
    BY <1>8 DEF TaskRecords
  <2>2. kk.op = "create" /\ kk.step = step /\ kk.draft = row
    OBVIOUS
  <2> QED
    BY <2>1, <2>2
<1>10. task' = [task EXCEPT ![r] = k]
  BY <1>3, <1>5, <1>6, <1>7, <1>9
<1>11. push => ~k.draft.edge
  BY <1>5, <1>6, <1>9
<1>12. \A u \in Tasks : task[u].op # "create"
  BY <1>1, <1>2, TasksByOp
<1>13. ASSUME path = Served(cameraRow) PROVE StepOK(k, path, cameraRow)
  <2>1. path = NoPath
    BY <1>1, <1>2, <1>13, OffIsNotServed DEF TasksOK
  <2>2. edge => Served(row) = NoPath
    BY <1>6, OffIsNotServed
  <2> QED
    BY <1>6, <1>7, <1>9, <2>1, <2>2 DEF StepOK, ProvisionOK
<1>14. edits' \in 0..MaxEdits
  BY <1>1, <1>2, EditsCounted
<1>15. k.draft.active /\ k.draft.seen \in {cameraRow.seen, Long}
  BY <1>6, <1>9
<1>16. r \in Tasks /\ r # Watchdog /\ k.op \in OpsOf(r) /\ k.op # "idle"
  BY <1>9, TwoBackgroundTasks DEF OpsOf
<1> QED
  BY <1>2, <1>9, <1>10, <1>11, <1>12, <1>13, <1>14, <1>15, <1>16, RequestBegins

LEMMA ReadCameraKeeps ==
  ASSUME CamInv, NEW r \in CameraRequests, ReadCamera(r)
  PROVE  CamInv'
<1>1. CameraTypeOK /\ TasksOK /\ OnTheWay /\ StatusFollows /\ cameraRow \in Rows
  BY CamParts, CameraTypes
<1>2. /\ task[r].op = "idle" /\ created /\ edits < MaxEdits /\ edits' = edits + 1
      /\ UNCHANGED <<push, cameraRow, path, ready, hooks, polled, streamAge, blind, created, apart,
                     crossed, calm, stale>>
  BY DEF ReadCamera
<1>3. PICK op \in {"update", "delete"} :
        task' = [task EXCEPT ![r] =
          [op |-> op, step |-> IF op = "update" THEN "write" ELSE "remove",
           draft |-> IF op = "update" THEN cameraRow ELSE NoRow,
           force |-> FALSE, listed |-> FALSE]]
  BY DEF ReadCamera
<1>4. PICK step \in PathSteps : /\ step = IF op = "update" THEN "write" ELSE "remove"
                                /\ op = "update" => step = "write"
                                /\ op = "delete" => step = "remove"
  BY DEF PathSteps
<1>5. PICK row \in Rows : /\ row = IF op = "update" THEN cameraRow ELSE NoRow
                          /\ op = "update" => row = cameraRow
                          /\ op = "delete" => row = NoRow
  BY <1>1, IdleTaskHolds
<1>6. FALSE \in BOOLEAN /\ op \in {"create", "update", "delete", "watchdog", "boot"}
  OBVIOUS
<1>7. PICK k \in TaskRecords :
        /\ k = [op |-> op, step |-> step, draft |-> row, force |-> FALSE, listed |-> FALSE]
        /\ k.op = op /\ k.step = step /\ k.draft = row
  <2> DEFINE kk == [op |-> op, step |-> step, draft |-> row, force |-> FALSE, listed |-> FALSE]
  <2>1. kk \in TaskRecords
    BY <1>6 DEF TaskRecords
  <2>2. kk.op = op /\ kk.step = step /\ kk.draft = row
    OBVIOUS
  <2> QED
    BY <2>1, <2>2
<1>8. task' = [task EXCEPT ![r] = k]
  BY <1>3, <1>4, <1>5, <1>7
<1>9. push => ~k.draft.edge
  BY <1>1, <1>5, <1>7, IdleTaskHolds DEF CameraTypeOK
<1>10. k.draft.seen \in {cameraRow.seen, Long}
  BY <1>5, <1>7, IdleTaskHolds
<1>11. ASSUME path = Served(cameraRow) PROVE StepOK(k, path, cameraRow)
  BY <1>4, <1>5, <1>7, <1>11 DEF StepOK, ProvisionOK, RemovalOK, SamePlace
<1>12. edits' \in 0..MaxEdits
  BY <1>1, <1>2, EditsCounted
<1>13. created /\ (k.op = "update" => k.draft.online = cameraRow.online)
  BY <1>2, <1>5, <1>7
<1>14. r \in Tasks /\ r # Watchdog /\ k.op \in OpsOf(r) /\ k.op \notin {"idle", "create", "boot"}
  BY <1>7, TwoBackgroundTasks DEF OpsOf
<1> QED
  BY <1>2, <1>8, <1>9, <1>10, <1>11, <1>12, <1>13, <1>14, RequestBegins

\* What an update makes of the row that it has read.
LEMMA UpdatedRow ==
  ASSUME NEW old \in Rows, NEW body \in UpdateBodies
  PROVE  \E new \in Rows :
           /\ new = [old EXCEPT !.active = body.active, !.rec = body.rec,
                                !.edge = body.edge, !.url = body.url]
           /\ new.active = body.active /\ new.rec = body.rec
           /\ new.edge = body.edge /\ new.url = body.url
           /\ new.seen = old.seen /\ new.online = old.online
<1>1. /\ body.active \in BOOLEAN /\ body.rec \in BOOLEAN
      /\ body.edge \in BOOLEAN /\ body.url \in Urls
  BY DEF UpdateBodies
<1>2. [old EXCEPT !.active = body.active, !.rec = body.rec,
                  !.edge = body.edge, !.url = body.url] \in Rows
  BY <1>1 DEF Rows
<1> QED
  BY <1>2 DEF Rows

LEMMA UpdateCameraKeeps ==
  ASSUME CamInv, NEW r \in CameraRequests, UpdateCamera(r)
  PROVE  CamInv'
<1>1. CameraTypeOK /\ TasksOK /\ OnTheWay /\ StatusFollows /\ ComesBack /\ cameraRow \in Rows
  BY CamParts, CameraTypes
<1>2. /\ task[r].op = "update" /\ task[r].step = "write"
      /\ UNCHANGED <<push, cameraRow, path, ready, hooks, edits, polled, streamAge, blind, created,
                     crossed, calm, stale>>
  BY DEF UpdateCamera, TaskDoing
<1>3. r \in Tasks /\ r # Watchdog /\ r # Boot
  BY TwoBackgroundTasks
<1>4. task[r] \in TaskRecords /\ task[r].draft \in Rows /\ task \in [Tasks -> TaskRecords]
  BY <1>1, <1>3, CameraTypes
<1>5. PICK body \in UpdateBodies :
        LET old == Draft(r)
            new == [old EXCEPT !.active = body.active, !.rec = body.rec,
                               !.edge = body.edge, !.url = body.url]
            provisions == ~new.edge /\ (body.names \/ new.rec # old.rec)
        IN /\ push => ~new.edge /\ new.url = old.url
           /\ new.url # old.url => body.names
           /\ task' = [task EXCEPT ![r] =
                [task[r] EXCEPT !.step = IF provisions THEN "get" ELSE "commit",
                                !.draft = new, !.force = new.rec # old.rec]]
           /\ Excuse(\/ new.edge # old.edge \/ new.active # old.active
                     \/ ~new.active /\ provisions)
  BY <1>4 DEF UpdateCamera
<1>6. PICK old \in Rows : old = task[r].draft /\ old = Draft(r)
  BY <1>4 DEF Draft
<1>7. PICK new \in Rows :
           /\ new = [old EXCEPT !.active = body.active, !.rec = body.rec,
                                !.edge = body.edge, !.url = body.url]
           /\ new.active = body.active /\ new.rec = body.rec
           /\ new.edge = body.edge /\ new.url = body.url
           /\ new.seen = old.seen /\ new.online = old.online
  BY UpdatedRow
<1> DEFINE provisions == ~new.edge /\ (body.names \/ new.rec # old.rec)
<1>8. /\ push => ~new.edge /\ new.url = old.url
      /\ new.url # old.url => body.names
      /\ task' = [task EXCEPT ![r] =
            [task[r] EXCEPT !.step = IF provisions THEN "get" ELSE "commit",
                            !.draft = new, !.force = new.rec # old.rec]]
      /\ Excuse(\/ new.edge # old.edge \/ new.active # old.active
                \/ ~new.active /\ provisions)
  BY <1>5, <1>6, <1>7
<1>9. PICK step \in PathSteps : /\ step = IF provisions THEN "get" ELSE "commit"
                                /\ provisions => step = "get"
                                /\ ~provisions => step = "commit"
  BY DEF PathSteps
<1>10. PICK force \in BOOLEAN : force = (new.rec # old.rec)
  OBVIOUS
<1>11. PICK k \in TaskRecords :
         /\ k = [task[r] EXCEPT !.step = step, !.draft = new, !.force = force]
         /\ k.op = "update" /\ k.step = step /\ k.draft = new
  <2> DEFINE kk == [task[r] EXCEPT !.step = step, !.draft = new, !.force = force]
  <2>1. kk \in TaskRecords
    BY <1>4 DEF TaskRecords
  <2>2. kk.op = "update" /\ kk.step = step /\ kk.draft = new
    BY <1>2, <1>4 DEF TaskRecords
  <2> QED
    BY <2>1, <2>2
<1>12. task' = [task EXCEPT ![r] = k]
  BY <1>8, <1>9, <1>10, <1>11
<1>13. /\ apart' \in BOOLEAN
       /\ ~apart' => /\ ~apart /\ new.edge = old.edge /\ new.active = old.active
                     /\ provisions => new.active
  BY <1>8, Excused
<1>14. /\ StreamStays /\ path' \in Paths \union {NoPath} /\ ready' \in BOOLEAN
       /\ (ready' => path' # NoPath) /\ hooks' \subseteq {"on", "off"} /\ streamAge' \in 0..Long
  BY <1>1, <1>2, StreamAsItWas
<1> HIDE DEF provisions
<1>15. CameraTypeOK'
  <2>1. task' \in [Tasks -> TaskRecords]
    BY <1>1, <1>3, <1>12, OneTaskMoves
  <2>2. /\ polled' \in BOOLEAN /\ cameraRow' \in Rows /\ created' \in BOOLEAN
        /\ stale' \in BOOLEAN /\ blind' \in BOOLEAN /\ edits' \in 0..MaxEdits
    BY <1>1, <1>2 DEF CameraTypeOK
  <2>3. (push => ~cameraRow'.edge) /\ calm' \in BOOLEAN
    BY <1>1, <1>2 DEF CameraTypeOK
  <2>4. CrossedMoves(r) /\ k.op # "idle"
    BY <1>2, <1>11 DEF CrossedMoves
  <2>5. crossed' \subseteq {u \in Tasks : task'[u].op # "idle"}
    BY <1>1, <1>3, <1>12, <2>4, CrossedKept
  <2> QED
    BY <1>1, <1>2, <1>13, <1>14, <2>1, <2>2, <2>3, <2>5, TypesKept
<1>16. TasksOK'
  <2>1. created
    BY <1>1, <1>2, <1>3 DEF TasksOK, TaskOK
  <2>2. k.op \in OpsOf(r) /\ k.op # "idle" /\ (push => ~k.draft.edge)
    BY <1>3, <1>8, <1>11 DEF OpsOf
  <2> QED
    BY <1>1, <1>2, <1>3, <1>11, <1>12, <2>1, <2>2, TasksKept
<1>17. StatusFollows'
  <2>1. StatusRead(k, r)
    BY <1>2, <1>3, <1>6, <1>7, <1>11 DEF StatusRead
  <2> QED
    BY <1>1, <1>2, <1>3, <1>12, <1>14, <1>15, <2>1, StatusKept
<1>18. ASSUME ~apart', StepOK(task[r], path, cameraRow) PROVE StepOK(k, path, cameraRow)
  <2>1. path = Served(cameraRow) /\ SamePlace(old, cameraRow)
    BY <1>2, <1>6, <1>18 DEF StepOK, ProvisionOK
  <2>2. path = Served(old)
    BY <2>1, SamePlaceSamePath
  <2>3. CASE provisions
    <3>1. new.active /\ ~new.edge /\ step = "get"
      BY <1>9, <1>13, <1>18, <2>3 DEF provisions
    <3> QED
      BY <1>11, <3>1 DEF StepOK, ProvisionOK
  <2>4. CASE ~provisions
    <3>1. step = "commit" /\ new.edge = old.edge /\ new.active = old.active
      BY <1>9, <1>13, <1>18, <2>4
    <3>2. Served(new) = Served(old)
      <4>1. CASE new.edge
        BY <3>1, <4>1, OffIsNotServed
      <4>2. CASE ~new.edge
        <5>1. new.url = old.url /\ new.rec = old.rec
          BY <1>8, <2>4, <4>2 DEF provisions
        <5> QED
          BY <3>1, <5>1, SamePlaceSamePath DEF SamePlace
      <4> QED
        BY <4>1, <4>2
    <3> QED
      BY <1>11, <2>2, <3>1, <3>2 DEF StepOK, ProvisionOK
  <2> QED
    BY <2>3, <2>4
<1>19. MustAct(k) /\ k.op # "idle" /\ k.op = task[r].op /\ SamePlace(cameraRow, cameraRow')
  BY <1>2, <1>11 DEF MustAct, Owes, SamePlace
<1>20. OnTheWay'
  BY <1>1, <1>2, <1>3, <1>12, <1>13, <1>18, <1>19, StepsKeep
<1>21. ComesBack'
  <2>1. Finding => Finding'
    BY <1>1, <1>3, <1>12, FindingKept
  <2> QED
    BY <1>1, <1>2, <2>1, ComesBackKept
<1> QED
  BY <1>15, <1>16, <1>17, <1>20, <1>21 DEF CamInv

LEMMA RemovePathKeeps ==
  ASSUME CamInv, NEW r \in CameraRequests, RemovePath(r)
  PROVE  CamInv'
<1>1. CameraTypeOK /\ TasksOK /\ OnTheWay /\ StatusFollows
  BY CamParts
<1>2. /\ task[r].op # "idle" /\ task[r].step = "remove" /\ TaskGoes(r, "write")
      /\ "write" \in PathSteps /\ r \in Tasks /\ r # Watchdog
      /\ UNCHANGED <<push, cameraRow, edits, polled, blind, created, stale>>
  BY TwoBackgroundTasks DEF RemovePath, TaskDoing, PathSteps
<1>3. PICK k \in TaskRecords : task' = [task EXCEPT ![r] = k] /\ k.step = "write" /\ GoesOnWith(r, k)
  BY <1>1, <1>2, NextStep
<1>4. k.op = task[r].op /\ k.draft = task[r].draft /\ k.op # "idle" /\ k # IdleTask
  BY <1>3, IdleTaskHolds DEF GoesOnWith
<1>5. CASE TakesPath /\ Acts(r, TRUE)
  <2>1. /\ StreamStays /\ path' \in Paths \union {NoPath} /\ ready' \in BOOLEAN
        /\ (ready' => path' # NoPath) /\ hooks' \subseteq {"on", "off"} /\ streamAge' \in 0..Long
        /\ path' = NoPath
    BY <1>1, <1>5, StreamTaken
  <2>2. apart' \in BOOLEAN /\ CrossedMoves(r)
    BY <1>1, <1>2, <1>5, ActsHolds
  <2>3. calm' \in BOOLEAN /\ ~calm'
    BY <1>5 DEF TakesPath
  <2>4. CameraTypeOK' /\ TasksOK' /\ StatusFollows'
    BY <1>2, <1>3, <1>4, <2>1, <2>2, <2>3, CallKeeps
  <2>5. ASSUME StepOK(task[r], path, cameraRow) PROVE Owes(k) /\ StepOK(k, path', cameraRow')
    BY <1>2, <1>3, <1>4, <2>1, <2>5 DEF StepOK, ProvisionOK, RemovalOK, PollOK, BootOK, Owes
  <2>6. OnTheWay'
    BY <1>1, <1>2, <1>3, <1>5, <2>5, ChangesKeep
  <2>7. ComesBack'
    BY <2>3 DEF ComesBack
  <2> QED
    BY <2>4, <2>6, <2>7 DEF CamInv
<1>6. CASE Excuse(TRUE) /\ UNCHANGED <<path, ready, hooks, streamAge, crossed, calm>>
  <2>1. CrossedMoves(r) /\ calm' \in BOOLEAN /\ calm' = calm
    BY <1>1, <1>6 DEF CrossedMoves, CameraTypeOK
  <2> QED
    BY <1>2, <1>3, <1>4, <1>6, <2>1, ExcusedKeeps
<1> QED
  BY <1>5, <1>6 DEF RemovePath

LEMMA DeleteCameraKeeps ==
  ASSUME CamInv, NEW r \in CameraRequests, DeleteCamera(r)
  PROVE  CamInv'
<1>1. CameraTypeOK /\ TasksOK /\ OnTheWay /\ StatusFollows /\ ComesBack
  BY CamParts
<1>2. /\ task[r].op = "delete" /\ task[r].step = "write" /\ TaskGoes(r, "commit")
      /\ "commit" \in PathSteps /\ r \in Tasks /\ r # Watchdog
      /\ UNCHANGED <<push, cameraRow, path, ready, hooks, edits, polled, streamAge, blind, created,
                     apart, crossed, calm, stale>>
  BY TwoBackgroundTasks DEF DeleteCamera, TaskDoing, PathSteps
<1>3. PICK k \in TaskRecords : task' = [task EXCEPT ![r] = k] /\ k.step = "commit" /\ GoesOnWith(r, k)
  BY <1>1, <1>2, NextStep
<1>4. /\ StreamStays /\ path' \in Paths \union {NoPath} /\ ready' \in BOOLEAN
      /\ (ready' => path' # NoPath) /\ hooks' \subseteq {"on", "off"} /\ streamAge' \in 0..Long
  BY <1>1, <1>2, StreamAsItWas
<1>5. apart' \in BOOLEAN /\ calm' \in BOOLEAN /\ CrossedMoves(r) /\ SamePlace(cameraRow, cameraRow')
  BY <1>1, <1>2 DEF CameraTypeOK, CrossedMoves, SamePlace
<1>6. k.op = task[r].op /\ k.draft = task[r].draft /\ k.op # "idle" /\ k # IdleTask /\ MustAct(k)
  BY <1>2, <1>3, IdleTaskHolds DEF GoesOnWith, MustAct, Owes
<1>7. CameraTypeOK' /\ TasksOK' /\ StatusFollows'
  BY <1>2, <1>3, <1>4, <1>5, <1>6, CallKeeps
<1>8. ASSUME StepOK(task[r], path, cameraRow) PROVE StepOK(k, path, cameraRow)
  BY <1>2, <1>3, <1>6, <1>8 DEF StepOK, RemovalOK
<1>9. OnTheWay'
  BY <1>1, <1>2, <1>3, <1>5, <1>6, <1>8, StepsKeep
<1>10. ComesBack'
  <2>1. Finding => Finding'
    BY <1>1, <1>2, <1>3, FindingKept
  <2> QED
    BY <1>1, <1>2, <2>1, ComesBackKept
<1> QED
  BY <1>7, <1>9, <1>10 DEF CamInv

\* The row that a request commits.
LEMMA CommittedRow ==
  ASSUME CamInv, NEW r \in CameraRequests, CommitCamera(r)
  PROVE  /\ cameraRow' \in Rows /\ (push => ~cameraRow'.edge)
         /\ task[r].op = "delete" => cameraRow'.active = FALSE /\ cameraRow'.online = cameraRow.online
                                     /\ cameraRow'.seen = cameraRow.seen
         /\ task[r].op \in {"create", "update"} => cameraRow' = task[r].draft
         /\ task[r].op \in {"create", "update", "delete"}
<1>1. CameraTypeOK /\ TasksOK /\ r \in Tasks /\ cameraRow \in Rows /\ task[r].draft \in Rows
  BY CamParts, TwoBackgroundTasks, CameraTypes
<1>2. task[r].op \in {"create", "update", "delete"}
  BY <1>1, TasksByOp DEF CommitCamera, TaskDoing
<1>3. CASE task[r].op = "delete"
  <2>1. cameraRow' = [cameraRow EXCEPT !.active = FALSE]
    BY <1>3 DEF CommitCamera
  <2>2. cameraRow' \in Rows
    BY <1>1, <2>1 DEF Rows
  <2>3. /\ cameraRow'.active = FALSE /\ cameraRow'.online = cameraRow.online
        /\ cameraRow'.seen = cameraRow.seen /\ cameraRow'.edge = cameraRow.edge
    BY <1>1, <2>1 DEF Rows
  <2>4. push => ~cameraRow'.edge
    BY <1>1, <2>3 DEF CameraTypeOK
  <2> QED
    BY <1>3, <2>2, <2>3, <2>4
<1>4. CASE task[r].op # "delete"
  <2>1. cameraRow' = task[r].draft
    BY <1>4 DEF CommitCamera, Draft
  <2>2. push => ~task[r].draft.edge
    BY <1>1 DEF TasksOK, TaskOK
  <2> QED
    BY <1>1, <1>2, <1>4, <2>1, <2>2
<1> QED
  BY <1>3, <1>4

LEMMA CommitCameraKeeps ==
  ASSUME CamInv, NEW r \in CameraRequests, CommitCamera(r)
  PROVE  CamInv'
<1>1. CameraTypeOK /\ TasksOK /\ OnTheWay /\ StatusFollows
  BY CamParts
<1>2. /\ task[r].op # "idle" /\ task[r].step = "commit" /\ EndsTask(r) /\ created' = TRUE
      /\ stale' = (stale \/ (task[r].op = "update" /\ task[r].draft.online # cameraRow.online))
      /\ streamAge' = IF cameraRow'.active # cameraRow.active THEN 0 ELSE streamAge
      /\ Acts(r, TRUE) /\ calm' = FALSE
      /\ UNCHANGED <<push, path, ready, hooks, edits, polled, blind>>
  BY DEF CommitCamera, TaskDoing, Draft
<1>3. r \in Tasks /\ r # Watchdog /\ r # Boot /\ task[r].draft \in Rows /\ cameraRow \in Rows
  BY <1>1, TwoBackgroundTasks, CameraTypes
<1>4. /\ cameraRow' \in Rows /\ (push => ~cameraRow'.edge)
      /\ task[r].op = "delete" => cameraRow'.active = FALSE /\ cameraRow'.online = cameraRow.online
                                  /\ cameraRow'.seen = cameraRow.seen
      /\ task[r].op \in {"create", "update"} => cameraRow' = task[r].draft
      /\ task[r].op \in {"create", "update", "delete"}
  BY CommittedRow
<1>5. task' \in [Tasks -> TaskRecords] /\ task'[r] = IdleTask
      /\ \A u \in Tasks : u # r => task'[u] = task[u]
  <2>1. task' = [task EXCEPT ![r] = IdleTask] /\ IdleTask \in TaskRecords
    BY <1>2, IdleTaskHolds DEF EndsTask
  <2> QED
    BY <1>1, <1>3, <2>1, OneTaskMoves
<1>6. CameraTypeOK'
  <2>1. created' \in BOOLEAN /\ calm' \in BOOLEAN
    BY <1>2
  <2>2. stale' \in BOOLEAN
    BY <1>2
  <2>3. streamAge' \in 0..Long
    BY <1>1, <1>2, GraceIsNumber DEF CameraTypeOK
  <2>4. /\ polled' \in BOOLEAN /\ blind' \in BOOLEAN /\ ready' \in BOOLEAN
        /\ edits' \in 0..MaxEdits /\ hooks' \subseteq {"on", "off"}
        /\ path' \in Paths \union {NoPath}
    BY <1>1, <1>2 DEF CameraTypeOK
  <2>5. ready' => path' # NoPath
    BY <1>1, <1>2 DEF CameraTypeOK
  <2>6. apart' \in BOOLEAN /\ CrossedMoves(r) /\ r \notin crossed'
    BY <1>1, <1>2, <1>3, ActsHolds
  <2>7. crossed' \subseteq {u \in Tasks : task'[u].op # "idle"}
    BY <1>1, <1>2, <1>3, <2>6, CrossedKept, IdleTaskHolds DEF EndsTask
  <2> QED
    BY <1>1, <1>2, <1>4, <1>5, <2>1, <2>2, <2>3, <2>4, <2>5, <2>6, <2>7, TypesKept
<1>7. TasksOK'
  <2>1. ASSUME NEW u \in Tasks, u # r PROVE task[u].op # "create"
    <3>1. CASE task[r].op = "create"
      BY <1>1, <1>3, <2>1, <3>1 DEF TasksOK, OneCreates
    <3>2. CASE task[r].op \in {"update", "delete"}
      BY <1>1, <1>3, <3>2 DEF TasksOK, TaskOK
    <3> QED
      BY <1>4, <3>1, <3>2
  <2>2. ASSUME NEW u \in Tasks PROVE TaskOK(u)' /\ task'[u].op # "create"
    <3>1. CASE u = r
      <4>1. task'[u] = IdleTask /\ "idle" \in OpsOf(u)
        BY <1>5, <3>1 DEF OpsOf
      <4> QED
        BY <4>1, IdleTaskHolds DEF TaskOK
    <3>2. CASE u # r
      BY <1>1, <1>2, <1>5, <2>1, <3>2 DEF TasksOK, TaskOK
    <3> QED
      BY <3>1, <3>2
  <2> QED
    BY <1>2, <2>2 DEF TasksOK, OneCreates
<1>8. OnTheWay'
  <2>1. ASSUME StepOK(task[r], path, cameraRow) PROVE path' = Served(cameraRow')
    <3>1. CASE task[r].op = "delete"
      BY <1>2, <1>4, <2>1, <3>1, OffIsNotServed DEF StepOK, RemovalOK
    <3>2. CASE task[r].op \in {"create", "update"}
      BY <1>2, <1>4, <2>1, <3>2 DEF StepOK, ProvisionOK
    <3> QED
      BY <1>4, <3>1, <3>2
  <2>2. task' = [task EXCEPT ![r] = IdleTask]
    BY <1>2 DEF EndsTask
  <2> QED
    BY <1>1, <1>2, <1>3, <2>1, <2>2, IdleTaskHolds, ChangesKeep
<1>9. StatusFollows'
  <2>1. task'[Watchdog] = task[Watchdog]
    BY <1>3, <1>5, TwoBackgroundTasks
  <2>2. (Polling => polled)'
    BY <1>1, <1>2, <2>1 DEF StatusFollows, PollIsTrue, Polling
  <2>3. CASE streamAge' = 0
    BY <1>6, <2>3, <2>2, StatusStartsOver
  <2>4. CASE streamAge' # 0
    <3>1. cameraRow'.active = cameraRow.active /\ streamAge' = streamAge
      BY <1>2, <2>4
    <3>2. task[r].op # "create"
      BY <1>1, <1>3, <1>4, <3>1 DEF TasksOK, TaskOK
    <3>3. cameraRow'.online = cameraRow.online \/ stale'
      BY <1>2, <1>4, <3>2
    <3>4. stale => stale'
      BY <1>2
    <3>5. (Dark' <=> Dark) /\ (Bright' <=> Bright) /\ (Polling' <=> Polling)
      BY <1>2, <3>1, <2>1 DEF Dark, Bright, Polling
    <3>6. Shown' => Shown /\ cameraRow'.online = cameraRow.online
      BY <1>2, <3>1, <3>3, <3>4, <2>1 DEF Shown, Polling
    <3>7. SeenBefore'
      <4>1. ASSUME ~ready PROVE cameraRow'.seen >= streamAge
        BY <1>1, <1>3, <1>4, <3>2, <4>1 DEF StatusFollows, SeenBefore
      <4>2. ASSUME ~ready, NEW u \in Tasks PROVE task'[u].draft.seen >= streamAge
        <5>1. streamAge \in 0..Long
          BY <1>1 DEF CameraTypeOK
        <5>2. CASE u = r
          BY <1>5, <5>1, <5>2, IdleTaskHolds, GraceIsNumber
        <5>3. CASE u # r
          BY <1>1, <1>5, <4>2, <5>3 DEF StatusFollows, SeenBefore
        <5> QED
          BY <5>2, <5>3
      <4> QED
        BY <1>2, <3>1, <4>1, <4>2 DEF SeenBefore
    <3>8. ASSUME Dark, ~polled \/ Polling PROVE cameraRow'.online = cameraRow.online
      BY <1>1, <1>3, <1>4, <3>2, <3>8 DEF StatusFollows, DarkIsShown
    <3>9. ASSUME Dark, ~polled \/ Polling, NEW u \in Tasks, task'[u].op = "update"
           PROVE  task'[u].draft.online = cameraRow'.online
      <4>1. u # r /\ task'[u] = task[u]
        BY <1>5, <3>9, IdleTaskHolds
      <4>2. task[u].draft.online = cameraRow.online
        BY <1>1, <3>9, <4>1 DEF StatusFollows, DarkIsShown
      <4> QED
        BY <3>8, <3>9, <4>1, <4>2
    <3>10. DarkIsShown'
      <4>1. ASSUME Dark PROVE Shown' => ~cameraRow'.online
        BY <1>1, <2>1, <3>6, <4>1 DEF StatusFollows, DarkIsShown
      <4>2. ASSUME Dark, Polling, cameraRow'.online PROVE task'[Watchdog].draft.online
        BY <1>1, <2>1, <3>8, <4>2 DEF StatusFollows, DarkIsShown
      <4> QED
        BY <1>2, <3>5, <3>9, <4>1, <4>2 DEF DarkIsShown
    <3>11. BrightIsShown'
      BY <1>1, <1>2, <2>1, <3>5, <3>6 DEF StatusFollows, BrightIsShown
    <3>12. hooks' # {} => streamAge' = 0
      BY <1>1, <1>2, <3>1 DEF StatusFollows
    <3>13. PollIsTrue'
      BY <1>1, <1>2, <2>1, <2>2, <3>1 DEF StatusFollows, PollIsTrue
    <3> QED
      BY <3>7, <3>10, <3>11, <3>12, <3>13 DEF StatusFollows
  <2> QED
    BY <2>3, <2>4
<1>10. ComesBack'
  BY <1>2 DEF ComesBack
<1> QED
  BY <1>6, <1>7, <1>8, <1>9, <1>10 DEF CamInv

-----------------------------------------------------------------------------
(* The watchdog and the boot of the API. *)

LEMMA WatchdogSkipsKeeps ==
  ASSUME CamInv, WatchdogReads, ~cameraRow.active
  PROVE  CamInv'
<1>1. CameraTypeOK /\ TasksOK /\ OnTheWay /\ StatusFollows
  BY CamParts
<1>2. /\ task[Watchdog].op = "idle" /\ polled' = TRUE /\ task' = task
      /\ UNCHANGED <<push, cameraRow, path, ready, hooks, edits, streamAge, created, apart, crossed,
                     calm, stale>>
      /\ blind' \in BOOLEAN
  BY DEF WatchdogReads
<1>3. ComesBack'
  BY <1>2 DEF ComesBack
<1>4. CameraTypeOK'
  <2>1. polled' \in BOOLEAN
    BY <1>2
  <2> QED
    BY <1>1, <1>2, <2>1 DEF CameraTypeOK
<1>5. TasksOK'
  BY <1>1, <1>2 DEF TasksOK, TaskOK, OneCreates
<1>6. OnTheWay'
  <2>1. SamePlace(cameraRow, cameraRow')
    BY <1>2 DEF SamePlace
  <2> QED
    BY <1>1, <1>2, <2>1, PathUntouched
<1>7. ~Shown' /\ ~Polling' /\ polled'
  BY <1>2 DEF Shown, Polling
<1>8. SeenBefore' /\ PollIsTrue' /\ (hooks' # {} => streamAge' = 0)
  BY <1>1, <1>2, <1>7 DEF StatusFollows, SeenBefore, PollIsTrue
<1>9. DarkIsShown' /\ BrightIsShown'
  BY <1>1, <1>2, <1>7 DEF StatusFollows, DarkIsShown, BrightIsShown, Dark
<1> QED
  BY <1>3, <1>4, <1>5, <1>6, <1>8, <1>9 DEF CamInv, StatusFollows

LEMMA WatchdogReadsKeeps ==
  ASSUME CamInv, WatchdogReads, cameraRow.active
  PROVE  CamInv'
<1>1. CameraTypeOK /\ TasksOK /\ OnTheWay /\ StatusFollows /\ cameraRow \in Rows
  BY CamParts, CameraTypes
<1>2. /\ task[Watchdog].op = "idle" /\ ~polled /\ polled' = TRUE
      /\ UNCHANGED <<push, cameraRow, path, ready, hooks, edits, streamAge, created, apart, crossed,
                     calm, stale>>
  BY DEF WatchdogReads
<1>3. PICK works \in BOOLEAN :
        /\ blind' = ~works
        /\ task' = [task EXCEPT ![Watchdog] =
                     [op |-> "watchdog",
                      step |-> IF (~works \/ path = NoPath) /\ Pulls THEN "get" ELSE "status",
                      draft |-> cameraRow, force |-> FALSE, listed |-> works /\ ready]]
  BY DEF WatchdogReads
<1>4. PICK step \in PathSteps :
        /\ step = IF (~works \/ path = NoPath) /\ Pulls THEN "get" ELSE "status"
        /\ step \in {"get", "status"} /\ (step = "get" => Pulls)
        /\ path = NoPath /\ Pulls => step = "get"
  BY DEF PathSteps
<1>5. PICK seesIt \in BOOLEAN : seesIt = (works /\ ready)
  OBVIOUS
<1>6. FALSE \in BOOLEAN
  OBVIOUS
<1>7. PICK k \in TaskRecords :
        /\ k = [op |-> "watchdog", step |-> step, draft |-> cameraRow, force |-> FALSE,
                listed |-> seesIt]
        /\ k.op = "watchdog" /\ k.step = step /\ k.draft = cameraRow
        /\ k.force = FALSE /\ k.listed = seesIt
  <2> DEFINE kk == [op |-> "watchdog", step |-> step, draft |-> cameraRow, force |-> FALSE,
                    listed |-> seesIt]
  <2>1. kk \in TaskRecords
    BY <1>6, <1>1 DEF TaskRecords
  <2>2. /\ kk.op = "watchdog" /\ kk.step = step /\ kk.draft = cameraRow
        /\ kk.force = FALSE /\ kk.listed = seesIt
    OBVIOUS
  <2> QED
    BY <2>1, <2>2
<1>8. task' = [task EXCEPT ![Watchdog] = k]
  BY <1>3, <1>4, <1>5, <1>7
<1>9. task' \in [Tasks -> TaskRecords] /\ task'[Watchdog] = k
      /\ \A u \in Tasks : u # Watchdog => task'[u] = task[u]
  BY <1>1, <1>8, OneTaskMoves, TwoBackgroundTasks
<1>10. Watchdog \in Tasks /\ Watchdog \notin crossed /\ SamePlace(cameraRow, cameraRow')
       /\ CrossedMoves(Watchdog) /\ apart' \in BOOLEAN /\ calm' \in BOOLEAN
  BY <1>1, <1>2, TwoBackgroundTasks DEF CameraTypeOK, SamePlace, CrossedMoves
<1>11. CameraTypeOK'
  <2>1. polled' \in BOOLEAN
    BY <1>2
  <2>2. blind' \in BOOLEAN
    BY <1>3
  <2>3. /\ cameraRow' \in Rows /\ created' \in BOOLEAN /\ stale' \in BOOLEAN /\ ready' \in BOOLEAN
        /\ edits' \in 0..MaxEdits /\ hooks' \subseteq {"on", "off"} /\ streamAge' \in 0..Long
        /\ path' \in Paths \union {NoPath}
    BY <1>1, <1>2 DEF CameraTypeOK
  <2>4. (ready' => path' # NoPath) /\ (push => ~cameraRow'.edge)
    BY <1>1, <1>2 DEF CameraTypeOK
  <2>5. crossed' \subseteq {u \in Tasks : task'[u].op # "idle"}
    BY <1>1, <1>7, <1>8, <1>10, CrossedKept
  <2> QED
    BY <1>1, <1>2, <1>9, <1>10, <2>1, <2>2, <2>3, <2>4, <2>5, TypesKept
<1>12. TasksOK'
  <2>1. k.op \in OpsOf(Watchdog) /\ k.op \notin {"idle", "create", "update", "delete", "boot"}
    BY <1>7 DEF OpsOf
  <2>2. push => ~k.draft.edge
    BY <1>1, <1>7 DEF CameraTypeOK
  <2> QED
    BY <1>1, <1>2, <1>8, <2>1, <2>2, TasksKept, TwoBackgroundTasks
<1>13. OnTheWay'
  <2>1. ASSUME path = Served(cameraRow) PROVE StepOK(k, path, cameraRow)
    BY <1>4, <1>7, <2>1 DEF StepOK, PollOK, SamePlace, Pulls
  <2>2. k.op # "idle"
    BY <1>7
  <2> QED
    BY <1>1, <1>2, <1>8, <1>10, <2>1, <2>2, StepsKeep
<1>14. StatusFollows'
  <2>1. (Dark' <=> Dark) /\ (Bright' <=> Bright) /\ Polling' /\ ~Shown'
    BY <1>2, <1>7, <1>9 DEF Dark, Bright, Polling, Shown
  <2>2. SeenBefore'
    BY <1>1, <1>2, <1>7, <1>9 DEF StatusFollows, SeenBefore
  <2>3. PollIsTrue'
    BY <1>2, <1>5, <1>7, <1>9 DEF PollIsTrue
  <2>4. ASSUME Dark, NEW u \in Tasks, task'[u].op = "update"
        PROVE  task'[u].draft.online = cameraRow.online
    <3>1. u # Watchdog /\ task'[u] = task[u]
      BY <1>7, <1>9, <2>4
    <3> QED
      BY <1>1, <1>2, <2>4, <3>1 DEF StatusFollows, DarkIsShown
  <2>5. DarkIsShown'
    BY <1>2, <1>7, <1>9, <2>1, <2>4 DEF DarkIsShown
  <2>6. Bright => task'[Watchdog].listed \/ blind'
    BY <1>3, <1>5, <1>7, <1>9 DEF Bright
  <2>7. BrightIsShown'
    BY <2>1, <2>6 DEF BrightIsShown
  <2>8. hooks' # {} => streamAge' = 0
    BY <1>1, <1>2 DEF StatusFollows
  <2> QED
    BY <2>2, <2>3, <2>5, <2>7, <2>8 DEF StatusFollows
<1>15. ComesBack'
  <2>1. path = NoPath /\ Pulls => Finding'
    BY <1>4, <1>7, <1>9 DEF Finding
  <2>2. Pulls' <=> Pulls
    BY <1>2 DEF Pulls
  <2> QED
    BY <1>2, <2>1, <2>2 DEF ComesBack
<1> QED
  BY <1>11, <1>12, <1>13, <1>14, <1>15 DEF CamInv

\* What the watchdog makes of the row.
LEMMA PolledRow ==
  ASSUME CameraTypeOK, WatchdogWrites
  PROVE  /\ cameraRow' \in Rows /\ SamePlace(cameraRow, cameraRow')
         /\ task[Watchdog].listed => cameraRow'.online /\ cameraRow'.seen = 0
         /\ ~task[Watchdog].listed =>
              /\ cameraRow'.seen = cameraRow.seen
              /\ IF task[Watchdog].draft.online /\ task[Watchdog].draft.seen > Grace
                 THEN ~cameraRow'.online ELSE cameraRow' = cameraRow
<1>1. cameraRow \in Rows /\ 0 \in 0..Long
  BY CameraTypes, GraceIsNumber
<1>2. TRUE \in BOOLEAN /\ FALSE \in BOOLEAN
  OBVIOUS
<1>3. CASE task[Watchdog].listed
  <2>1. cameraRow' = [cameraRow EXCEPT !.online = TRUE, !.seen = 0]
    BY <1>3 DEF WatchdogWrites
  <2>2. cameraRow' \in Rows
    BY <1>1, <1>2, <2>1 DEF Rows
  <2>3. cameraRow'.online = TRUE /\ cameraRow'.seen = 0 /\ SamePlace(cameraRow, cameraRow')
    BY <1>1, <2>1 DEF Rows, SamePlace
  <2> QED
    BY <1>3, <2>2, <2>3
<1>4. CASE ~task[Watchdog].listed /\ task[Watchdog].draft.online /\ task[Watchdog].draft.seen > Grace
  <2>1. cameraRow' = [cameraRow EXCEPT !.online = FALSE]
    BY <1>4 DEF WatchdogWrites, Draft
  <2>2. cameraRow' \in Rows
    BY <1>1, <1>2, <2>1 DEF Rows
  <2>3. cameraRow'.online = FALSE /\ cameraRow'.seen = cameraRow.seen /\ SamePlace(cameraRow, cameraRow')
    BY <1>1, <2>1 DEF Rows, SamePlace
  <2> QED
    BY <1>4, <2>2, <2>3
<1>5. CASE ~task[Watchdog].listed /\ ~(task[Watchdog].draft.online /\ task[Watchdog].draft.seen > Grace)
  <2>1. cameraRow' = cameraRow
    BY <1>5 DEF WatchdogWrites, Draft
  <2> QED
    BY <1>1, <1>5, <2>1 DEF SamePlace
<1> QED
  BY <1>3, <1>4, <1>5

LEMMA WatchdogWritesKeeps ==
  ASSUME CamInv, WatchdogWrites
  PROVE  CamInv'
<1>1. CameraTypeOK /\ TasksOK /\ OnTheWay /\ StatusFollows /\ ComesBack /\ cameraRow \in Rows
  BY CamParts, CameraTypes
<1>2. /\ task[Watchdog].op # "idle" /\ task[Watchdog].step = "status" /\ EndsTask(Watchdog)
      /\ stale' = (stale /\ task[Watchdog].listed # ready) /\ crossed' = crossed \ {Watchdog}
      /\ UNCHANGED <<push, path, ready, hooks, edits, polled, streamAge, blind, created, apart, calm>>
  BY DEF WatchdogWrites, TaskDoing, Leaves
<1>3. /\ cameraRow' \in Rows /\ SamePlace(cameraRow, cameraRow')
      /\ task[Watchdog].listed => cameraRow'.online /\ cameraRow'.seen = 0
      /\ ~task[Watchdog].listed =>
           /\ cameraRow'.seen = cameraRow.seen
           /\ IF task[Watchdog].draft.online /\ task[Watchdog].draft.seen > Grace
              THEN ~cameraRow'.online ELSE cameraRow' = cameraRow
  BY <1>1, PolledRow
<1>4. task' \in [Tasks -> TaskRecords] /\ task'[Watchdog] = IdleTask
      /\ \A u \in Tasks : u # Watchdog => task'[u] = task[u]
  <2>1. task' = [task EXCEPT ![Watchdog] = IdleTask] /\ IdleTask \in TaskRecords
    BY <1>2, IdleTaskHolds DEF EndsTask
  <2> QED
    BY <1>1, <2>1, OneTaskMoves, TwoBackgroundTasks
<1>5. cameraRow'.active = cameraRow.active /\ cameraRow'.edge = cameraRow.edge
  BY <1>3 DEF SamePlace
<1>6. CameraTypeOK'
  <2>1. stale' \in BOOLEAN
    BY <1>2
  <2>2. /\ polled' \in BOOLEAN /\ created' \in BOOLEAN /\ blind' \in BOOLEAN /\ ready' \in BOOLEAN
        /\ edits' \in 0..MaxEdits /\ hooks' \subseteq {"on", "off"} /\ streamAge' \in 0..Long
        /\ path' \in Paths \union {NoPath} /\ apart' \in BOOLEAN /\ calm' \in BOOLEAN
    BY <1>1, <1>2 DEF CameraTypeOK
  <2>3. (ready' => path' # NoPath) /\ (push => ~cameraRow'.edge)
    BY <1>1, <1>2, <1>5 DEF CameraTypeOK
  <2>4. crossed' \subseteq {u \in Tasks : task'[u].op # "idle"}
    BY <1>1, <1>2, CrossedKept, IdleTaskHolds, TwoBackgroundTasks DEF EndsTask, CrossedMoves
  <2> QED
    BY <1>1, <1>2, <1>3, <1>4, <2>1, <2>2, <2>3, <2>4, TypesKept
<1>7. TasksOK'
  <2>1. ASSUME NEW u \in Tasks PROVE TaskOK(u)' /\ (task'[u].op = "create" => task[u].op = "create")
    <3>1. CASE u = Watchdog
      <4>1. task'[u] = IdleTask /\ "idle" \in OpsOf(u)
        BY <1>4, <3>1 DEF OpsOf
      <4> QED
        BY <4>1, IdleTaskHolds DEF TaskOK
    <3>2. CASE u # Watchdog
      BY <1>1, <1>2, <1>4, <3>2 DEF TasksOK, TaskOK
    <3> QED
      BY <3>1, <3>2
  <2>2. OneCreates'
    BY <1>1, <2>1 DEF TasksOK, OneCreates
  <2>3. ~created' => ~cameraRow'.active
    BY <1>1, <1>2, <1>5 DEF TasksOK
  <2> QED
    BY <2>1, <2>2, <2>3 DEF TasksOK
<1>8. OnTheWay'
  <2>1. task[Watchdog].op = "watchdog"
    BY <1>1, <1>2, TwoBackgroundTasks DEF TasksOK, TaskOK, OpsOf
  <2>2. ~MustAct(task[Watchdog])
    BY <1>2, <2>1 DEF MustAct, Owes
  <2>3. task' = [task EXCEPT ![Watchdog] = IdleTask]
    BY <1>2 DEF EndsTask
  <2> QED
    BY <1>1, <1>2, <1>3, <2>1, <2>2, <2>3, IdleTaskHolds, TwoBackgroundTasks, StepsKeep
<1>9. StatusFollows'
  <2>1. ~Polling' /\ Polling /\ polled'
    BY <1>1, <1>2, <1>4, IdleTaskHolds DEF StatusFollows, PollIsTrue, Polling
  <2>2. CASE streamAge' = 0
    BY <1>6, <2>2, <2>1, StatusStartsOver
  <2>3. CASE streamAge' # 0
    <3>1. streamAge \in 0..Long /\ streamAge # 0
      BY <1>1, <1>2, <2>3 DEF CameraTypeOK
    <3>2. (Dark' <=> Dark) /\ (Bright' <=> Bright)
      BY <1>2 DEF Dark, Bright
    <3>3. ASSUME NEW u \in Tasks, ~ready PROVE task'[u].draft.seen >= streamAge
      <4>1. CASE u = Watchdog
        BY <1>4, <3>1, <4>1, IdleTaskHolds, GraceIsNumber
      <4>2. CASE u # Watchdog
        BY <1>1, <1>4, <3>3, <4>2 DEF StatusFollows, SeenBefore
      <4> QED
        BY <4>1, <4>2
    <3>4. ASSUME ~ready PROVE ~task[Watchdog].listed
      BY <1>1, <3>1, <3>4, GraceIsNumber DEF StatusFollows, PollIsTrue
    <3>5. SeenBefore'
      <4>1. ASSUME ~ready PROVE cameraRow'.seen >= streamAge
        BY <1>1, <1>3, <3>4, <4>1 DEF StatusFollows, SeenBefore
      <4> QED
        BY <1>2, <3>3, <4>1 DEF SeenBefore
    <3>6. PollIsTrue'
      <4>1. ~task'[Watchdog].listed
        BY <1>4, IdleTaskHolds
      <4> QED
        BY <2>1, <4>1 DEF PollIsTrue
    <3>7. ASSUME Dark PROVE ~cameraRow'.online
      <4>1. ~ready /\ streamAge > Grace
        BY <3>1, <3>7, GraceIsNumber DEF Dark
      <4>2. ~task[Watchdog].listed
        BY <3>4, <4>1
      <4>3. task[Watchdog].draft.seen >= streamAge /\ task[Watchdog].draft.seen \in 0..Long
        BY <1>1, <4>1, TwoBackgroundTasks, CameraTypes, RowFields DEF StatusFollows, SeenBefore
      <4>4. task[Watchdog].draft.seen > Grace
        BY <3>1, <4>1, <4>3, GraceIsNumber
      <4>5. cameraRow.online => task[Watchdog].draft.online
        BY <1>1, <2>1, <3>7 DEF StatusFollows, DarkIsShown
      <4> QED
        BY <1>3, <4>2, <4>4, <4>5
    <3>8. DarkIsShown'
      BY <2>1, <3>2, <3>7 DEF DarkIsShown
    <3>9. BrightIsShown'
      <4>1. Bright /\ Shown' => cameraRow'.online \/ blind
        BY <1>1, <1>3, <2>1 DEF StatusFollows, BrightIsShown
      <4> QED
        BY <1>2, <2>1, <3>2, <4>1 DEF BrightIsShown
    <3>10. hooks' # {} => streamAge' = 0
      BY <1>1, <1>2 DEF StatusFollows
    <3> QED
      BY <3>5, <3>6, <3>8, <3>9, <3>10 DEF StatusFollows
  <2> QED
    BY <2>2, <2>3
<1>10. ComesBack'
  <2>1. ~Finding
    BY <1>2 DEF Finding
  <2> QED
    BY <1>1, <1>2, <1>5, <2>1, ComesBackKept
<1> QED
  BY <1>6, <1>7, <1>8, <1>9, <1>10 DEF CamInv

LEMMA BootReadsKeeps ==
  ASSUME CamInv, BootReads
  PROVE  CamInv'
<1>1. CameraTypeOK /\ TasksOK /\ OnTheWay /\ StatusFollows /\ cameraRow \in Rows
  BY CamParts, CameraTypes
<1>2. /\ task[Boot].op = "idle" /\ edits < MaxEdits /\ edits' = edits + 1
      /\ cameraRow.active /\ ~cameraRow.edge
      /\ task' = [task EXCEPT ![Boot] = [op |-> "boot", step |-> "get", draft |-> cameraRow,
                                         force |-> TRUE, listed |-> FALSE]]
      /\ UNCHANGED <<push, cameraRow, path, ready, hooks, polled, streamAge, blind, created, apart,
                     crossed, calm, stale>>
  BY DEF BootReads
<1>3. TRUE \in BOOLEAN /\ FALSE \in BOOLEAN /\ "get" \in PathSteps
  BY DEF PathSteps
<1>4. PICK k \in TaskRecords :
        /\ k = [op |-> "boot", step |-> "get", draft |-> cameraRow, force |-> TRUE, listed |-> FALSE]
        /\ k.op = "boot" /\ k.step = "get" /\ k.draft = cameraRow /\ k.force = TRUE
  <2> DEFINE kk == [op |-> "boot", step |-> "get", draft |-> cameraRow, force |-> TRUE, listed |-> FALSE]
  <2>1. kk \in TaskRecords
    BY <1>1, <1>3 DEF TaskRecords
  <2>2. kk.op = "boot" /\ kk.step = "get" /\ kk.draft = cameraRow /\ kk.force = TRUE
    OBVIOUS
  <2> QED
    BY <2>1, <2>2
<1>5. task' = [task EXCEPT ![Boot] = k]
  BY <1>2, <1>4
<1>6. Boot \in Tasks /\ Boot # Watchdog /\ k.op \in OpsOf(Boot) /\ k.op \notin {"idle", "create", "update", "delete"}
  BY <1>4, TwoBackgroundTasks DEF OpsOf
<1>7. StepOK(k, path, cameraRow)
  BY <1>2, <1>4 DEF StepOK, BootOK, SamePlace
<1>8. edits' \in 0..MaxEdits
  BY <1>1, <1>2, EditsCounted
<1>9. (push => ~k.draft.edge) /\ k.draft.seen \in {cameraRow.seen, Long} /\ k.force
  BY <1>2, <1>4
<1> QED
  BY <1>2, <1>5, <1>6, <1>7, <1>8, <1>9, RequestBegins

-----------------------------------------------------------------------------
(* MediaMTX, its webhooks and the clock: no task moves. *)

LEMMA TasksUntouched ==
  ASSUME TasksOK, task' = task, push' = push, created' = created,
         cameraRow'.active = cameraRow.active
  PROVE  TasksOK'
BY DEF TasksOK, TaskOK, OneCreates

LEMMA StreamChangesKeeps ==
  ASSUME CamInv, StreamChanges
  PROVE  CamInv'
<1>1. CameraTypeOK /\ TasksOK /\ OnTheWay /\ StatusFollows /\ ComesBack
  BY CamParts
<1>2. /\ path # NoPath /\ ready' = ~ready /\ streamAge' = 0
      /\ hooks' = hooks \union {IF ready THEN "off" ELSE "on"}
      /\ UNCHANGED <<push, cameraRow, path, task, edits, polled, blind, created, apart, crossed, calm,
                     stale>>
  BY DEF StreamChanges
<1>3. CameraTypeOK'
  <2>1. ready' \in BOOLEAN
    BY <1>2
  <2>2. hooks' \subseteq {"on", "off"}
    BY <1>1, <1>2 DEF CameraTypeOK
  <2>3. streamAge' \in 0..Long
    BY <1>2, GraceIsNumber
  <2> QED
    BY <1>1, <1>2, <2>1, <2>2, <2>3 DEF CameraTypeOK
<1>4. TasksOK'
  BY <1>1, <1>2, TasksUntouched
<1>5. OnTheWay'
  <2>1. SamePlace(cameraRow, cameraRow')
    BY <1>2 DEF SamePlace
  <2> QED
    BY <1>1, <1>2, <2>1, PathUntouched
<1>6. StatusFollows'
  BY <1>1, <1>2, <1>3, StatusUntouched DEF StreamStays
<1>7. ComesBack'
  BY <1>2 DEF ComesBack
<1> QED
  BY <1>3, <1>4, <1>5, <1>6, <1>7 DEF CamInv

LEMMA MediaMTXRestartsKeeps ==
  ASSUME CamInv, MediaMTXRestarts
  PROVE  CamInv'
<1>1. CameraTypeOK /\ TasksOK /\ OnTheWay /\ StatusFollows
  BY CamParts
<1>2. /\ path' = NoPath /\ ready' = FALSE /\ streamAge' = IF ready THEN 0 ELSE streamAge
      /\ Excuse(TRUE) /\ calm' = FALSE
      /\ UNCHANGED <<push, cameraRow, hooks, task, edits, polled, blind, created, crossed, stale>>
  BY DEF MediaMTXRestarts
<1>3. apart' \in BOOLEAN /\ apart'
  BY <1>2, Excused DEF Excuse
<1>4. CameraTypeOK'
  <2>1. ready' \in BOOLEAN /\ calm' \in BOOLEAN /\ (ready' => path' # NoPath)
    BY <1>2
  <2>2. streamAge' \in 0..Long
    BY <1>1, <1>2, GraceIsNumber DEF CameraTypeOK
  <2> QED
    BY <1>1, <1>2, <1>3, <2>1, <2>2 DEF CameraTypeOK
<1>5. TasksOK'
  BY <1>1, <1>2, TasksUntouched
<1>6. StreamStays
  <2>1. CASE ready
    BY <1>2, <2>1 DEF StreamStays
  <2>2. CASE ~ready
    <3>1. ready' = ready
      BY <1>1, <1>2, <2>2 DEF CameraTypeOK
    <3> QED
      BY <1>2, <2>2, <3>1 DEF StreamStays
  <2> QED
    BY <2>1, <2>2
<1>7. StatusFollows'
  BY <1>1, <1>2, <1>4, <1>6, StatusUntouched
<1>8. ComesBack'
  BY <1>2 DEF ComesBack
<1> QED
  BY <1>3, <1>4, <1>5, <1>7, <1>8 DEF CamInv, OnTheWay

LEMMA HookArrivesKeeps ==
  ASSUME CamInv, NEW h \in hooks, HookArrives(h)
  PROVE  CamInv'
<1>1. CameraTypeOK /\ TasksOK /\ OnTheWay /\ StatusFollows /\ ComesBack /\ cameraRow \in Rows
  BY CamParts, CameraTypes
<1>2. /\ hooks' = hooks \ {h}
      /\ \/ cameraRow' = cameraRow
         \/ cameraRow' = [cameraRow EXCEPT !.online = TRUE, !.seen = 0]
         \/ cameraRow' = [cameraRow EXCEPT !.online = FALSE]
      /\ UNCHANGED <<push, path, ready, task, edits, polled, streamAge, blind, created, apart,
                     crossed, calm, stale>>
  BY DEF HookArrives
<1>3. cameraRow' \in Rows /\ SamePlace(cameraRow, cameraRow')
  <2>1. TRUE \in BOOLEAN /\ FALSE \in BOOLEAN /\ 0 \in 0..Long
    BY GraceIsNumber
  <2>2. CASE cameraRow' = cameraRow
    BY <1>1, <2>2 DEF SamePlace
  <2>3. CASE cameraRow' = [cameraRow EXCEPT !.online = TRUE, !.seen = 0]
    <3>1. cameraRow' \in Rows
      BY <1>1, <2>1, <2>3 DEF Rows
    <3>2. SamePlace(cameraRow, cameraRow')
      BY <1>1, <2>3 DEF Rows, SamePlace
    <3> QED
      BY <3>1, <3>2
  <2>4. CASE cameraRow' = [cameraRow EXCEPT !.online = FALSE]
    <3>1. cameraRow' \in Rows
      BY <1>1, <2>1, <2>4 DEF Rows
    <3>2. SamePlace(cameraRow, cameraRow')
      BY <1>1, <2>4 DEF Rows, SamePlace
    <3> QED
      BY <3>1, <3>2
  <2> QED
    BY <1>2, <2>2, <2>3, <2>4
<1>4. cameraRow'.active = cameraRow.active /\ cameraRow'.edge = cameraRow.edge
  BY <1>3 DEF SamePlace
<1>5. CameraTypeOK'
  <2>1. hooks' \subseteq {"on", "off"}
    BY <1>1, <1>2 DEF CameraTypeOK
  <2> QED
    BY <1>1, <1>2, <1>3, <1>4, <2>1 DEF CameraTypeOK
<1>6. TasksOK'
  BY <1>1, <1>2, <1>4, TasksUntouched
<1>7. OnTheWay'
  BY <1>1, <1>2, <1>3, PathUntouched
<1>8. StatusFollows'
  <2>1. streamAge' = 0
    BY <1>1, <1>2 DEF StatusFollows
  <2>2. (Polling => polled)'
    BY <1>1, <1>2 DEF StatusFollows, PollIsTrue, Polling
  <2> QED
    BY <1>5, <2>1, <2>2, StatusStartsOver
<1>9. ComesBack'
  BY <1>1, <1>2, <1>4, ComesBackKept DEF Finding
<1> QED
  BY <1>5, <1>6, <1>7, <1>8, <1>9 DEF CamInv

LEMMA NextPeriodKeeps ==
  ASSUME CamInv, NextPeriod
  PROVE  CamInv'
<1>1. CameraTypeOK /\ TasksOK /\ OnTheWay /\ StatusFollows /\ cameraRow \in Rows
  BY CamParts, CameraTypes
<1>2. /\ Quiet /\ hooks = {} /\ polled' = FALSE /\ streamAge' = Plus1(streamAge)
      /\ cameraRow' = [cameraRow EXCEPT !.seen = Plus1(cameraRow.seen)]
      /\ UNCHANGED <<push, path, ready, hooks, task, edits, blind, created, apart, crossed, stale>>
      /\ calm' = TRUE
  BY <1>1 DEF NextPeriod, Rows
<1>3. cameraRow.seen \in 0..Long /\ streamAge \in 0..Long
  BY <1>1, RowFields DEF CameraTypeOK
<1>4. Plus1(cameraRow.seen) \in 0..Long /\ streamAge' \in 0..Long
  BY <1>2, <1>3, AgesGrow
<1>5. /\ cameraRow' \in Rows /\ SamePlace(cameraRow, cameraRow')
      /\ cameraRow'.seen = Plus1(cameraRow.seen)
  <2>1. cameraRow' \in Rows
    BY <1>1, <1>2, <1>4 DEF Rows
  <2>2. SamePlace(cameraRow, cameraRow') /\ cameraRow'.seen = Plus1(cameraRow.seen)
    BY <1>1, <1>2 DEF Rows, SamePlace
  <2> QED
    BY <2>1, <2>2
<1>6. cameraRow'.active = cameraRow.active /\ cameraRow'.edge = cameraRow.edge
  BY <1>5 DEF SamePlace
<1>7. CameraTypeOK'
  <2>1. polled' \in BOOLEAN /\ calm' \in BOOLEAN
    BY <1>2
  <2> QED
    BY <1>1, <1>2, <1>4, <1>5, <1>6, <2>1 DEF CameraTypeOK
<1>8. TasksOK'
  BY <1>1, <1>2, <1>6, TasksUntouched
<1>9. OnTheWay'
  BY <1>1, <1>2, <1>5, PathUntouched
<1>10. ASSUME NEW t \in Tasks
       PROVE  /\ task'[t].op = "idle" /\ task'[t].draft.seen = Long /\ ~task'[t].listed
  <2>1. task[t] = IdleTask
    BY <1>1, <1>2 DEF Quiet, TasksOK, TaskOK
  <2> QED
    BY <1>2, <2>1, IdleTaskHolds
<1>11. StatusFollows'
  <2>1. ~Polling' /\ ~Shown' /\ ~task'[Watchdog].listed
    BY <1>2, <1>10, TwoBackgroundTasks DEF Polling, Shown
  <2>2. SeenBefore'
    <3>1. ASSUME ~ready PROVE cameraRow'.seen >= streamAge'
      <4>1. cameraRow.seen >= streamAge
        BY <1>1, <3>1 DEF StatusFollows, SeenBefore
      <4> QED
        BY <1>2, <1>3, <1>5, <4>1, AgesGrow
    <3>2. ASSUME NEW t \in Tasks PROVE task'[t].draft.seen >= streamAge'
      BY <1>4, <1>10, GraceIsNumber
    <3> QED
      BY <1>2, <3>1, <3>2 DEF SeenBefore
  <2>3. PollIsTrue'
    BY <2>1 DEF PollIsTrue
  <2>4. DarkIsShown'
    BY <1>10, <2>1 DEF DarkIsShown
  <2>5. BrightIsShown'
    BY <2>1 DEF BrightIsShown
  <2>6. hooks' = {}
    BY <1>2
  <2> QED
    BY <2>2, <2>3, <2>4, <2>5, <2>6 DEF StatusFollows
<1>12. ComesBack'
  BY <1>2 DEF ComesBack
<1> QED
  BY <1>7, <1>8, <1>9, <1>11, <1>12 DEF CamInv

-----------------------------------------------------------------------------
(* The start, and all steps together. *)

LEMMA CameraStarts == CameraInit => CamInv
<1> SUFFICES ASSUME CameraInit PROVE CamInv
  OBVIOUS
<1>1. /\ ready = FALSE /\ hooks = {} /\ task = [t \in Tasks |-> IdleTask]
      /\ edits = 0 /\ polled = FALSE /\ streamAge = 0 /\ blind = FALSE
      /\ apart = FALSE /\ stale = FALSE /\ push \in BOOLEAN /\ crossed = {} /\ calm = FALSE
  BY DEF CameraInit
<1>2. /\ cameraRow \in Rows /\ path \in Paths \union {NoPath} /\ created \in BOOLEAN
      /\ (push => ~cameraRow.edge) /\ path = Served(cameraRow)
      /\ (~created => ~cameraRow.active)
  <2>1. CASE cameraRow = NoRow /\ path = NoPath /\ created = FALSE
    <3>1. created \in BOOLEAN
      BY <2>1
    <3>2. ~cameraRow.active /\ ~cameraRow.edge /\ cameraRow \in Rows
      BY <2>1, IdleTaskHolds
    <3> QED
      BY <2>1, <3>1, <3>2, OffIsNotServed
  <2>2. CASE \E rec, edge, on \in BOOLEAN :
               /\ push => ~edge
               /\ cameraRow = [Inserted(rec, edge) EXCEPT !.active = on]
               /\ path = IF on /\ ~edge THEN [url |-> 0, rec |-> rec] ELSE NoPath
               /\ created = TRUE
    <3>1. PICK rec \in BOOLEAN, edge \in BOOLEAN, on \in BOOLEAN :
               /\ push => ~edge
               /\ cameraRow = [Inserted(rec, edge) EXCEPT !.active = on]
               /\ path = IF on /\ ~edge THEN [url |-> 0, rec |-> rec] ELSE NoPath
               /\ created = TRUE
      BY <2>2
    <3>2. PICK row \in Rows : /\ row = Inserted(rec, edge) /\ row.edge = edge /\ row.rec = rec
                              /\ row.url = 0
      BY <3>1, InsertedHolds
    <3>3. cameraRow = [row EXCEPT !.active = on]
      BY <3>1, <3>2
    <3>4. cameraRow \in Rows
      BY <3>1, <3>3 DEF Rows
    <3>5. /\ cameraRow.active = on /\ cameraRow.edge = edge /\ cameraRow.rec = rec
          /\ cameraRow.url = 0
      BY <3>2, <3>3 DEF Rows
    <3>6. created \in BOOLEAN
      BY <3>1
    <3>7. path = Served(cameraRow)
      BY <3>1, <3>5 DEF Served
    <3>8. path \in Paths \union {NoPath}
      <4>1. 0 \in Urls
        BY DEF Urls
      <4> QED
        BY <3>1, <4>1 DEF Paths
    <3> QED
      BY <3>1, <3>4, <3>5, <3>6, <3>7, <3>8
  <2> QED
    BY <2>1, <2>2 DEF CameraInit
<1>3. ASSUME NEW t \in Tasks
      PROVE  task[t] = IdleTask /\ task[t].op = "idle" /\ task[t].draft.seen = Long
             /\ ~task[t].draft.edge /\ ~task[t].listed
  BY <1>1, IdleTaskHolds
<1>4. CameraTypeOK
  <2>1. ready \in BOOLEAN /\ polled \in BOOLEAN /\ blind \in BOOLEAN
    BY <1>1
  <2>2. apart \in BOOLEAN /\ stale \in BOOLEAN /\ calm \in BOOLEAN
    BY <1>1
  <2>3. task \in [Tasks -> TaskRecords]
    BY <1>1, IdleTaskHolds
  <2>4. edits \in 0..MaxEdits /\ streamAge \in 0..Long
    BY <1>1, GraceIsNumber
  <2> QED
    BY <1>1, <1>2, <2>1, <2>2, <2>3, <2>4 DEF CameraTypeOK, TaskRecords
<1>5. TasksOK
  <2>1. ASSUME NEW t \in Tasks PROVE TaskOK(t) /\ task[t].op # "create"
    BY <1>3 DEF TaskOK, OpsOf
  <2> QED
    BY <1>2, <2>1 DEF TasksOK, OneCreates
<1>6. OnTheWay
  BY <1>2, <1>3 DEF OnTheWay, Arrived
<1>7. StatusFollows
  <2>1. ~Dark /\ ~Bright /\ ~Polling
    BY <1>1, <1>3, GraceIsNumber, TwoBackgroundTasks DEF Dark, Bright, Polling
  <2>2. SeenBefore
    <3>1. cameraRow.seen \in 0..Long
      BY <1>2, RowFields
    <3> QED
      BY <1>1, <1>3, <3>1, GraceIsNumber DEF SeenBefore
  <2> QED
    BY <1>1, <2>1, <2>2 DEF StatusFollows, PollIsTrue, DarkIsShown, BrightIsShown
<1>8. ComesBack
  BY <1>1 DEF ComesBack
<1> QED
  BY <1>4, <1>5, <1>6, <1>7, <1>8 DEF CamInv

LEMMA CameraStepKeeps == CamInv /\ [CameraNext]_cameraVars => CamInv'
<1> SUFFICES ASSUME CamInv, [CameraNext]_cameraVars PROVE CamInv'
  OBVIOUS
<1>1. ASSUME NEW t \in Tasks, GetPath(t) \/ AddPath(t) \/ DeletePath(t) \/ CallFails(t)
      PROVE  CamInv'
  BY <1>1, GetPathKeeps, AddPathKeeps, DeletePathKeeps, CallFailsKeeps
<1>2. ASSUME NEW r \in CameraRequests,
             \/ CreateCamera(r) \/ ReadCamera(r) \/ UpdateCamera(r)
             \/ RemovePath(r) \/ DeleteCamera(r) \/ CommitCamera(r) \/ RollBack(r)
      PROVE  CamInv'
  BY <1>2, CreateCameraKeeps, ReadCameraKeeps, UpdateCameraKeeps, RemovePathKeeps,
     DeleteCameraKeeps, CommitCameraKeeps, RollBackKeeps
<1>3. ASSUME WatchdogReads \/ WatchdogWrites \/ BootReads PROVE CamInv'
  BY <1>3, WatchdogSkipsKeeps, WatchdogReadsKeeps, WatchdogWritesKeeps, BootReadsKeeps
<1>4. ASSUME StreamChanges \/ MediaMTXRestarts \/ NextPeriod PROVE CamInv'
  BY <1>4, StreamChangesKeeps, MediaMTXRestartsKeeps, NextPeriodKeeps
<1>5. ASSUME NEW h \in hooks, HookArrives(h) PROVE CamInv'
  BY <1>5, HookArrivesKeeps
<1>6. CASE UNCHANGED cameraVars
  BY <1>6 DEF cameraVars, CamInv, CameraTypeOK, TasksOK, TaskOK, OneCreates, OnTheWay, Doomed,
              Arrived, Underway, ComesBack, Finding, Pulls, StatusFollows, SeenBefore, PollIsTrue, DarkIsShown, BrightIsShown, Dark,
              Bright, Polling, Shown
<1> QED
  BY <1>1, <1>2, <1>3, <1>4, <1>5, <1>6 DEF CameraNext

LEMMA CamInvHolds == CameraSpec => []CamInv
BY CameraStarts, CameraStepKeeps, PTL DEF CameraSpec

\* The state keeps its types, for any number of requests and any grace period.
THEOREM CameraTypeAlwaysOK == CameraSpec => []CameraTypeOK
<1>1. CamInv => CameraTypeOK
  BY DEF CamInv
<1> QED
  BY <1>1, CamInvHolds, PTL

LEMMA CamInvAgrees == CamInv => RowAndPathAgree
<1> SUFFICES ASSUME CamInv PROVE RowAndPathAgree
  OBVIOUS
<1>1. CameraTypeOK /\ TasksOK /\ OnTheWay /\ StatusFollows /\ ComesBack
  BY CamParts
<1>2. PathFollowsRow
  <2>1. ASSUME Quiet, ~apart PROVE path = Served(cameraRow)
    BY <1>1, <2>1, QuietlyArrived
  <2> QED
    BY <2>1 DEF PathFollowsRow, Served
<1>3. ASSUME Quiet, polled, cameraRow.active, ~stale
      PROVE  /\ ~ready /\ streamAge > Grace + 1 => ~cameraRow.online
             /\ ready /\ streamAge >= 1 => cameraRow.online \/ blind
  <2>1. Shown
    BY <1>3, TwoBackgroundTasks DEF Shown, Polling, Quiet
  <2>2. streamAge \in 0..Long
    BY <1>1 DEF CameraTypeOK
  <2>3. ~ready /\ streamAge > Grace + 1 => ~cameraRow.online
    BY <1>1, <2>1 DEF StatusFollows, DarkIsShown, Dark
  <2>4. ready /\ streamAge >= 1 => cameraRow.online \/ blind
    BY <1>1, <2>1, <2>2, GraceIsNumber DEF StatusFollows, BrightIsShown, Bright
  <2> QED
    BY <2>3, <2>4
<1>4. PathComesBack
  <2>1. Quiet => ~Finding
    BY TwoBackgroundTasks DEF Quiet, Finding
  <2> QED
    BY <1>1, <2>1 DEF PathComesBack, ComesBack
<1> QED
  BY <1>2, <1>3, <1>4 DEF RowAndPathAgree, StatusCatchesUp

\* What MediaMTX serves follows the row and comes back after a loss, and the
\* row's status follows the stream, for any number of requests that overlap with
\* each other, with the watchdog and with the boot of the API, with the
\* exceptions that the property names.
THEOREM RowAndPathAlwaysAgree == CameraSpec => []RowAndPathAgree
BY CamInvHolds, CamInvAgrees, PTL

(***************************************************************************)
(* Recordings: the timeline is true. The inductive invariant bounds how    *)
(* late a webhook and its window come, keeps the path to the row while     *)
(* nothing changes, and dates the last run of the job that prunes windows. *)
(***************************************************************************)
RecEdits == [step : {"none", "provision", "remove", "commit"}, draft : SUBSET RecRows]
Prunings == [step : {"none", "read"}, days : SUBSET RetentionDays]
Windows == [start : Ticks, end : Ticks]

RecTypes ==
  /\ recRow \in RecRows /\ recPath \in RecPaths \cup {NoRecPath}
  /\ clock \in Ticks /\ changedAt \in Ticks /\ changedAt <= clock
  /\ switchedAt \in Ticks /\ switchedAt <= clock
  /\ video \subseteq Ticks /\ segHooks \subseteq Ticks
  /\ indexed \subseteq Ticks /\ torn \subseteq Ticks
  /\ windows \subseteq Windows /\ recEdit \in RecEdits /\ prune \in Prunings
  /\ sincePrune \in 0..PruneEvery /\ skips \in 0..MaxSkips /\ recEdits \in 0..MaxRecEdits
  /\ goneAt \in [Ticks -> Ticks \cup {Never}]

\* The job has run since, or it has never run: it may have been left out at most skips times.
LastRun == clock - (sincePrune + PruneEvery * skips)

\* A webhook comes in time, and a window is as long as its segment and the webhook took.
HooksTimely == \A s \in segHooks : s < clock /\ clock <= s + HookDelay + 1
IndexPast == \A s \in indexed : s < clock
WindowsTimely == \A w \in windows : w.start < w.end /\ w.end <= w.start + HookDelay + 1

\* While nothing changes, MediaMTX deletes by the row, and so does the job.
PathKept ==
  ~Apart => /\ Agree(recRow, recPath)
            /\ recPath.after # 0 => \A s \in video : s >= clock - recPath.after
PruneKnows ==
  prune.step = "read" =>
    /\ sincePrune = PruneEvery
    /\ ~Apart /\ Prunes(recRow) => prune.days = {recRow.days}
    /\ ~Apart /\ ~Prunes(recRow) => prune.days = {}
    /\ recRow.rec /\ switchedAt # clock => prune.days # {}

GoneLate ==
  \A s \in Ticks : goneAt[s] = Never \/ goneAt[s] >= s + Min(RetentionDays) + 1

\* A segment on disk that was indexed has its own window.
Covered ==
  \A s \in (video \cap indexed) \ torn : \E w \in windows : w.start = s

\* The job has run since the recording was switched on, or not yet.
WindowsPruned ==
  recRow.rec =>
    \A w \in windows : LastRun <= switchedAt \/ w.end >= LastRun - Max(RetentionDays)

\* The inductive invariant of recordings and their timeline.
RecInv ==
  /\ RecTypes /\ LastRun <= clock
  /\ HooksTimely /\ IndexPast /\ WindowsTimely
  /\ PathKept /\ PruneKnows /\ GoneLate /\ Covered /\ WindowsPruned

LEMMA RecNumbers ==
  /\ RetentionDays \subseteq Nat /\ \A d \in RetentionDays : d > 0
  /\ PruneEvery \in Nat /\ PruneEvery > 0 /\ HookDelay \in Nat /\ LastTick \in Nat
  /\ MaxSkips \in Nat /\ MaxRecEdits \in Nat
  /\ Ticks \subseteq Nat /\ Never \in Nat /\ Never \notin Ticks
BY RecordingsAssumption DEF Ticks, Never

LEMMA ShortestAndLongest ==
  /\ Min(RetentionDays) \in RetentionDays /\ Max(RetentionDays) \in RetentionDays
  /\ \A d \in RetentionDays : Min(RetentionDays) <= d /\ d <= Max(RetentionDays)
<1>1. PICK shortest \in RetentionDays : \A d \in RetentionDays : shortest =< d
  BY RecordingsAssumption
<1>2. PICK longest \in RetentionDays : \A d \in RetentionDays : longest >= d
  <2>1. PICK longest \in RetentionDays : \A d \in RetentionDays : d <= longest
    BY RecordingsAssumption
  <2> QED
    BY <2>1, RecNumbers
<1>3. Min(RetentionDays) \in RetentionDays /\ \A d \in RetentionDays : Min(RetentionDays) =< d
  BY <1>1 DEF Min
<1>4. Max(RetentionDays) \in RetentionDays /\ \A d \in RetentionDays : Max(RetentionDays) >= d
  BY <1>2 DEF Max
<1> QED
  BY <1>3, <1>4, RecNumbers

LEMMA SkipsMultiply ==
  \A p, k \in Nat : p * k \in Nat /\ p * (1 + k) = p * k + p /\ p * (k + 1) = p * k + p
OBVIOUS

\* The state in numbers.
LEMMA RecCounts ==
  ASSUME RecTypes
  PROVE  /\ clock \in Nat /\ clock <= LastTick /\ changedAt \in Nat /\ changedAt <= clock
         /\ switchedAt \in Nat /\ switchedAt <= clock
         /\ sincePrune \in Nat /\ sincePrune <= PruneEvery /\ skips \in Nat
         /\ PruneEvery * skips \in Nat /\ LastRun \in Int
         /\ recRow.days \in RetentionDays /\ recRow.days \in Nat /\ recRow.days > 0
         /\ recRow.rec \in BOOLEAN
<1>1. /\ clock \in Nat /\ clock <= LastTick /\ changedAt \in Nat /\ changedAt <= clock
      /\ switchedAt \in Nat /\ switchedAt <= clock
      /\ sincePrune \in Nat /\ sincePrune <= PruneEvery /\ skips \in Nat
  BY RecNumbers DEF RecTypes, Ticks
<1>2. PruneEvery * skips \in Nat
  BY <1>1, RecNumbers, SkipsMultiply
<1>3. LastRun \in Int
  BY <1>1, <1>2 DEF LastRun
<1>4. recRow.days \in RetentionDays
  BY DEF RecTypes, RecRows
<1>5. recRow.days \in Nat /\ recRow.days > 0
  BY <1>4, RecNumbers
<1>6. recRow.rec \in BOOLEAN
  BY DEF RecTypes, RecRows
<1> QED
  BY <1>1, <1>2, <1>3, <1>4, <1>5, <1>6

LEMMA BodiesArePaths ==
  ASSUME NEW row \in RecRows
  PROVE  /\ RecBody(row) \in RecPaths /\ RecBody(row) # NoRecPath
         /\ RecBody(row).after = IF row.rec THEN row.days ELSE 0
<1>1. RecBody(row).after = IF row.rec THEN row.days ELSE 0
  BY DEF RecBody
<1>2. row.days \in RetentionDays
  BY DEF RecRows
<1>3. row.rec \in BOOLEAN
  BY DEF RecRows
<1>4. RecBody(row) \in RecPaths
  BY <1>2, <1>3 DEF RecBody, RecPaths
<1>5. NoRecPath \notin RecPaths
  BY RecordingsAssumption DEF RecPaths
<1> QED
  BY <1>1, <1>4, <1>5

LEMMA RecordingsStart == RecordingsInit => RecInv
<1> SUFFICES ASSUME RecordingsInit PROVE RecInv
  OBVIOUS
<1>1. PICK days \in RetentionDays : recRow = [active |-> TRUE, rec |-> TRUE, days |-> days]
  BY DEF RecordingsInit
<1>2. recRow \in RecRows
  BY <1>1 DEF RecRows
<1>3. recPath \in RecPaths
  BY <1>2, BodiesArePaths DEF RecordingsInit
<1>4. 0 \in Ticks
  BY RecNumbers DEF Ticks
<1>5. recEdit \in RecEdits /\ prune \in Prunings
  BY DEF RecordingsInit, NoRecEdit, NoPrune, RecEdits, Prunings
<1>6. /\ clock = 0 /\ changedAt = 0 /\ switchedAt = 0 /\ sincePrune = 0 /\ skips = 0 /\ recEdits = 0
      /\ video = {} /\ segHooks = {} /\ windows = {} /\ indexed = {} /\ torn = {}
      /\ recEdit = NoRecEdit /\ prune = NoPrune
      /\ goneAt = [s \in Ticks |-> Never]
  BY DEF RecordingsInit
<1>7. RecTypes
  BY <1>2, <1>3, <1>4, <1>5, <1>6, RecNumbers DEF RecTypes
<1>8. LastRun <= clock /\ LastRun <= switchedAt
  <2>1. PruneEvery * 0 \in Nat
    BY RecNumbers, SkipsMultiply
  <2> QED
    BY <1>6, <2>1 DEF LastRun
<1>9. HooksTimely /\ IndexPast /\ WindowsTimely
  BY <1>6 DEF HooksTimely, IndexPast, WindowsTimely
<1>10. PathKept /\ PruneKnows
  BY <1>6 DEF PathKept, Apart, PruneKnows, NoPrune
<1>11. GoneLate /\ Covered /\ WindowsPruned
  BY <1>6 DEF GoneLate, Covered, WindowsPruned
<1> QED
  BY <1>7, <1>8, <1>9, <1>10, <1>11 DEF RecInv

\* A request that has only begun has changed nothing yet.
LEMMA EditStarts ==
  ASSUME RecInv, recEdit' \in RecEdits, recEdits < MaxRecEdits,
         recEdits' = recEdits + 1,
         UNCHANGED <<recRow, recPath, clock, video, segHooks, windows, prune, sincePrune,
                     skips, recHistory, changedAt, switchedAt>>
  PROVE  RecInv'
<1>1. UNCHANGED <<recRow, recPath, clock, video, segHooks, windows, prune, sincePrune,
                  skips, indexed, torn, goneAt, changedAt, switchedAt>>
  BY DEF recHistory
<1>2. recEdits' \in 0..MaxRecEdits
  BY RecNumbers DEF RecInv, RecTypes
<1>3. RecTypes'
  BY <1>1, <1>2 DEF RecInv, RecTypes
<1>4. (LastRun <= clock)'
  BY <1>1 DEF RecInv, LastRun
<1>5. HooksTimely' /\ IndexPast' /\ WindowsTimely'
  BY <1>1 DEF RecInv, HooksTimely, IndexPast, WindowsTimely
<1>6. PathKept' /\ PruneKnows'
  BY <1>1 DEF RecInv, PathKept, PruneKnows, Apart, Agree, RecBody, Prunes
<1>7. GoneLate' /\ Covered'
  BY <1>1 DEF RecInv, GoneLate, Covered
<1>8. WindowsPruned'
  BY <1>1 DEF RecInv, WindowsPruned, LastRun
<1> QED
  BY <1>3, <1>4, <1>5, <1>6, <1>7, <1>8 DEF RecInv

LEMMA UpdateRecordingKeeps == ASSUME RecInv, UpdateRecording PROVE RecInv'
<1>1. PICK on \in BOOLEAN, rec \in BOOLEAN, days \in RetentionDays,
           step \in {"provision", "commit"} :
        recEdit' = [step |-> step,
                    draft |-> {[recRow EXCEPT !.active = on, !.rec = rec, !.days = days]}]
  BY DEF UpdateRecording
<1>2. [recRow EXCEPT !.active = on, !.rec = rec, !.days = days] \in RecRows
  BY DEF RecInv, RecTypes, RecRows
<1>3. recEdit' \in RecEdits
  BY <1>1, <1>2 DEF RecEdits
<1> QED
  BY <1>3, EditStarts DEF UpdateRecording

LEMMA DeleteRecordedKeeps == ASSUME RecInv, DeleteRecorded PROVE RecInv'
<1>1. [recRow EXCEPT !.active = FALSE] \in RecRows
  BY DEF RecInv, RecTypes, RecRows
<1>2. recEdit' \in RecEdits
  BY <1>1 DEF DeleteRecorded, RecEdits
<1> QED
  BY <1>2, EditStarts DEF DeleteRecorded

\* Row or path changes, so that they are taken to differ.
LEMMA ChangeKeeps ==
  ASSUME RecInv, changedAt' = clock,
         UNCHANGED <<clock, video, segHooks, windows, prune, sincePrune, skips, recHistory>>,
         RecTypes',
         \/ recRow'.rec = recRow.rec /\ switchedAt' = switchedAt
         \/ switchedAt' = clock
  PROVE  RecInv'
<1>1. UNCHANGED <<clock, video, segHooks, windows, prune, sincePrune, skips, indexed, torn,
                  goneAt>>
  BY DEF recHistory
<1>2. (LastRun <= clock)' /\ LastRun' = LastRun
  BY <1>1 DEF RecInv, LastRun
<1>3. HooksTimely' /\ IndexPast' /\ WindowsTimely'
  BY <1>1 DEF RecInv, HooksTimely, IndexPast, WindowsTimely
<1>4. Apart'
  BY <1>1 DEF Apart
<1>5. PathKept' /\ PruneKnows'
  BY <1>1, <1>4 DEF RecInv, PathKept, PruneKnows
<1>6. GoneLate' /\ Covered'
  BY <1>1 DEF RecInv, GoneLate, Covered
<1>7. WindowsPruned'
  BY <1>1, <1>2 DEF RecInv, WindowsPruned
<1> QED
  BY <1>2, <1>3, <1>5, <1>6, <1>7 DEF RecInv

LEMMA ProvisionRecordingKeeps == ASSUME RecInv, ProvisionRecording PROVE RecInv'
<1>1. /\ recEdit' = [recEdit EXCEPT !.step = "commit"] /\ changedAt' = clock
      /\ UNCHANGED <<recRow, clock, video, segHooks, windows, prune, sincePrune, skips,
                     recEdits, recHistory, switchedAt>>
  BY DEF ProvisionRecording
<1>2. recEdit \in RecEdits
  BY DEF RecInv, RecTypes
<1>3. recPath' \in RecPaths \cup {NoRecPath}
  <2>1. \A row \in recEdit.draft : RecBody(row) \in RecPaths
    BY <1>2, BodiesArePaths DEF RecEdits
  <2> QED
    BY <2>1 DEF ProvisionRecording, RecInv, RecTypes
<1>4. recEdit' \in RecEdits
  BY <1>1, <1>2 DEF RecEdits
<1>5. RecTypes'
  BY <1>1, <1>3, <1>4, RecNumbers DEF RecInv, RecTypes, recHistory
<1> QED
  BY <1>1, <1>5, ChangeKeeps

LEMMA CommitRecordingKeeps == ASSUME RecInv, CommitRecording PROVE RecInv'
<1>1. /\ recEdit' = NoRecEdit /\ changedAt' = clock
      /\ recRow' \in {recRow} \cup recEdit.draft
      /\ switchedAt' = IF recRow'.rec = recRow.rec THEN switchedAt ELSE clock
      /\ UNCHANGED <<recPath, clock, video, segHooks, windows, prune, sincePrune, skips,
                     recEdits, recHistory>>
  BY DEF CommitRecording
<1>2. recRow' \in RecRows
  BY <1>1 DEF RecInv, RecTypes, RecEdits
<1>3. recEdit' \in RecEdits
  BY <1>1 DEF NoRecEdit, RecEdits
<1>4. switchedAt' \in Ticks /\ switchedAt' <= clock'
  BY <1>1, RecCounts DEF RecInv, RecTypes
<1>5. RecTypes'
  BY <1>1, <1>2, <1>3, <1>4, RecNumbers DEF RecInv, RecTypes, recHistory
<1> QED
  BY <1>1, <1>5, ChangeKeeps

LEMMA MediaLosesPathsKeeps == ASSUME RecInv, MediaLosesPaths PROVE RecInv'
<1>1. /\ recPath' = NoRecPath /\ recEdits < MaxRecEdits /\ recEdits' = recEdits + 1
      /\ changedAt' = clock
      /\ UNCHANGED <<recRow, clock, video, segHooks, windows, recEdit, prune, sincePrune,
                     skips, recHistory, switchedAt>>
  BY DEF MediaLosesPaths
<1>2. recEdits' \in 0..MaxRecEdits
  BY <1>1, RecNumbers DEF RecInv, RecTypes
<1>3. RecTypes'
  BY <1>1, <1>2, RecNumbers DEF RecInv, RecTypes, recHistory
<1> QED
  BY <1>1, <1>3, ChangeKeeps

LEMMA ReprovisionKeeps == ASSUME RecInv, Reprovision PROVE RecInv'
<1>1. /\ recPath' = RecBody(recRow) /\ changedAt' = clock
      /\ UNCHANGED <<recRow, clock, video, segHooks, windows, recEdit, prune, sincePrune,
                     skips, recEdits, recHistory, switchedAt>>
  BY DEF Reprovision
<1>2. recPath' \in RecPaths
  BY <1>1, BodiesArePaths DEF RecInv, RecTypes
<1>3. RecTypes'
  BY <1>1, <1>2, RecNumbers DEF RecInv, RecTypes, recHistory
<1> QED
  BY <1>1, <1>3, ChangeKeeps

\* The index changes, and nothing else moves.
LEMMA SegmentHookKeeps ==
  ASSUME RecInv, NEW s \in Ticks, SegmentHook(s)
  PROVE  RecInv'
<1>1. /\ s \in segHooks /\ segHooks' = segHooks \ {s}
      /\ UNCHANGED <<recRow, recPath, clock, video, recEdit, prune, sincePrune, skips,
                     recEdits, torn, goneAt, changedAt, switchedAt>>
  BY DEF SegmentHook
<1>2. clock \in Nat /\ s \in Nat /\ s < clock /\ clock <= s + HookDelay + 1 /\ clock \in Ticks
  BY <1>1, RecCounts, RecNumbers DEF RecInv, RecTypes, HooksTimely
<1>3. OpenWindows = {}
  BY RecNumbers DEF RecInv, RecTypes, OpenWindows, Windows, OpenEnd
<1>4. PICK new :
        /\ new \subseteq {[start |-> s, end |-> clock]} /\ windows' = windows \cup new
        /\ indexed' = IF new = {} THEN indexed ELSE indexed \cup {s}
  <2>1. CASE RecordSegment(s) /\ indexed' = indexed \cup {s}
    <3>1. windows' = windows \cup {[start |-> s, end |-> clock]}
      BY <1>3, <2>1 DEF RecordSegment
    <3> QED
      BY <2>1, <3>1
  <2>2. CASE UNCHANGED <<windows, indexed>>
    BY <2>2
  <2> QED
    BY <2>1, <2>2 DEF SegmentHook
<1>5. \A w \in new : w \in Windows /\ w.start = s /\ w.end = clock
  BY <1>2, <1>4 DEF Windows
<1>6. RecTypes'
  BY <1>1, <1>4, <1>5 DEF RecInv, RecTypes
<1>7. (LastRun <= clock)'
  BY <1>1 DEF RecInv, LastRun
<1>8. HooksTimely'
  BY <1>1 DEF RecInv, HooksTimely
<1>9. IndexPast' /\ WindowsTimely'
  BY <1>1, <1>2, <1>4, <1>5 DEF RecInv, IndexPast, WindowsTimely
<1>10. PathKept' /\ PruneKnows'
  BY <1>1 DEF RecInv, PathKept, PruneKnows, Apart, Agree, RecBody, Prunes
<1>11. GoneLate'
  BY <1>1 DEF RecInv, GoneLate
<1>12. Covered'
  BY <1>1, <1>4, <1>5 DEF RecInv, Covered
<1>13. WindowsPruned'
  <2> SUFFICES ASSUME recRow.rec, NEW w \in windows'
               PROVE  LastRun <= switchedAt \/ w.end >= LastRun - Max(RetentionDays)
    BY <1>1 DEF WindowsPruned, LastRun
  <2>1. CASE w \in windows
    BY <2>1 DEF RecInv, WindowsPruned
  <2>2. CASE w \in new
    <3>1. w.end = clock /\ LastRun <= clock
      BY <1>5, <2>2 DEF RecInv
    <3>2. LastRun \in Int /\ Max(RetentionDays) \in Nat
      BY RecCounts, RecNumbers, ShortestAndLongest DEF RecInv
    <3> QED
      BY <1>2, <3>1, <3>2
  <2> QED
    BY <1>4, <2>1, <2>2
<1> QED
  BY <1>6, <1>7, <1>8, <1>9, <1>10, <1>11, <1>12, <1>13 DEF RecInv

LEMMA PruneReadsKeeps == ASSUME RecInv, PruneReads PROVE RecInv'
<1>1. /\ sincePrune = PruneEvery
      /\ prune' = [step |-> "read", days |-> {row.days : row \in {r \in {recRow} : Prunes(r)}}]
      /\ UNCHANGED <<recRow, recPath, clock, video, segHooks, windows, recEdit, sincePrune,
                     skips, recEdits, indexed, torn, goneAt, changedAt, switchedAt>>
  BY DEF PruneReads, recHistory
<1>2. prune'.days = {row.days : row \in {r \in {recRow} : Prunes(r)}}
  BY <1>1
<1>3. Prunes(recRow) => prune'.days = {recRow.days}
  BY <1>2
<1>4. ~Prunes(recRow) => prune'.days = {}
  BY <1>2
<1>5. recRow.days \in RetentionDays
  BY RecCounts DEF RecInv
<1>6. prune' \in Prunings
  BY <1>1, <1>3, <1>4, <1>5 DEF Prunings
<1>7. RecTypes'
  BY <1>1, <1>6 DEF RecInv, RecTypes
<1>8. (LastRun <= clock)'
  BY <1>1 DEF RecInv, LastRun
<1>9. HooksTimely' /\ IndexPast' /\ WindowsTimely'
  BY <1>1 DEF RecInv, HooksTimely, IndexPast, WindowsTimely
<1>10. PathKept'
  BY <1>1 DEF RecInv, PathKept, Apart, Agree, RecBody
<1>11. PruneKnows'
  BY <1>1, <1>3, <1>4 DEF PruneKnows, Apart, Prunes
<1>12. GoneLate' /\ Covered'
  BY <1>1 DEF RecInv, GoneLate, Covered
<1>13. WindowsPruned'
  BY <1>1 DEF RecInv, WindowsPruned, LastRun
<1> QED
  BY <1>7, <1>8, <1>9, <1>10, <1>11, <1>12, <1>13 DEF RecInv

\* When the job has run, the windows that are left are no older than any retention,
\* unless the recording was switched on in this tick.
LEMMA PruneDeletesKeeps == ASSUME RecInv, PruneDeletes PROVE RecInv'
<1>1. PICK old : old = {w \in windows : \E days \in prune.days : Outdated(w, days)}
  OBVIOUS
<1>2. /\ prune.step = "read" /\ windows' = windows \ old
      /\ torn' = IF Apart THEN torn \cup {w.start : w \in old} ELSE torn
      /\ prune' = NoPrune /\ sincePrune' = 0
      /\ UNCHANGED <<recRow, recPath, clock, video, segHooks, recEdit, skips, recEdits,
                     indexed, goneAt, changedAt, switchedAt>>
  BY <1>1 DEF PruneDeletes
<1>3. /\ clock \in Nat /\ skips \in Nat /\ PruneEvery * skips \in Nat
      /\ recRow.days \in Nat /\ changedAt \in Nat
  BY RecCounts DEF RecInv
<1>4. windows \subseteq Windows /\ old \subseteq windows
  BY <1>1 DEF RecInv, RecTypes
<1>5. torn' \subseteq Ticks
  <2>1. {w.start : w \in old} \subseteq Ticks
    BY <1>4 DEF Windows
  <2> QED
    BY <1>2, <2>1 DEF RecInv, RecTypes
<1>6. RecTypes'
  BY <1>2, <1>4, <1>5, RecNumbers DEF RecInv, RecTypes, NoPrune, Prunings
<1>7. LastRun' = clock - PruneEvery * skips /\ LastRun' <= clock
  <2>1. LastRun' = clock - (0 + PruneEvery * skips)
    BY <1>2 DEF LastRun
  <2> QED
    BY <1>3, <2>1
<1>8. HooksTimely' /\ IndexPast' /\ WindowsTimely'
  BY <1>2 DEF RecInv, HooksTimely, IndexPast, WindowsTimely
<1>9. PathKept' /\ PruneKnows'
  BY <1>2 DEF RecInv, PathKept, PruneKnows, Apart, Agree, RecBody, NoPrune
<1>10. GoneLate'
  BY <1>2 DEF RecInv, GoneLate
<1>11. Covered'
  <2> SUFFICES ASSUME NEW s \in (video \cap indexed) \ torn'
               PROVE  \E w \in windows' : w.start = s
    BY <1>2 DEF Covered
  <2>1. PICK w \in windows : w.start = s
    BY <1>2 DEF RecInv, Covered
  <2>2. CASE w \notin old
    BY <1>2, <2>1, <2>2
  <2>3. CASE w \in old /\ Apart
    BY <1>2, <2>1, <2>3
  <2>4. CASE w \in old /\ ~Apart
    <3>1. PICK days \in prune.days : Outdated(w, days)
      BY <1>1, <2>4
    <3>2. Prunes(recRow) /\ days = recRow.days
      BY <1>2, <2>4, <3>1 DEF RecInv, PruneKnows
    <3>3. recPath.after = recRow.days
      <4>1. recPath = RecBody(recRow)
        BY <2>4 DEF RecInv, PathKept, Agree
      <4> QED
        BY <3>2, <4>1, BodiesArePaths DEF Prunes, RecInv, RecTypes
    <3>4. s >= clock - recRow.days
      BY <2>4, <3>3, RecCounts DEF RecInv, PathKept
    <3>5. w.end < clock - recRow.days
      BY <3>1, <3>2 DEF Outdated
    <3>6. s < w.end /\ w.end \in Nat /\ s \in Nat
      BY <1>4, <2>1, RecNumbers DEF RecInv, WindowsTimely, Windows
    <3> QED
      BY <1>3, <3>4, <3>5, <3>6
  <2> QED
    BY <2>2, <2>3, <2>4
<1>12. WindowsPruned'
  <2>1. CASE switchedAt = clock
    <3>1. LastRun' <= switchedAt'
      BY <1>2, <1>7, <2>1
    <3> QED
      BY <3>1 DEF WindowsPruned
  <2>2. CASE switchedAt # clock
    <3> SUFFICES ASSUME recRow.rec, NEW w \in windows'
                 PROVE  w.end >= LastRun' - Max(RetentionDays)
      BY <1>2 DEF WindowsPruned
    <3>1. PICK days \in prune.days : TRUE
      BY <1>2, <2>2 DEF RecInv, PruneKnows
    <3>2. ~Outdated(w, days) /\ w \in Windows
      BY <1>1, <1>2, <1>4, <3>1
    <3>3. days \in RetentionDays
      BY <3>1 DEF RecInv, RecTypes, Prunings
    <3>4. /\ w.end \in Nat /\ days \in Nat /\ Max(RetentionDays) \in Nat
          /\ days <= Max(RetentionDays)
      BY <3>2, <3>3, RecNumbers, ShortestAndLongest DEF Windows
    <3>5. ~(w.end < clock - days)
      BY <3>2, <3>4 DEF Outdated, OpenEnd
    <3> QED
      BY <1>3, <1>7, <3>4, <3>5
  <2> QED
    BY <2>1, <2>2
<1> QED
  BY <1>2, <1>6, <1>7, <1>8, <1>9, <1>10, <1>11, <1>12 DEF RecInv

LEMMA PruneSkippedKeeps == ASSUME RecInv, PruneSkipped PROVE RecInv'
<1>1. /\ sincePrune = PruneEvery /\ skips < MaxSkips /\ skips' = skips + 1
      /\ prune' = NoPrune /\ sincePrune' = 0
      /\ UNCHANGED <<recRow, recPath, clock, video, segHooks, windows, recEdit, recEdits,
                     indexed, torn, goneAt, changedAt, switchedAt>>
  BY DEF PruneSkipped, recHistory
<1>2. skips \in Nat /\ PruneEvery * skips \in Nat /\ clock \in Nat
  BY RecCounts DEF RecInv
<1>3. skips' \in 0..MaxSkips
  BY <1>1, <1>2, RecNumbers
<1>4. RecTypes'
  BY <1>1, <1>3, RecNumbers DEF RecInv, RecTypes, NoPrune, Prunings
<1>5. LastRun' = LastRun
  <2>1. PruneEvery * (skips + 1) = PruneEvery * skips + PruneEvery
    BY <1>2, RecNumbers, SkipsMultiply
  <2>2. LastRun' = clock - (0 + PruneEvery * (skips + 1))
    BY <1>1 DEF LastRun
  <2>3. LastRun = clock - (PruneEvery + PruneEvery * skips)
    BY <1>1 DEF LastRun
  <2> QED
    BY <1>2, <2>1, <2>2, <2>3, RecNumbers
<1>6. (LastRun <= clock)'
  BY <1>1, <1>5 DEF RecInv
<1>7. HooksTimely' /\ IndexPast' /\ WindowsTimely'
  BY <1>1 DEF RecInv, HooksTimely, IndexPast, WindowsTimely
<1>8. PathKept' /\ PruneKnows'
  BY <1>1 DEF RecInv, PathKept, PruneKnows, Apart, Agree, RecBody, NoPrune
<1>9. GoneLate' /\ Covered'
  BY <1>1 DEF RecInv, GoneLate, Covered
<1>10. WindowsPruned'
  BY <1>1, <1>5 DEF RecInv, WindowsPruned
<1> QED
  BY <1>4, <1>6, <1>7, <1>8, <1>9, <1>10 DEF RecInv

LEMMA RecordingTickKeeps == ASSUME RecInv, RecordingTick PROVE RecInv'
<1>1. /\ recEdit = NoRecEdit /\ prune = NoPrune /\ sincePrune < PruneEvery /\ clock < LastTick
      /\ clock' = clock + 1 /\ sincePrune' = sincePrune + 1
      /\ goneAt' = [s \in Ticks |-> IF s \in Deleted(clock + 1) THEN clock + 1 ELSE goneAt[s]]
      /\ changedAt' = IF Agree(recRow, recPath) THEN changedAt ELSE clock + 1
      /\ UNCHANGED <<recRow, recPath, windows, recEdit, prune, skips, recEdits, indexed, torn,
                     switchedAt>>
      /\ \A s \in segHooks : clock <= s + HookDelay
  BY DEF RecordingTick
<1>2. PICK new \in {{}, {clock}} :
        video' = (video \cup new) \ Deleted(clock + 1) /\ segHooks' = segHooks \cup new
  BY DEF RecordingTick
<1>3. /\ clock \in Nat /\ changedAt \in Nat /\ changedAt <= clock /\ sincePrune \in Nat
      /\ switchedAt \in Nat /\ switchedAt <= clock
      /\ PruneEvery * skips \in Nat /\ recRow.days \in Nat /\ recRow.days > 0
  BY RecCounts DEF RecInv
<1>4. clock \in Ticks /\ clock + 1 \in Ticks
  BY <1>1, <1>3, RecNumbers DEF Ticks
<1>5. sincePrune' \in 0..PruneEvery
  BY <1>1, <1>3, RecNumbers
<1>6. goneAt' \in [Ticks -> Ticks \cup {Never}]
  BY <1>1, <1>4 DEF RecInv, RecTypes
<1>7. changedAt' \in Ticks /\ changedAt' <= clock'
  BY <1>1, <1>3, <1>4 DEF RecInv, RecTypes
<1>8. RecTypes'
  <2>1. video' \subseteq Ticks /\ segHooks' \subseteq Ticks
    BY <1>2, <1>4 DEF RecInv, RecTypes
  <2>2. switchedAt' \in Ticks /\ switchedAt' <= clock' /\ clock' \in Ticks
    BY <1>1, <1>3, <1>4 DEF RecInv, RecTypes
  <2>3. /\ UNCHANGED <<recRow, recPath, windows, recEdit, prune, skips, recEdits, indexed, torn>>
        /\ RecTypes
    BY <1>1 DEF RecInv
  <2> QED
    BY <1>5, <1>6, <1>7, <2>1, <2>2, <2>3 DEF RecTypes
<1>9. LastRun' = LastRun /\ LastRun \in Int
  <2>1. LastRun' = (clock + 1) - ((sincePrune + 1) + PruneEvery * skips)
    BY <1>1 DEF LastRun
  <2> QED
    BY <1>3, <2>1 DEF LastRun
<1>10. (LastRun <= clock)'
  BY <1>1, <1>3, <1>9 DEF RecInv
<1>12. HooksTimely'
  <2> SUFFICES ASSUME NEW s \in segHooks' PROVE s < clock + 1 /\ clock + 1 <= s + HookDelay + 1
    BY <1>1 DEF HooksTimely
  <2>1. s \in Nat
    BY <1>2, <1>3, RecNumbers DEF RecInv, RecTypes
  <2>2. CASE s \in segHooks
    BY <1>1, <1>3, <2>1, <2>2, RecNumbers DEF RecInv, HooksTimely
  <2>3. CASE s = clock
    BY <1>3, <2>3, RecNumbers
  <2> QED
    BY <1>2, <2>2, <2>3
<1>13. IndexPast'
  <2> SUFFICES ASSUME NEW s \in indexed PROVE s < clock + 1
    BY <1>1 DEF IndexPast
  <2>1. s < clock /\ s \in Nat
    BY RecNumbers DEF RecInv, RecTypes, IndexPast
  <2> QED
    BY <1>3, <2>1
<1>14. WindowsTimely'
  BY <1>1 DEF RecInv, WindowsTimely
<1>15. PathKept'
  <2> SUFFICES ASSUME ~Apart' PROVE PathKept'
    BY DEF PathKept
  <2>1. Agree(recRow, recPath)
    BY <1>1 DEF Apart
  <2>2. recPath # NoRecPath /\ recPath.after \in {0, recRow.days}
    BY <2>1, BodiesArePaths DEF Agree, RecInv, RecTypes
  <2>3. ASSUME recPath.after # 0, NEW s \in video' PROVE s >= clock + 1 - recPath.after
    <3>1. recPath.after \in Nat /\ recPath.after > 0
      BY <1>3, <2>2, <2>3
    <3>2. s \in Nat /\ s \in video \cup new /\ s \notin Deleted(clock + 1)
      BY <1>2, <1>3, <2>3, RecNumbers DEF RecInv, RecTypes
    <3>3. CASE s \in video
      <4>1. ~(s < (clock + 1) - recPath.after)
        BY <2>2, <2>3, <3>2, <3>3 DEF Deleted
      <4> QED
        BY <1>3, <3>1, <3>2, <4>1
    <3>4. CASE s = clock
      BY <1>3, <3>1, <3>4
    <3> QED
      BY <1>2, <3>2, <3>3, <3>4
  <2>4. Agree(recRow, recPath)'
    BY <1>1, <2>1 DEF Agree, RecBody
  <2>5. recPath'.after # 0 => \A s \in video' : s >= clock' - recPath'.after
    <3>1. recPath' = recPath /\ clock' = clock + 1
      BY <1>1
    <3>2. ASSUME recPath'.after # 0, NEW s \in video' PROVE s >= clock' - recPath'.after
      <4>1. recPath.after # 0
        BY <3>1, <3>2
      <4>2. s >= clock + 1 - recPath.after
        BY <2>3, <4>1
      <4>3. recPath.after \in Nat /\ s \in Nat
        BY <1>3, <2>2, <1>8, RecNumbers DEF RecTypes
      <4> QED
        BY <1>3, <3>1, <4>2, <4>3
    <3> QED
      BY <3>2
  <2> QED
    BY <2>4, <2>5 DEF PathKept
<1>16. PruneKnows'
  BY <1>1 DEF PruneKnows, NoPrune
<1>17. GoneLate'
  <2> SUFFICES ASSUME NEW s \in Ticks
               PROVE  goneAt'[s] = Never \/ goneAt'[s] >= s + Min(RetentionDays) + 1
    BY DEF GoneLate
  <2>1. CASE s \in Deleted(clock + 1)
    <3>1. /\ recPath # NoRecPath /\ recPath.after # 0 /\ s < (clock + 1) - recPath.after
          /\ goneAt'[s] = clock + 1
      BY <1>1, <2>1 DEF Deleted
    <3>2. recPath.after \in RetentionDays
      BY <3>1 DEF RecInv, RecTypes, RecPaths
    <3>3. /\ recPath.after \in Nat /\ Min(RetentionDays) \in Nat /\ s \in Nat
          /\ Min(RetentionDays) <= recPath.after
      BY <3>2, ShortestAndLongest, RecNumbers
    <3> QED
      BY <1>3, <3>1, <3>3
  <2>2. CASE s \notin Deleted(clock + 1)
    BY <1>1, <2>2 DEF RecInv, GoneLate
  <2> QED
    BY <2>1, <2>2
<1>18. Covered'
  <2> SUFFICES ASSUME NEW s \in (video' \cap indexed) \ torn
               PROVE  \E w \in windows : w.start = s
    BY <1>1 DEF Covered
  <2>1. s # clock
    BY <1>3 DEF RecInv, IndexPast
  <2>2. s \in video
    BY <1>2, <2>1
  <2> QED
    BY <2>2 DEF RecInv, Covered
<1>19. WindowsPruned'
  BY <1>1, <1>9 DEF RecInv, WindowsPruned
<1> QED
  BY <1>8, <1>10, <1>12, <1>13, <1>14, <1>15, <1>16, <1>17, <1>18, <1>19 DEF RecInv

LEMMA RecordingsStep == RecInv /\ [RecordingsNext]_recVars => RecInv'
<1> SUFFICES ASSUME RecInv, [RecordingsNext]_recVars PROVE RecInv'
  OBVIOUS
<1>1. CASE UpdateRecording
  BY <1>1, UpdateRecordingKeeps
<1>2. CASE DeleteRecorded
  BY <1>2, DeleteRecordedKeeps
<1>3. CASE ProvisionRecording
  BY <1>3, ProvisionRecordingKeeps
<1>4. CASE CommitRecording
  BY <1>4, CommitRecordingKeeps
<1>5. CASE MediaLosesPaths
  BY <1>5, MediaLosesPathsKeeps
<1>6. CASE Reprovision
  BY <1>6, ReprovisionKeeps
<1>7. ASSUME NEW s \in Ticks, SegmentHook(s) PROVE RecInv'
  BY <1>7, SegmentHookKeeps
<1>8. CASE PruneReads
  BY <1>8, PruneReadsKeeps
<1>9. CASE PruneDeletes
  BY <1>9, PruneDeletesKeeps
<1>10. CASE PruneSkipped
  BY <1>10, PruneSkippedKeeps
<1>11. CASE RecordingTick
  BY <1>11, RecordingTickKeeps
<1>12. CASE UNCHANGED recVars
  <2>1. UNCHANGED <<recRow, recPath, clock, video, segHooks, windows, recEdit, prune,
                    sincePrune, skips, recEdits, indexed, torn, goneAt, changedAt, switchedAt>>
    BY <1>12 DEF recVars
  <2>2. RecTypes' /\ (LastRun <= clock)'
    BY <2>1 DEF RecInv, RecTypes, LastRun
  <2>3. HooksTimely' /\ IndexPast' /\ WindowsTimely'
    BY <2>1 DEF RecInv, HooksTimely, IndexPast, WindowsTimely
  <2>4. PathKept' /\ PruneKnows'
    BY <2>1 DEF RecInv, PathKept, PruneKnows, Apart, Agree, RecBody, Prunes
  <2>5. GoneLate' /\ Covered'
    BY <2>1 DEF RecInv, GoneLate, Covered
  <2>6. WindowsPruned'
    BY <2>1 DEF RecInv, WindowsPruned, LastRun
  <2> QED
    BY <2>2, <2>3, <2>4, <2>5, <2>6 DEF RecInv
<1> QED
  BY <1>1, <1>2, <1>3, <1>4, <1>5, <1>6, <1>7, <1>8, <1>9, <1>10, <1>11, <1>12
  DEF RecordingsNext

LEMMA RecInvAlways == RecordingsSpec => []RecInv
<1>1. RecordingsInit => RecInv
  BY RecordingsStart
<1>2. RecInv /\ [RecordingsNext]_recVars => RecInv'
  BY RecordingsStep
<1> QED
  BY <1>1, <1>2, PTL DEF RecordingsSpec

\* Type correctness of rows, paths, segments and windows.
THEOREM RecordingsTypeAlwaysOK == RecordingsSpec => []RecordingsTypeOK
<1>1. RecInv => RecordingsTypeOK
  <2> SUFFICES ASSUME RecTypes PROVE RecordingsTypeOK
    BY DEF RecInv
  <2>1. recEdit.step \in {"none", "provision", "remove", "commit"} /\ recEdit.draft \subseteq RecRows
    BY DEF RecTypes, RecEdits
  <2>2. prune.step \in {"none", "read"} /\ prune.days \subseteq RetentionDays
    BY DEF RecTypes, Prunings
  <2>3. \A w \in windows : w.start \in Ticks /\ w.end \in Ticks \cup {OpenEnd}
    BY DEF RecTypes, Windows
  <2> QED
    BY <2>1, <2>2, <2>3 DEF RecTypes, RecordingsTypeOK
<1> QED
  BY <1>1, RecInvAlways, PTL

\* What can be played is on the timeline, and what is gone leaves it in time, for any
\* retentions, any period of the job, any delay of webhooks and any edits.
THEOREM TimelineIsAlwaysTrue == RecordingsSpec => []TimelineIsTrue
<1>1. RecInv => Findable
  <2> SUFFICES ASSUME RecInv, NEW s \in (video \cap indexed) \ torn
               PROVE  \E w \in InRange(s, s + 1) : w.start <= s /\ w.end > s
    BY DEF Findable
  <2>1. PICK w \in windows : w.start = s
    BY DEF RecInv, Covered
  <2>2. w.start < w.end /\ w.start \in Nat /\ w.end \in Nat
    BY RecNumbers DEF RecInv, RecTypes, Windows, WindowsTimely
  <2>3. w \in InRange(s, s + 1)
    BY <2>1, <2>2 DEF InRange
  <2> QED
    BY <2>1, <2>2, <2>3
<1>2. RecInv => GoneSoon
  <2> SUFFICES ASSUME RecInv, recRow.rec, NEW w \in windows,
                      w.start \notin video
               PROVE  clock <= Max({goneAt[w.start], switchedAt}) + PruneEvery * (1 + skips)
                                 + HookDelay + Max(RetentionDays) - Min(RetentionDays)
    BY DEF GoneSoon
  <2>1. w \in Windows /\ w.start \in Ticks /\ w.start \in Nat /\ w.end \in Nat
    BY RecNumbers DEF RecInv, RecTypes, Windows
  <2>2. /\ clock \in Nat /\ clock <= LastTick /\ switchedAt \in Nat /\ sincePrune \in Nat
        /\ sincePrune <= PruneEvery /\ skips \in Nat /\ PruneEvery * skips \in Nat
        /\ LastRun \in Int /\ recRow.days \in RetentionDays /\ recRow.days \in Nat
    BY RecCounts DEF RecInv
  <2>3. goneAt[w.start] \in Ticks \cup {Never} /\ goneAt[w.start] \in Nat
    BY <2>1, RecNumbers DEF RecInv, RecTypes
  <2>4. PICK last \in Nat :
          /\ last = Max({goneAt[w.start], switchedAt})
          /\ goneAt[w.start] <= last /\ switchedAt <= last
    <3>1. PICK m \in {goneAt[w.start], switchedAt} :
            \A y \in {goneAt[w.start], switchedAt} : m >= y
      BY <2>2, <2>3
    <3>2. /\ Max({goneAt[w.start], switchedAt}) \in {goneAt[w.start], switchedAt}
          /\ \A y \in {goneAt[w.start], switchedAt} : Max({goneAt[w.start], switchedAt}) >= y
      BY <3>1 DEF Max
    <3> QED
      BY <2>2, <2>3, <3>2
  <2>5. /\ Min(RetentionDays) \in Nat /\ Max(RetentionDays) \in Nat
        /\ Min(RetentionDays) <= recRow.days /\ recRow.days <= Max(RetentionDays)
    BY <2>2, ShortestAndLongest, RecNumbers
  <2>6. PruneEvery * (1 + skips) = PruneEvery * skips + PruneEvery
    BY <2>2, RecNumbers, SkipsMultiply
  <2>7. clock <= LastRun + PruneEvery * (1 + skips)
    <3>1. LastRun = clock - (sincePrune + PruneEvery * skips)
      BY DEF LastRun
    <3> QED
      BY <2>2, <2>6, <3>1, RecNumbers
  <2>8. LastRun <= last + HookDelay + Max(RetentionDays) - Min(RetentionDays)
        \/ clock <= last
    <3>1. CASE LastRun <= switchedAt
      BY <2>2, <2>4, <2>5, <3>1, RecNumbers
    <3>2. CASE w.end >= LastRun - Max(RetentionDays) /\ goneAt[w.start] = Never
      BY <2>2, <2>4, <3>2, RecNumbers DEF Never
    <3>3. CASE w.end >= LastRun - Max(RetentionDays) /\ goneAt[w.start] # Never
      <4>1. goneAt[w.start] >= w.start + Min(RetentionDays) + 1
        BY <2>1, <3>3 DEF RecInv, GoneLate
      <4>2. w.end <= w.start + HookDelay + 1
        BY DEF RecInv, WindowsTimely
      <4> QED
        BY <2>1, <2>2, <2>3, <2>4, <2>5, <3>3, <4>1, <4>2, RecNumbers
    <3> QED
      BY <3>1, <3>2, <3>3 DEF RecInv, WindowsPruned
  <2>9. PruneEvery * (1 + skips) \in Nat
    BY <2>2, <2>6, RecNumbers
  <2> QED
    BY <2>2, <2>4, <2>5, <2>7, <2>8, <2>9, RecNumbers
<1> QED
  BY <1>1, <1>2, RecInvAlways, PTL DEF TimelineIsTrue

(***************************************************************************)
(* FrameSource: frames come back. The inductive invariant relates the ages *)
(* of the last try and the last frame to the state of the capture.         *)
(***************************************************************************)
\* What the ages and the counters may be.
SourceTypes ==
  /\ streamUp \in BOOLEAN /\ asked \in BOOLEAN /\ cap \in Captures
  /\ sinceTry \in 0..Far /\ sinceFrame \in 0..Far
  /\ upFor \in 0..Far /\ hungry \in 0..Far
  /\ failed \in 0..MaxFailed /\ turns \in 0..MaxTurns

Lost == cap \in {"broken", "closed"} /\ streamUp

\* A capture is good only of a stream that is up; the last try and the last frame of
\* one that is lost are older than the stream that came back.
AgesTell ==
  /\ ~streamUp => upFor = 0
  /\ cap = "good" => streamUp
  /\ hungry <= sinceFrame
  /\ Lost => sinceTry >= upFor
  /\ Lost /\ cap = "broken" => sinceFrame >= upFor

\* A stream that is up is not lost for longer than it takes to try again: less by one
\* tick when the source has been read in this one.
LostBriefly ==
  Lost => IF asked THEN upFor < ReconnectInterval \/ upFor < FrameInterval
                   ELSE upFor <= ReconnectInterval \/ upFor <= FrameInterval

\* A good capture has given a frame, or has not been good for long.
GoodFeeds ==
  cap = "good" =>
    IF asked
      THEN \/ sinceFrame <= FrameInterval
           \/ upFor <= ReconnectInterval \/ upFor <= FrameInterval
      ELSE \/ sinceFrame <= FrameInterval + 1
           \/ upFor <= ReconnectInterval + 1 \/ upFor <= FrameInterval + 1

\* The inductive invariant of the source.
SourceInv == SourceTypes /\ AgesTell /\ LostBriefly /\ GoodFeeds

LEMMA FarIsFar ==
  /\ Far \in Nat /\ Far = ReconnectInterval + FrameInterval + 2
  /\ ReconnectInterval \in Nat /\ ReconnectInterval > 0 /\ FrameInterval \in Nat
BY SourceAssumption DEF Far

LEMMA SourceStart == SourceInit => SourceInv
<1> SUFFICES ASSUME SourceInit PROVE SourceInv
  OBVIOUS
<1>1. asked \in BOOLEAN /\ streamUp \in BOOLEAN
  BY DEF SourceInit
<1>2. SourceTypes
  BY <1>1, SourceAssumption, FarIsFar DEF SourceInit, SourceTypes, Captures
<1>3. AgesTell /\ LostBriefly /\ GoodFeeds
  BY FarIsFar DEF SourceInit, AgesTell, LostBriefly, GoodFeeds, Lost
<1> QED
  BY <1>2, <1>3 DEF SourceInv

LEMMA OpenSourceKeeps == ASSUME SourceInv, OpenSource PROVE SourceInv'
BY SourceAssumption, FarIsFar
DEF SourceInv, SourceTypes, AgesTell, LostBriefly, GoodFeeds, Lost, Captures, OpenSource

\* A read of a capture that is lost tries again when the interval is over.
LEMMA LostReadKeeps ==
  ASSUME SourceInv, Read, ReadClosed \/ ReadFails
  PROVE  SourceInv'
<1>1. SourceTypes'
  BY SourceAssumption, FarIsFar
  DEF SourceInv, SourceTypes, Read, ReadClosed, ReadFails, TryReconnect, Captures, Capture
<1>2. CASE sinceTry < ReconnectInterval
  <2>1. UNCHANGED <<cap, sinceTry, sinceFrame, hungry, streamUp, upFor>> /\ asked'
    BY <1>2 DEF Read, ReadClosed, ReadFails, TryReconnect
  <2>2. cap \in {"broken", "closed"}
    BY DEF ReadClosed, ReadFails
  <2> QED
    BY <1>1, <1>2, <2>1, <2>2, FarIsFar
    DEF SourceInv, SourceTypes, AgesTell, LostBriefly, GoodFeeds, Lost
<1>3. CASE ~(sinceTry < ReconnectInterval)
  <2>1. cap' = Capture(streamUp) /\ sinceTry' = 0 /\ asked'
        /\ UNCHANGED <<sinceFrame, hungry, streamUp, upFor>>
    BY <1>3 DEF Read, ReadClosed, ReadFails, TryReconnect
  <2>2. cap \in {"broken", "closed"}
    BY DEF ReadClosed, ReadFails
  <2> QED
    BY <1>1, <1>3, <2>1, <2>2, FarIsFar
    DEF SourceInv, SourceTypes, AgesTell, LostBriefly, GoodFeeds, Lost, Capture
<1> QED
  BY <1>2, <1>3

LEMMA LiveReadKeeps ==
  ASSUME SourceInv, Read, ReadTooSoon \/ ReadNext
  PROVE  SourceInv'
<1>1. SourceTypes'
  BY SourceAssumption, FarIsFar
  DEF SourceInv, SourceTypes, Read, ReadTooSoon, ReadNext, Captures
<1> QED
  BY <1>1, SourceAssumption, FarIsFar
  DEF SourceInv, SourceTypes, AgesTell, LostBriefly, GoodFeeds, Lost, Captures, IsOpened,
      Read, ReadTooSoon, ReadNext

LEMMA CloseSourceKeeps == ASSUME SourceInv, CloseSource PROVE SourceInv'
<1>1. asked' \in BOOLEAN
  BY DEF CloseSource
<1>2. SourceTypes'
  BY <1>1, SourceAssumption, FarIsFar DEF SourceInv, SourceTypes, Captures, CloseSource
<1>3. (AgesTell /\ LostBriefly /\ GoodFeeds)'
  BY <1>2, FarIsFar
  DEF SourceInv, SourceTypes, AgesTell, LostBriefly, GoodFeeds, Lost, CloseSource
<1> QED
  BY <1>2, <1>3 DEF SourceInv

LEMMA StreamTurnsKeeps == ASSUME SourceInv, StreamTurns PROVE SourceInv'
<1>1. SourceTypes'
  BY SourceAssumption, FarIsFar DEF SourceInv, SourceTypes, Captures, StreamTurns
<1>2. AgesTell'
  BY <1>1, SourceAssumption, FarIsFar
  DEF SourceInv, SourceTypes, AgesTell, Lost, StreamTurns
<1>3. LostBriefly'
  BY <1>1, SourceAssumption, FarIsFar
  DEF SourceInv, SourceTypes, AgesTell, LostBriefly, Captures, Lost, StreamTurns
<1>4. GoodFeeds'
  BY <1>1, SourceAssumption, FarIsFar
  DEF SourceInv, SourceTypes, AgesTell, LostBriefly, GoodFeeds, Captures, Lost, StreamTurns
<1> QED
  BY <1>1, <1>2, <1>3, <1>4 DEF SourceInv

LEMMA SourceTickKeeps == ASSUME SourceInv, SourceTick PROVE SourceInv'
<1>0. asked' \in BOOLEAN
  BY DEF SourceTick
<1>1. SourceTypes'
  BY <1>0, SourceAssumption, FarIsFar
  DEF SourceInv, SourceTypes, Captures, SourceTick, Older
<1>2. AgesTell'
  BY <1>1, SourceAssumption, FarIsFar
  DEF SourceInv, SourceTypes, AgesTell, Lost, SourceTick, Older
<1>3. LostBriefly'
  BY <1>1, SourceAssumption, FarIsFar
  DEF SourceInv, SourceTypes, AgesTell, LostBriefly, Captures, Lost, SourceTick, Older
<1>4. GoodFeeds'
  BY <1>1, SourceAssumption, FarIsFar
  DEF SourceInv, SourceTypes, AgesTell, LostBriefly, GoodFeeds, Captures, Lost, SourceTick, Older
<1> QED
  BY <1>1, <1>2, <1>3, <1>4 DEF SourceInv

LEMMA SourceStep == SourceInv /\ [SourceNext]_sourceVars => SourceInv'
<1> SUFFICES ASSUME SourceInv, [SourceNext]_sourceVars PROVE SourceInv'
  OBVIOUS
<1>1. CASE Read
  BY <1>1, LostReadKeeps, LiveReadKeeps DEF Read
<1>2. CASE UNCHANGED sourceVars
  BY <1>2 DEF sourceVars, SourceInv, SourceTypes, AgesTell, LostBriefly, GoodFeeds, Lost
<1> QED
  BY <1>1, <1>2, OpenSourceKeeps, CloseSourceKeeps, StreamTurnsKeeps, SourceTickKeeps
  DEF SourceNext

LEMMA SourceInvAlways == SourceSpec => []SourceInv
<1>1. SourceInit => SourceInv
  BY SourceStart
<1>2. SourceInv /\ [SourceNext]_sourceVars => SourceInv'
  BY SourceStep
<1> QED
  BY <1>1, <1>2, PTL DEF SourceSpec

\* The variables of a source hold what they may: FrameSource's state is well typed.
THEOREM SourceTypeAlwaysOK == SourceSpec => []SourceTypeOK
<1>1. SourceInv => SourceTypeOK
  BY DEF SourceInv, SourceTypes, SourceTypeOK
<1> QED
  BY <1>1, SourceInvAlways, PTL

\* After any losses of its stream, a source reads frames again within the time of one
\* try and one sample: _try_reconnect and read leave no capture behind for good.
THEOREM FramesAlwaysComeBack == SourceSpec => []FramesComeBack
<1>1. SourceInv => FramesComeBack
  BY FarIsFar
  DEF SourceInv, SourceTypes, AgesTell, LostBriefly, GoodFeeds, Lost, Captures,
      FramesComeBack
<1> QED
  BY <1>1, SourceInvAlways, PTL

(***************************************************************************)
(* Orchestrator: plugins see their own frame. The inductive invariant says *)
(* of every frame in the queue and in the batch that it is an earlier one  *)
(* of its camera or the last one itself, and that the plugins that were    *)
(* told of what the cache noted last think of the scene as the cache does. *)
(***************************************************************************)
\* A frame on its way is an earlier one of its camera, or the last one itself.
OwnFrame(f) ==
  /\ f.no <= frame[f.camera].no
  /\ f.no = frame[f.camera].no => (f.busy <=> frame[f.camera].busy)

OwnFrames(s) == \A i \in DOMAIN s : OwnFrame(s[i])

\* What the task of a camera knows is of its own frame.
TaskSees(c) ==
  /\ frame[c].camera = c
  /\ \A p \in Plugins \ behind[c] : (p \in view[c]) <=> hadSome[c]
  /\ camTask[c] \in {"opening", "filtering"} => answer[c] = "none"
  /\ camTask[c] = "waiting" /\ answer[c] \in {"busy", "empty"} =>
       (answer[c] = "busy" <=> frame[c].busy)
  /\ camTask[c] = "telling" =>
       /\ answer[c] \in {"busy", "empty", "late"} /\ (hadSome[c] <=> answer[c] = "busy")
       /\ answer[c] # "late" => (answer[c] = "busy" <=> frame[c].busy)
  /\ camTask[c] = "reading" /\ answer[c] # "none" =>
       /\ hadSome[c] <=> frame[c].busy /\ answer[c] # "late"
       /\ hadSome[c] => active[c] \cap behind[c] = {}

\* The inductive invariant of the orchestrator.
OrchInv ==
  /\ OrchTypeOK
  /\ \A c \in Cameras : TaskSees(c)
  /\ OwnFrames(frameQueue) /\ OwnFrames(batch)

LEMMA OrchNumbers ==
  /\ MaxEmptyFrames \in Nat /\ MaxEmptyFrames > 0 /\ MaxFrames \in Nat
  /\ MaxChanges \in Nat /\ MaxMishaps \in Nat
BY OrchestratorAssumption

LEMMA OrchTypesOfCamera ==
  ASSUME OrchTypeOK, NEW c \in Cameras
  PROVE  /\ camTask[c] \in TaskSteps /\ frame[c] \in Frames /\ answer[c] \in FutureStates
         /\ hadSome[c] \in BOOLEAN /\ view[c] \subseteq Plugins
         /\ behind[c] \subseteq Plugins /\ active[c] \subseteq Plugins
         /\ empties[c] \in 0..MaxEmptyFrames
         /\ frame[c].no \in Nat /\ frame[c].busy \in BOOLEAN
<1>1. frame[c] \in Frames
  BY DEF OrchTypeOK
<1>2. frame[c].no \in Nat
  BY <1>1, OrchNumbers DEF Frames
<1>3. frame[c].busy \in BOOLEAN
  BY <1>1 DEF Frames
<1>4. hadSome[c] \in BOOLEAN
  BY DEF OrchTypeOK
<1>5. view[c] \subseteq Plugins /\ behind[c] \subseteq Plugins /\ active[c] \subseteq Plugins
  BY DEF OrchTypeOK
<1>6. camTask[c] \in TaskSteps /\ answer[c] \in FutureStates /\ empties[c] \in 0..MaxEmptyFrames
  BY DEF OrchTypeOK
<1> QED
  BY <1>1, <1>2, <1>3, <1>4, <1>5, <1>6

LEMMA MishapCounted ==
  ASSUME mishaps \in 0..MaxMishaps, Mishap
  PROVE  mishaps' \in 0..MaxMishaps
BY OrchNumbers DEF Mishap

LEMMA OrchStart == OrchInit => OrchInv
<1> SUFFICES ASSUME OrchInit PROVE OrchInv
  OBVIOUS
<1>1. frame \in [Cameras -> Frames]
  <2>1. 0 \in 0..MaxFrames
    BY OrchNumbers
  <2>2. FALSE \in BOOLEAN
    OBVIOUS
  <2>3. \A c \in Cameras : [camera |-> c, no |-> 0, busy |-> FALSE] \in Frames
    BY <2>1, <2>2 DEF Frames
  <2> QED
    BY <2>3 DEF OrchInit
<1>2. hadSome \in [Cameras -> BOOLEAN]
  BY DEF OrchInit
<1>3. /\ view \in [Cameras -> SUBSET Plugins] /\ behind \in [Cameras -> SUBSET Plugins]
      /\ active \in [Cameras -> SUBSET Plugins]
      /\ installed \in [Cameras -> SUBSET (Plugins \cup {OtherPlugin})]
  BY DEF OrchInit
<1>4. frameQueue \in Seq(Frames) /\ batch \in Seq(Frames)
      /\ Len(frameQueue) <= QueueSize /\ Len(batch) <= MaxBatch
  BY OrchestratorAssumption DEF OrchInit
<1>5. /\ empties \in [Cameras -> 0..MaxEmptyFrames]
      /\ changes \in 0..MaxChanges /\ mishaps \in 0..MaxMishaps
  BY OrchNumbers DEF OrchInit
<1>6. OrchTypeOK
  BY <1>1, <1>2, <1>3, <1>4, <1>5 DEF OrchInit, OrchTypeOK, TaskSteps, FutureStates
<1>7. ASSUME NEW c \in Cameras PROVE TaskSees(c)
  <2>1. frame[c].camera = c /\ camTask[c] = "none" /\ answer[c] = "none"
    BY DEF OrchInit
  <2>2. ASSUME NEW p \in Plugins PROVE (p \in view[c]) <=> hadSome[c]
    <3>1. view[c] = {} /\ hadSome[c] = FALSE
      BY DEF OrchInit
    <3> QED
      BY <3>1
  <2> QED
    BY <2>1, <2>2 DEF TaskSees
<1>8. OwnFrames(frameQueue) /\ OwnFrames(batch)
  BY DEF OwnFrames, OrchInit
<1> QED
  BY <1>6, <1>7, <1>8 DEF OrchInv

\* Steps that leave the frames, and those on their way, as they are.
LEMMA FramesKept ==
  ASSUME OrchInv, UNCHANGED <<frame, frameQueue, batch>>, OrchTypeOK',
         \A c \in Cameras : TaskSees(c)'
  PROVE  OrchInv'
BY DEF OrchInv, OwnFrames, OwnFrame

\* Steps after which a task stands where it stood, or where nothing is said of it.
LEMMA TaskKept ==
  ASSUME OrchInv, NEW c \in Cameras,
         UNCHANGED <<frame, view, behind, hadSome>>,
         \/ camTask'[c] = camTask[c] /\ answer'[c] = answer[c] /\ active'[c] = active[c]
         \/ camTask'[c] \in {"none", "posting", "over"}
         \/ answer'[c] = "none" /\ camTask'[c] # "telling"
         \/ camTask'[c] = "waiting" /\ answer'[c] \notin {"busy", "empty"}
  PROVE  TaskSees(c)'
<1>1. TaskSees(c) /\ UNCHANGED <<frame, view, behind, hadSome>>
  BY DEF OrchInv
<1>2. (\A p \in Plugins \ behind[c] : (p \in view[c]) <=> hadSome[c])'
  BY <1>1 DEF TaskSees
<1>3. frame'[c].camera = c
  BY <1>1 DEF TaskSees
<1>4. CASE camTask'[c] = camTask[c] /\ answer'[c] = answer[c] /\ active'[c] = active[c]
  BY <1>1, <1>2, <1>3, <1>4 DEF TaskSees
<1>5. CASE camTask'[c] \in {"none", "posting", "over"}
  BY <1>2, <1>3, <1>5 DEF TaskSees
<1>6. CASE answer'[c] = "none" /\ camTask'[c] # "telling"
  BY <1>2, <1>3, <1>6 DEF TaskSees
<1>7. CASE camTask'[c] = "waiting" /\ answer'[c] \notin {"busy", "empty"}
  BY <1>2, <1>3, <1>7 DEF TaskSees
<1> QED
  BY <1>4, <1>5, <1>6, <1>7

LEMMA WorldChangesKeeps ==
  ASSUME OrchInv, NEW c \in Cameras, WorldChanges(c)
  PROVE  OrchInv'
<1>1. /\ UNCHANGED <<listed, polling, active, camTask, frame, answer, frameQueue, batch,
                     hadSome, empties, view, behind, mishaps>>
      /\ changes < MaxChanges /\ changes' = changes + 1
  BY DEF WorldChanges, pollVars, cacheVars
<1>2. shown' \subseteq Cameras /\ readable' \subseteq Cameras
  BY DEF WorldChanges, Toggle, OrchInv, OrchTypeOK
<1>6. installed' \in [Cameras -> SUBSET (Plugins \cup {OtherPlugin})]
  BY DEF WorldChanges, OrchInv, OrchTypeOK
<1>3. changes' \in 0..MaxChanges
  BY <1>1, OrchNumbers DEF OrchInv, OrchTypeOK
<1>4. OrchTypeOK'
  BY <1>1, <1>2, <1>3, <1>6 DEF OrchInv, OrchTypeOK
<1>5. \A d \in Cameras : TaskSees(d)'
  BY <1>1, TaskKept
<1> QED
  BY <1>1, <1>4, <1>5, FramesKept

LEMMA PollListsKeeps == ASSUME OrchInv, PollLists PROVE OrchInv'
<1>1. UNCHANGED <<shown, readable, installed, changes, active, camTask, frame, answer, frameQueue,
                  batch, hadSome, empties, view, behind>>
  BY DEF PollLists, worldVars, cacheVars
<1>2. listed' \subseteq Cameras /\ polling' \in {"asleep", "zones"}
  BY DEF PollLists, Mishap, OrchInv, OrchTypeOK
<1>3. mishaps' \in 0..MaxMishaps
  BY MishapCounted DEF PollLists, OrchInv, OrchTypeOK
<1>4. OrchTypeOK'
  BY <1>1, <1>2, <1>3 DEF OrchInv, OrchTypeOK
<1>5. \A d \in Cameras : TaskSees(d)'
  BY <1>1, TaskKept
<1> QED
  BY <1>1, <1>4, <1>5, FramesKept

LEMMA PollAppliesKeeps == ASSUME OrchInv, PollApplies PROVE OrchInv'
<1>1. UNCHANGED <<shown, readable, installed, changes, listed, active, frame, frameQueue,
                  batch, hadSome, empties, view, behind, mishaps>>
  BY DEF PollApplies, worldVars, cacheVars
<1>2. ASSUME NEW c \in Cameras
      PROVE  /\ camTask'[c] \in TaskSteps /\ answer'[c] \in FutureStates
             /\ \/ camTask'[c] = camTask[c] /\ answer'[c] = answer[c]
                \/ answer'[c] = "none" /\ camTask'[c] # "telling"
  <2>1. camTask[c] \in TaskSteps /\ answer[c] \in FutureStates
    BY OrchTypesOfCamera DEF OrchInv
  <2>2. camTask'[c] = CASE c \in Started -> "opening"
                        [] c \in Dropped -> "none"
                        [] OTHER -> camTask[c]
    BY DEF PollApplies
  <2>3. answer'[c] = IF c \in Started \cup Dropped THEN "none" ELSE answer[c]
    BY DEF PollApplies
  <2>4. CASE c \in Started
    <3>1. c \notin Dropped
      BY <2>4 DEF Started, Dropped
    <3>2. camTask'[c] = "opening" /\ answer'[c] = "none"
      BY <2>2, <2>3, <2>4, <3>1
    <3> QED
      BY <3>2 DEF TaskSteps, FutureStates
  <2>5. CASE c \in Dropped
    <3>1. c \notin Started
      BY <2>5 DEF Started, Dropped
    <3>2. camTask'[c] = "none" /\ answer'[c] = "none"
      BY <2>2, <2>3, <2>5, <3>1
    <3> QED
      BY <3>2 DEF TaskSteps, FutureStates
  <2>6. CASE c \notin Started /\ c \notin Dropped
    BY <2>1, <2>2, <2>3, <2>6
  <2> QED
    BY <2>4, <2>5, <2>6
<1>3. camTask' \in [Cameras -> TaskSteps]
  <2>1. camTask' = [c \in Cameras |-> camTask'[c]]
    BY DEF PollApplies
  <2> QED
    BY <1>2, <2>1
<1>4. answer' \in [Cameras -> FutureStates]
  <2>1. answer' = [c \in Cameras |-> answer'[c]]
    BY DEF PollApplies
  <2> QED
    BY <1>2, <2>1
<1>5. polling' \in {"asleep", "zones"}
  BY DEF PollApplies
<1>6. OrchTypeOK'
  BY <1>1, <1>3, <1>4, <1>5 DEF OrchInv, OrchTypeOK
<1>7. \A d \in Cameras : TaskSees(d)'
  BY <1>1, <1>2, TaskKept
<1> QED
  BY <1>1, <1>6, <1>7, FramesKept

\* A task goes on and its future stays as it is.
LEMMA StepsKeeps ==
  ASSUME OrchInv, NEW c \in Cameras, NEW step \in TaskSteps, Steps(c, step),
         NEW names \in SUBSET Plugins,
         active' = [active EXCEPT ![c] = names],
         UNCHANGED <<shown, readable, installed, changes, listed, polling, frame, answer,
                     frameQueue, batch, hadSome, empties, view, behind>>,
         mishaps' \in 0..MaxMishaps,
         step \in {"posting", "over"} \/ (answer[c] = "none" /\ step # "telling")
  PROVE  OrchInv'
<1>1. camTask' = [camTask EXCEPT ![c] = step]
  BY DEF Steps
<1>2. OrchTypeOK'
  BY <1>1 DEF OrchInv, OrchTypeOK
<1>3. ASSUME NEW d \in Cameras PROVE TaskSees(d)'
  <2>1. CASE d = c
    <3>1. camTask'[d] = step /\ answer'[d] = answer[d]
      BY <1>1, <2>1 DEF OrchInv, OrchTypeOK
    <3> QED
      BY <2>1, <3>1, TaskKept
  <2>2. CASE d # c
    <3>1. camTask'[d] = camTask[d] /\ answer'[d] = answer[d] /\ active'[d] = active[d]
      BY <1>1, <2>2 DEF OrchInv, OrchTypeOK
    <3> QED
      BY <3>1, TaskKept
  <2> QED
    BY <2>1, <2>2
<1> QED
  BY <1>2, <1>3, FramesKept

\* The same of a task whose plugins stay the same.
LEMMA GoesOnKeeps ==
  ASSUME OrchInv, NEW c \in Cameras, NEW step \in TaskSteps, Steps(c, step),
         UNCHANGED <<shown, readable, installed, changes, listed, polling, active, frame,
                     answer, frameQueue, batch, hadSome, empties, view, behind>>,
         mishaps' \in 0..MaxMishaps,
         step \in {"posting", "over"} \/ (answer[c] = "none" /\ step # "telling")
  PROVE  OrchInv'
<1>1. active \in [Cameras -> SUBSET Plugins]
  BY DEF OrchInv, OrchTypeOK
<1>2. active' = [active EXCEPT ![c] = active[c]] /\ active[c] \in SUBSET Plugins
  BY <1>1
<1> QED
  BY <1>2, StepsKeeps

LEMMA OpenStreamKeeps ==
  ASSUME OrchInv, NEW c \in Cameras, OpenStream(c)
  PROVE  OrchInv'
<1>1. PICK step \in {"filtering", "over"} : Steps(c, step)
  BY DEF OpenStream
<1>2. step \in TaskSteps
  BY DEF TaskSteps
<1>3. answer[c] = "none"
  BY DEF OrchInv, TaskSees, OpenStream
<1>4. /\ UNCHANGED <<shown, readable, installed, changes, listed, polling, active, frame,
                     answer, frameQueue, batch, hadSome, empties, view, behind>>
      /\ mishaps' \in 0..MaxMishaps
  BY DEF OpenStream, worldVars, pollVars, cacheVars, OrchInv, OrchTypeOK
<1> QED
  BY <1>1, <1>2, <1>3, <1>4, GoesOnKeeps

LEMMA FilterPluginsKeeps ==
  ASSUME OrchInv, NEW c \in Cameras, FilterPlugins(c)
  PROVE  OrchInv'
<1>1. PICK names \in {installed[c], {}} :
        LET named == IF names = {} THEN Plugins ELSE names \cap Plugins
        IN /\ IF names = installed[c] THEN UNCHANGED mishaps ELSE Mishap
           /\ active' = [active EXCEPT ![c] = named]
           /\ Steps(c, IF named = {} THEN "over" ELSE "reading")
  BY DEF FilterPlugins
<1>2. PICK named \in SUBSET Plugins : named = IF names = {} THEN Plugins ELSE names \cap Plugins
  OBVIOUS
<1>3. PICK step \in TaskSteps : step \in {"reading", "over"} /\ Steps(c, step)
  BY <1>1 DEF TaskSteps
<1>4. active' = [active EXCEPT ![c] = named]
  BY <1>1, <1>2
<1>5. answer[c] = "none"
  BY DEF OrchInv, TaskSees, FilterPlugins
<1>6. UNCHANGED <<shown, readable, installed, changes, listed, polling, frame, answer,
                  frameQueue, batch, hadSome, empties, view, behind>>
  BY DEF FilterPlugins, worldVars, pollVars, cacheVars
<1>7. mishaps' \in 0..MaxMishaps
  BY <1>1, MishapCounted DEF OrchInv, OrchTypeOK
<1> QED
  BY <1>3, <1>4, <1>5, <1>6, <1>7, StepsKeeps

LEMMA RefreshRaisesKeeps ==
  ASSUME OrchInv, NEW c \in Cameras, RefreshRaises(c)
  PROVE  OrchInv'
<1>1. Steps(c, "over") /\ "over" \in TaskSteps
  BY DEF RefreshRaises, TaskSteps
<1>2. UNCHANGED <<shown, readable, installed, changes, listed, polling, active, frame,
                  answer, frameQueue, batch, hadSome, empties, view, behind>>
  BY DEF RefreshRaises, worldVars, pollVars, cacheVars
<1>3. mishaps' \in 0..MaxMishaps
  BY MishapCounted DEF RefreshRaises, OrchInv, OrchTypeOK
<1> QED
  BY <1>1, <1>2, <1>3, GoesOnKeeps

LEMMA AnswerBrokenKeeps ==
  ASSUME OrchInv, NEW c \in Cameras, AnswerBroken(c)
  PROVE  OrchInv'
<1>1. Steps(c, "over") /\ "over" \in TaskSteps
  BY DEF AnswerBroken, TaskSteps
<1>2. /\ UNCHANGED <<shown, readable, installed, changes, listed, polling, active, frame,
                     answer, frameQueue, batch, hadSome, empties, view, behind>>
      /\ mishaps' \in 0..MaxMishaps
  BY DEF AnswerBroken, worldVars, pollVars, cacheVars, OrchInv, OrchTypeOK
<1> QED
  BY <1>1, <1>2, GoesOnKeeps

LEMMA ReadFrameKeeps ==
  ASSUME OrchInv, NEW c \in Cameras, NEW busy \in BOOLEAN, ReadFrame(c, busy)
  PROVE  OrchInv'
<1>1. PICK f : f = [camera |-> c, no |-> frame[c].no + 1, busy |-> busy]
  OBVIOUS
<1>2. /\ frame[c].no < MaxFrames /\ frame' = [frame EXCEPT ![c] = f]
      /\ camTask' = [camTask EXCEPT ![c] = "posting"]
      /\ UNCHANGED <<shown, readable, installed, changes, listed, polling, active, answer,
                     frameQueue, batch, hadSome, empties, view, behind, mishaps>>
  BY <1>1 DEF ReadFrame, Steps, worldVars, pollVars, cacheVars
<1>3. frame[c].no \in Nat /\ frame \in [Cameras -> Frames] /\ camTask \in [Cameras -> TaskSteps]
  BY OrchTypesOfCamera DEF OrchInv, OrchTypeOK
<1>4. f.camera = c /\ f.no = frame[c].no + 1
  BY <1>1
<1>5. f \in Frames
  <2>1. frame[c].no + 1 \in 0..MaxFrames
    BY <1>2, <1>3, OrchNumbers
  <2> QED
    BY <1>1, <2>1 DEF Frames
<1>6. OrchTypeOK'
  BY <1>2, <1>3, <1>5 DEF OrchInv, OrchTypeOK, TaskSteps
<1>7. frame'[c] = f /\ camTask'[c] = "posting"
  BY <1>2, <1>3
<1>8. \A d \in Cameras \ {c} : frame'[d] = frame[d] /\ camTask'[d] = camTask[d]
  BY <1>2, <1>3
<1>9. ASSUME NEW d \in Cameras PROVE TaskSees(d)'
  <2>1. TaskSees(d)
    BY DEF OrchInv
  <2>2. (\A p \in Plugins \ behind[d] : (p \in view[d]) <=> hadSome[d])'
    BY <1>2, <2>1 DEF TaskSees
  <2>3. CASE d = c
    BY <1>4, <1>7, <2>2, <2>3 DEF TaskSees
  <2>4. CASE d # c
    BY <1>2, <1>8, <2>1, <2>4 DEF TaskSees
  <2> QED
    BY <2>3, <2>4
<1>10. ASSUME NEW g \in Frames, OwnFrame(g) PROVE OwnFrame(g)'
  <2>1. g.camera \in Cameras /\ g.no \in Nat
    BY OrchNumbers DEF Frames
  <2>2. CASE g.camera = c
    <3>1. g.no <= frame[c].no
      BY <1>10, <2>2 DEF OwnFrame
    <3>2. frame'[g.camera].no = frame[c].no + 1
      BY <1>4, <1>7, <2>2
    <3>3. g.no <= frame'[g.camera].no /\ g.no # frame'[g.camera].no
      BY <1>3, <2>1, <3>1, <3>2
    <3> QED
      BY <3>3 DEF OwnFrame
  <2>3. CASE g.camera # c
    <3>1. frame'[g.camera] = frame[g.camera]
      BY <1>8, <2>1, <2>3
    <3> QED
      BY <1>10, <3>1 DEF OwnFrame
  <2> QED
    BY <2>2, <2>3
<1>11. frameQueue \in Seq(Frames) /\ batch \in Seq(Frames)
  BY DEF OrchInv, OrchTypeOK
<1>12. OwnFrames(frameQueue)'
  <2>1. \A i \in DOMAIN frameQueue : frameQueue[i] \in Frames /\ OwnFrame(frameQueue[i])
    BY <1>11 DEF OrchInv, OwnFrames
  <2>2. ASSUME NEW i \in DOMAIN frameQueue PROVE OwnFrame(frameQueue[i])'
    <3>1. PICK g \in Frames : g = frameQueue[i]
      BY <2>1
    <3>2. OwnFrame(g)'
      BY <1>10, <2>1, <3>1
    <3>3. frameQueue'[i] = g
      BY <1>2, <3>1
    <3> QED
      BY <3>2, <3>3 DEF OwnFrame
  <2> QED
    BY <1>2, <2>2 DEF OwnFrames
<1>13. OwnFrames(batch)'
  <2>1. \A i \in DOMAIN batch : batch[i] \in Frames /\ OwnFrame(batch[i])
    BY <1>11 DEF OrchInv, OwnFrames
  <2>2. ASSUME NEW i \in DOMAIN batch PROVE OwnFrame(batch[i])'
    <3>1. PICK g \in Frames : g = batch[i]
      BY <2>1
    <3>2. OwnFrame(g)'
      BY <1>10, <2>1, <3>1
    <3>3. batch'[i] = g
      BY <1>2, <3>1
    <3> QED
      BY <3>2, <3>3 DEF OwnFrame
  <2> QED
    BY <1>2, <2>2 DEF OwnFrames
<1> QED
  BY <1>6, <1>9, <1>12, <1>13 DEF OrchInv

LEMMA PostFrameKeeps ==
  ASSUME OrchInv, NEW c \in Cameras, PostFrame(c)
  PROVE  OrchInv'
<1>1. PICK f : f = frame[c]
  OBVIOUS
<1>2. /\ Len(frameQueue) < QueueSize /\ frameQueue' = Append(frameQueue, f)
      /\ answer' = [answer EXCEPT ![c] = "pending"]
      /\ camTask' = [camTask EXCEPT ![c] = "waiting"]
      /\ UNCHANGED <<shown, readable, installed, changes, listed, polling, active, frame,
                     batch, hadSome, empties, view, behind, mishaps>>
  BY <1>1 DEF PostFrame, Steps, worldVars, pollVars, cacheVars
<1>3. /\ f \in Frames /\ f.camera = c /\ frame[c] = f /\ f.no \in Nat
      /\ frameQueue \in Seq(Frames) /\ QueueSize \in Nat
  BY <1>1, OrchTypesOfCamera, OrchestratorAssumption DEF OrchInv, OrchTypeOK, TaskSees
<1>4. /\ frameQueue' \in Seq(Frames) /\ Len(frameQueue') = Len(frameQueue) + 1
      /\ DOMAIN frameQueue' = 1..(Len(frameQueue) + 1)
      /\ \A i \in 1..Len(frameQueue) : frameQueue'[i] = frameQueue[i]
      /\ frameQueue'[Len(frameQueue) + 1] = f
  BY <1>2, <1>3
<1>5. Len(frameQueue) \in Nat /\ DOMAIN frameQueue = 1..Len(frameQueue)
  BY <1>3
<1>6. Len(frameQueue') <= QueueSize
  BY <1>2, <1>3, <1>4, <1>5
<1>7. OrchTypeOK'
  BY <1>2, <1>4, <1>6 DEF OrchInv, OrchTypeOK, TaskSteps, FutureStates
<1>8. ASSUME NEW d \in Cameras PROVE TaskSees(d)'
  <2>1. answer \in [Cameras -> FutureStates] /\ camTask \in [Cameras -> TaskSteps]
    BY DEF OrchInv, OrchTypeOK
  <2>2. CASE d = c
    <3>1. camTask'[d] = "waiting" /\ answer'[d] = "pending"
      BY <1>2, <2>1, <2>2
    <3> QED
      BY <1>2, <3>1, TaskKept
  <2>3. CASE d # c
    <3>1. camTask'[d] = camTask[d] /\ answer'[d] = answer[d] /\ active'[d] = active[d]
      BY <1>2, <2>1, <2>3
    <3> QED
      BY <1>2, <3>1, TaskKept
  <2> QED
    BY <2>2, <2>3
<1>9. OwnFrames(frameQueue)'
  <2>1. ASSUME NEW i \in 1..(Len(frameQueue) + 1) PROVE OwnFrame(frameQueue[i])'
    <3>1. CASE i \in 1..Len(frameQueue)
      <4>1. frameQueue'[i] = frameQueue[i] /\ OwnFrame(frameQueue[i])
        BY <1>4, <1>5, <3>1 DEF OrchInv, OwnFrames
      <4> QED
        BY <1>2, <4>1 DEF OwnFrame
    <3>2. CASE i = Len(frameQueue) + 1
      <4>1. frameQueue'[i] = f /\ frame'[f.camera] = f
        BY <1>2, <1>3, <1>4, <3>2
      <4>2. f.no <= f.no
        BY <1>3
      <4> QED
        BY <4>1, <4>2 DEF OwnFrame
    <3> QED
      BY <1>5, <3>1, <3>2
  <2> QED
    BY <1>4, <2>1 DEF OwnFrames
<1>10. OwnFrames(batch)'
  BY <1>2 DEF OrchInv, OwnFrames, OwnFrame
<1> QED
  BY <1>7, <1>8, <1>9, <1>10 DEF OrchInv

LEMMA AnswerLateKeeps ==
  ASSUME OrchInv, NEW c \in Cameras, AnswerLate(c)
  PROVE  OrchInv'
<1>1. /\ camTask[c] = "waiting" /\ answer' = [answer EXCEPT ![c] = "late"]
      /\ UNCHANGED <<shown, readable, installed, changes, listed, polling, active, camTask,
                     frame, frameQueue, batch, hadSome, empties, view, behind>>
  BY DEF AnswerLate, worldVars, pollVars, cacheVars
<1>2. mishaps' \in 0..MaxMishaps
  BY MishapCounted DEF AnswerLate, OrchInv, OrchTypeOK
<1>3. answer \in [Cameras -> FutureStates]
  BY DEF OrchInv, OrchTypeOK
<1>4. OrchTypeOK'
  BY <1>1, <1>2 DEF OrchInv, OrchTypeOK, FutureStates
<1>5. ASSUME NEW d \in Cameras PROVE TaskSees(d)'
  <2>1. CASE d = c
    <3>1. camTask'[d] = "waiting" /\ answer'[d] = "late"
      BY <1>1, <1>3, <2>1
    <3> QED
      BY <1>1, <3>1, TaskKept
  <2>2. CASE d # c
    <3>1. camTask'[d] = camTask[d] /\ answer'[d] = answer[d] /\ active'[d] = active[d]
      BY <1>1, <1>3, <2>2
    <3> QED
      BY <1>1, <3>1, TaskKept
  <2> QED
    BY <2>1, <2>2
<1> QED
  BY <1>1, <1>4, <1>5, FramesKept

\* A count taken modulo a limit stays below it.
LEMMA CountWraps == \A n \in Nat : (n + 1) % MaxEmptyFrames \in 0..MaxEmptyFrames
BY OrchNumbers

LEMMA HandleAnswerKeeps ==
  ASSUME OrchInv, NEW c \in Cameras, HandleAnswer(c)
  PROVE  OrchInv'
<1>1. PICK seen \in BOOLEAN : seen <=> answer[c] = "busy"
  OBVIOUS
<1>2. seen = Detected(c)
  BY <1>1 DEF Detected
<1>3. PICK n : n = CASE Detected(c) -> 0
                     [] hadSome[c]  -> 1
                     [] OTHER       -> (empties[c] + 1) % MaxEmptyFrames
  OBVIOUS
<1>4. /\ camTask[c] = "waiting" /\ answer[c] \in {"busy", "empty", "late"}
      /\ hadSome' = [hadSome EXCEPT ![c] = seen]
      /\ empties' = [empties EXCEPT ![c] = n]
      /\ UNCHANGED <<shown, readable, installed, changes, listed, polling, active, frame,
                     answer, frameQueue, batch, mishaps>>
  BY <1>2, <1>3 DEF HandleAnswer, worldVars, pollVars
<1>5. TaskSees(c)
  BY DEF OrchInv
<1>6. \/ /\ seen \/ hadSome[c]
         /\ \E p \in active[c] :
              /\ view' = [view EXCEPT ![c] = IF seen THEN view[c] \cup {p} ELSE view[c] \ {p}]
              /\ behind' = [behind EXCEPT ![c] = Plugins \ {p}]
         /\ camTask' = [camTask EXCEPT ![c] = "telling"]
      \/ /\ ~seen /\ ~hadSome[c] /\ UNCHANGED <<view, behind>>
         /\ camTask' = [camTask EXCEPT ![c] = "reading"]
  BY <1>2 DEF HandleAnswer, ShouldProcess, Tell, Steps
<1>7. n \in 0..MaxEmptyFrames
  <2>1. empties[c] \in Nat
    BY OrchTypesOfCamera, OrchNumbers DEF OrchInv
  <2>2. (empties[c] + 1) % MaxEmptyFrames \in 0..MaxEmptyFrames
    BY <2>1, CountWraps
  <2>3. 0 \in 0..MaxEmptyFrames /\ 1 \in 0..MaxEmptyFrames
    BY OrchNumbers
  <2>4. n \in {0, 1, (empties[c] + 1) % MaxEmptyFrames}
    BY <1>3
  <2> QED
    BY <2>2, <2>3, <2>4
<1>8. /\ camTask \in [Cameras -> TaskSteps] /\ view \in [Cameras -> SUBSET Plugins]
      /\ behind \in [Cameras -> SUBSET Plugins] /\ active \in [Cameras -> SUBSET Plugins]
      /\ hadSome \in [Cameras -> BOOLEAN] /\ empties \in [Cameras -> 0..MaxEmptyFrames]
  BY DEF OrchInv, OrchTypeOK
<1>9. view' \in [Cameras -> SUBSET Plugins] /\ behind' \in [Cameras -> SUBSET Plugins]
  BY <1>6, <1>8
<1>10. hadSome' \in [Cameras -> BOOLEAN]
  BY <1>4, <1>8
<1>11. empties' \in [Cameras -> 0..MaxEmptyFrames]
  BY <1>4, <1>7, <1>8
<1>12. camTask' \in [Cameras -> TaskSteps]
  BY <1>6, <1>8 DEF TaskSteps
<1>13. OrchTypeOK'
  BY <1>4, <1>9, <1>10, <1>11, <1>12 DEF OrchInv, OrchTypeOK
<1>14. ASSUME NEW d \in Cameras \ {c} PROVE TaskSees(d)'
  <2>1. /\ camTask'[d] = camTask[d] /\ view'[d] = view[d] /\ behind'[d] = behind[d]
    BY <1>6, <1>8
  <2>2. hadSome'[d] = hadSome[d]
    BY <1>4, <1>8
  <2>3. TaskSees(d) /\ UNCHANGED <<active, frame, answer>>
    BY <1>4 DEF OrchInv
  <2> QED
    BY <2>1, <2>2, <2>3 DEF TaskSees
<1>15. TaskSees(c)'
  <2>1. (hadSome'[c] <=> seen) /\ (seen => frame[c].busy)
    BY <1>1, <1>4, <1>5, <1>8 DEF TaskSees
  <2>2. frame'[c].camera = c
    BY <1>4, <1>5 DEF TaskSees
  <2>3. answer'[c] # "late" => (answer'[c] = "busy" <=> frame'[c].busy)
    BY <1>4, <1>5 DEF TaskSees
  <2>4. CASE camTask' = [camTask EXCEPT ![c] = "telling"] /\ (seen \/ hadSome[c])
    <3>1. camTask'[c] = "telling"
      BY <1>8, <2>4
    <3>2. PICK p \in active[c] :
            /\ view' = [view EXCEPT ![c] = IF seen THEN view[c] \cup {p} ELSE view[c] \ {p}]
            /\ behind' = [behind EXCEPT ![c] = Plugins \ {p}]
      BY <1>6, <1>8, <2>4
    <3>3. p \in Plugins /\ behind'[c] = Plugins \ {p} /\ (p \in view'[c] <=> seen)
      BY <1>8, <3>2
    <3>4. \A q \in Plugins \ behind'[c] : (q \in view'[c]) <=> hadSome'[c]
      BY <2>1, <3>3
    <3> QED
      BY <1>1, <1>4, <2>1, <2>2, <2>3, <3>1, <3>4 DEF TaskSees
  <2>5. CASE ~seen /\ ~hadSome[c] /\ UNCHANGED <<view, behind>>
             /\ camTask' = [camTask EXCEPT ![c] = "reading"]
    <3>1. camTask'[c] = "reading"
      BY <1>8, <2>5
    <3>2. \A q \in Plugins \ behind'[c] : (q \in view'[c]) <=> hadSome'[c]
      BY <1>5, <2>1, <2>5 DEF TaskSees
    <3>3. hadSome'[c] <=> frame'[c].busy /\ answer'[c] # "late"
      BY <1>1, <1>4, <2>1, <2>3, <2>5
    <3> QED
      BY <2>1, <2>2, <2>5, <3>1, <3>2, <3>3 DEF TaskSees
  <2> QED
    BY <1>6, <2>4, <2>5
<1>16. \A d \in Cameras : TaskSees(d)'
  BY <1>14, <1>15
<1> QED
  BY <1>4, <1>13, <1>16, FramesKept

LEMMA TellNextKeeps ==
  ASSUME OrchInv, NEW c \in Cameras, TellNext(c)
  PROVE  OrchInv'
<1>1. /\ camTask[c] = "telling"
      /\ UNCHANGED <<shown, readable, installed, changes, listed, polling, active, frame,
                     answer, frameQueue, batch, hadSome, empties, mishaps>>
      /\ \/ /\ \E p \in active[c] \cap behind[c] :
                  /\ view' = [view EXCEPT ![c] = IF Detected(c) THEN view[c] \cup {p}
                                                 ELSE view[c] \ {p}]
                  /\ behind' = [behind EXCEPT ![c] = behind[c] \ {p}]
            /\ UNCHANGED camTask
         \/ /\ active[c] \cap behind[c] = {} /\ UNCHANGED <<view, behind>>
            /\ camTask' = [camTask EXCEPT ![c] = "reading"]
  BY DEF TellNext, Tell, Steps, worldVars, pollVars
<1>2. /\ camTask \in [Cameras -> TaskSteps] /\ view \in [Cameras -> SUBSET Plugins]
      /\ behind \in [Cameras -> SUBSET Plugins] /\ active \in [Cameras -> SUBSET Plugins]
  BY DEF OrchInv, OrchTypeOK
<1>3. view' \in [Cameras -> SUBSET Plugins] /\ behind' \in [Cameras -> SUBSET Plugins]
  BY <1>1, <1>2
<1>4. camTask' \in [Cameras -> TaskSteps]
  BY <1>1, <1>2 DEF TaskSteps
<1>5. OrchTypeOK'
  BY <1>1, <1>3, <1>4 DEF OrchInv, OrchTypeOK
<1>6. ASSUME NEW d \in Cameras \ {c} PROVE TaskSees(d)'
  <2>1. /\ camTask'[d] = camTask[d] /\ view'[d] = view[d] /\ behind'[d] = behind[d]
    BY <1>1, <1>2
  <2>2. TaskSees(d) /\ UNCHANGED <<active, frame, answer, hadSome>>
    BY <1>1 DEF OrchInv
  <2> QED
    BY <2>1, <2>2 DEF TaskSees
<1>7. /\ TaskSees(c) /\ UNCHANGED <<active, frame, answer, hadSome>>
      /\ hadSome[c] <=> answer[c] = "busy"
  BY <1>1 DEF OrchInv, TaskSees
<1>8. CASE camTask' = [camTask EXCEPT ![c] = "reading"] /\ UNCHANGED <<view, behind>>
           /\ active[c] \cap behind[c] = {}
  <2>1. camTask'[c] = "reading"
    BY <1>2, <1>8
  <2>2. hadSome'[c] <=> frame'[c].busy /\ answer'[c] # "late"
    BY <1>1, <1>7 DEF TaskSees
  <2>3. TaskSees(c)'
    BY <1>1, <1>7, <1>8, <2>1, <2>2 DEF TaskSees
  <2>4. \A d \in Cameras : TaskSees(d)'
    BY <1>6, <2>3
  <2> QED
    BY <1>1, <1>5, <2>4, FramesKept
<1>9. CASE UNCHANGED camTask /\ \E p \in active[c] \cap behind[c] :
             /\ view' = [view EXCEPT ![c] = IF Detected(c) THEN view[c] \cup {p}
                                            ELSE view[c] \ {p}]
             /\ behind' = [behind EXCEPT ![c] = behind[c] \ {p}]
  <2>1. PICK p \in active[c] \cap behind[c] :
             /\ view' = [view EXCEPT ![c] = IF Detected(c) THEN view[c] \cup {p}
                                            ELSE view[c] \ {p}]
             /\ behind' = [behind EXCEPT ![c] = behind[c] \ {p}]
    BY <1>9
  <2>2. /\ behind'[c] = behind[c] \ {p} /\ (p \in view'[c] <=> hadSome[c])
        /\ \A q \in Plugins \ {p} : q \in view'[c] <=> q \in view[c]
    BY <1>2, <1>7, <2>1 DEF Detected
  <2>3. \A q \in Plugins \ behind'[c] : (q \in view'[c]) <=> hadSome'[c]
    BY <1>7, <2>2 DEF TaskSees
  <2>4. camTask'[c] = "telling"
    BY <1>1, <1>9
  <2>5. TaskSees(c)'
    BY <1>1, <1>7, <2>3, <2>4 DEF TaskSees
  <2>6. \A d \in Cameras : TaskSees(d)'
    BY <1>6, <2>5
  <2> QED
    BY <1>1, <1>5, <2>6, FramesKept
<1> QED
  BY <1>1, <1>8, <1>9

LEMMA CollectFrameKeeps == ASSUME OrchInv, CollectFrame PROVE OrchInv'
<1>1. /\ frameQueue # <<>> /\ Len(batch) < MaxBatch
      /\ batch' = Append(batch, Head(frameQueue)) /\ frameQueue' = Tail(frameQueue)
      /\ UNCHANGED <<shown, readable, installed, changes, listed, polling, active, camTask,
                     frame, answer, hadSome, empties, view, behind, mishaps>>
  BY DEF CollectFrame, worldVars, pollVars, cacheVars
<1>2. /\ frameQueue \in Seq(Frames) /\ batch \in Seq(Frames)
      /\ Len(frameQueue) <= QueueSize /\ QueueSize \in Nat /\ MaxBatch \in Nat
  BY OrchestratorAssumption DEF OrchInv, OrchTypeOK
<1>3. /\ Len(frameQueue) \in Nat /\ Len(frameQueue) > 0
      /\ DOMAIN frameQueue = 1..Len(frameQueue)
      /\ Head(frameQueue) = frameQueue[1]
  BY <1>1, <1>2
<1>4. /\ frameQueue' \in Seq(Frames) /\ Len(frameQueue') = Len(frameQueue) - 1
      /\ \A i \in 1..(Len(frameQueue) - 1) : frameQueue'[i] = frameQueue[i + 1]
      /\ DOMAIN frameQueue' = 1..(Len(frameQueue) - 1)
  BY <1>1, <1>2, <1>3
<1>5. PICK f \in Frames : f = Head(frameQueue) /\ OwnFrame(f)
  <2>1. 1 \in DOMAIN frameQueue
    BY <1>3
  <2> QED
    BY <1>2, <1>3, <2>1 DEF OrchInv, OwnFrames
<1>6. /\ batch' \in Seq(Frames) /\ Len(batch) \in Nat /\ Len(batch') = Len(batch) + 1
      /\ DOMAIN batch = 1..Len(batch) /\ DOMAIN batch' = 1..(Len(batch) + 1)
      /\ \A i \in 1..Len(batch) : batch'[i] = batch[i]
      /\ batch'[Len(batch) + 1] = f
  BY <1>1, <1>2, <1>5
<1>7. Len(batch') <= MaxBatch /\ Len(frameQueue') <= QueueSize
  BY <1>1, <1>2, <1>3, <1>4, <1>6
<1>8. OrchTypeOK'
  BY <1>1, <1>4, <1>6, <1>7 DEF OrchInv, OrchTypeOK
<1>9. \A d \in Cameras : TaskSees(d)'
  BY <1>1, TaskKept
<1>10. OwnFrames(frameQueue)'
  <2>1. ASSUME NEW i \in 1..(Len(frameQueue) - 1) PROVE OwnFrame(frameQueue[i])'
    <3>1. i + 1 \in DOMAIN frameQueue /\ frameQueue'[i] = frameQueue[i + 1]
      BY <1>3, <1>4
    <3>2. OwnFrame(frameQueue[i + 1])
      BY <3>1 DEF OrchInv, OwnFrames
    <3> QED
      BY <1>1, <3>1, <3>2 DEF OwnFrame
  <2> QED
    BY <1>4, <2>1 DEF OwnFrames
<1>11. OwnFrames(batch)'
  <2>1. ASSUME NEW i \in 1..(Len(batch) + 1) PROVE OwnFrame(batch[i])'
    <3>1. CASE i \in 1..Len(batch)
      <4>1. batch'[i] = batch[i] /\ OwnFrame(batch[i])
        BY <1>6, <3>1 DEF OrchInv, OwnFrames
      <4> QED
        BY <1>1, <4>1 DEF OwnFrame
    <3>2. CASE i = Len(batch) + 1
      <4>1. batch'[i] = f
        BY <1>6, <3>2
      <4> QED
        BY <1>1, <1>5, <4>1 DEF OwnFrame
    <3> QED
      BY <1>6, <3>1, <3>2
  <2> QED
    BY <1>6, <2>1 DEF OwnFrames
<1> QED
  BY <1>8, <1>9, <1>10, <1>11 DEF OrchInv

\* A future is left alone, or gets the outcome of a frame of its camera that waits for it.
LEMMA ResolvedIs ==
  ASSUME NEW outcome, NEW c \in Cameras
  PROVE  \/ Resolved(outcome)[c] = answer[c]
         \/ \E i \in DOMAIN batch :
              batch[i].camera = c /\ Pending(batch[i]) /\ Resolved(outcome)[c] = outcome[i]
<1>1. CASE \E i \in DOMAIN batch : batch[i].camera = c /\ Pending(batch[i])
  <2>1. PICK j : j = CHOOSE i \in DOMAIN batch : batch[i].camera = c /\ Pending(batch[i])
    OBVIOUS
  <2>2. j \in DOMAIN batch /\ batch[j].camera = c /\ Pending(batch[j])
    BY <1>1, <2>1
  <2>3. Resolved(outcome)[c] = outcome[j]
    BY <1>1, <2>1 DEF Resolved
  <2> QED
    BY <2>2, <2>3
<1>2. CASE ~ \E i \in DOMAIN batch : batch[i].camera = c /\ Pending(batch[i])
  BY <1>2 DEF Resolved
<1> QED
  BY <1>1, <1>2

LEMMA InferKeeps == ASSUME OrchInv, Infer PROVE OrchInv'
<1>1. /\ batch' = <<>>
      /\ UNCHANGED <<shown, readable, installed, changes, listed, polling, active, camTask,
                     frame, frameQueue, hadSome, empties, view, behind>>
  BY DEF Infer, worldVars, pollVars, cacheVars
<1>2. mishaps' \in 0..MaxMishaps
  BY MishapCounted DEF Infer, OrchInv, OrchTypeOK
<1>3. PICK outcome :
        /\ answer' = Resolved(outcome)
        /\ \/ outcome = [i \in DOMAIN batch |-> IF batch[i].busy THEN "busy" ELSE "empty"]
           \/ outcome = [i \in DOMAIN batch |-> "broken"]
  BY DEF Infer
<1>4. ASSUME NEW c \in Cameras
      PROVE  \/ answer'[c] = answer[c]
             \/ camTask[c] = "waiting" /\ answer'[c] = "broken"
             \/ /\ camTask[c] = "waiting" /\ answer'[c] \in {"busy", "empty"}
                /\ answer'[c] = "busy" <=> frame[c].busy
  <2>1. CASE answer'[c] = answer[c]
    BY <2>1
  <2>2. CASE \E i \in DOMAIN batch :
               batch[i].camera = c /\ Pending(batch[i]) /\ answer'[c] = outcome[i]
    <3>1. PICK i \in DOMAIN batch :
                 batch[i].camera = c /\ Pending(batch[i]) /\ answer'[c] = outcome[i]
      BY <2>2
    <3>2. camTask[c] = "waiting" /\ frame[c].no = batch[i].no
      BY <3>1 DEF Pending
    <3>3. OwnFrame(batch[i])
      BY DEF OrchInv, OwnFrames
    <3>4. batch[i].busy <=> frame[c].busy
      BY <3>1, <3>2, <3>3 DEF OwnFrame
    <3>5. CASE outcome[i] = "broken"
      BY <3>1, <3>2, <3>5
    <3>6. CASE outcome[i] = IF batch[i].busy THEN "busy" ELSE "empty"
      <4>1. answer'[c] = IF batch[i].busy THEN "busy" ELSE "empty"
        BY <3>1, <3>6
      <4>2. answer'[c] = "busy" <=> frame[c].busy
        BY <3>4, <4>1
      <4> QED
        BY <3>2, <4>1, <4>2
    <3> QED
      BY <1>3, <3>5, <3>6
  <2> QED
    BY <1>3, <2>1, <2>2, ResolvedIs
<1>5. answer' \in [Cameras -> FutureStates]
  <2>1. \A c \in Cameras : answer'[c] \in FutureStates
    <3> TAKE c \in Cameras
    <3>1. answer[c] \in FutureStates
      BY OrchTypesOfCamera DEF OrchInv
    <3> QED
      BY <1>4, <3>1 DEF FutureStates
  <2>2. answer' = [c \in Cameras |-> answer'[c]]
    BY <1>3 DEF Resolved
  <2> QED
    BY <2>1, <2>2
<1>6. batch' \in Seq(Frames) /\ Len(batch') <= MaxBatch
  BY <1>1, OrchestratorAssumption
<1>7. OrchTypeOK'
  BY <1>1, <1>2, <1>5, <1>6 DEF OrchInv, OrchTypeOK
<1>8. ASSUME NEW c \in Cameras PROVE TaskSees(c)'
  <2>1. TaskSees(c)
    BY DEF OrchInv
  <2>2. CASE answer'[c] = answer[c]
    BY <1>1, <2>2, TaskKept
  <2>3. CASE camTask[c] = "waiting" /\ answer'[c] = "broken"
    BY <1>1, <2>3, TaskKept
  <2>4. CASE /\ camTask[c] = "waiting" /\ answer'[c] \in {"busy", "empty"}
             /\ answer'[c] = "busy" <=> frame[c].busy
    BY <1>1, <2>1, <2>4 DEF TaskSees
  <2> QED
    BY <1>4, <2>2, <2>3, <2>4
<1>9. OwnFrames(batch)'
  BY <1>1 DEF OwnFrames
<1>10. OwnFrames(frameQueue)'
  BY <1>1 DEF OrchInv, OwnFrames, OwnFrame
<1> QED
  BY <1>7, <1>8, <1>9, <1>10 DEF OrchInv

LEMMA OrchStep == OrchInv /\ [OrchNext]_orchVars => OrchInv'
<1> SUFFICES ASSUME OrchInv, [OrchNext]_orchVars PROVE OrchInv'
  OBVIOUS
<1>1. CASE PollLists
  BY <1>1, PollListsKeeps
<1>2. CASE PollApplies
  BY <1>2, PollAppliesKeeps
<1>3. CASE CollectFrame
  BY <1>3, CollectFrameKeeps
<1>4. CASE Infer
  BY <1>4, InferKeeps
<1>5. ASSUME NEW c \in Cameras, WorldChanges(c) PROVE OrchInv'
  BY <1>5, WorldChangesKeeps
<1>6. ASSUME NEW c \in Cameras, OpenStream(c) PROVE OrchInv'
  BY <1>6, OpenStreamKeeps
<1>7. ASSUME NEW c \in Cameras, FilterPlugins(c) PROVE OrchInv'
  BY <1>7, FilterPluginsKeeps
<1>8. ASSUME NEW c \in Cameras, NEW busy \in BOOLEAN, ReadFrame(c, busy) PROVE OrchInv'
  BY <1>8, ReadFrameKeeps
<1>9. ASSUME NEW c \in Cameras, RefreshRaises(c) PROVE OrchInv'
  BY <1>9, RefreshRaisesKeeps
<1>10. ASSUME NEW c \in Cameras, PostFrame(c) PROVE OrchInv'
  BY <1>10, PostFrameKeeps
<1>11. ASSUME NEW c \in Cameras, AnswerLate(c) PROVE OrchInv'
  BY <1>11, AnswerLateKeeps
<1>12. ASSUME NEW c \in Cameras, HandleAnswer(c) PROVE OrchInv'
  BY <1>12, HandleAnswerKeeps
<1>13. ASSUME NEW c \in Cameras, AnswerBroken(c) PROVE OrchInv'
  BY <1>13, AnswerBrokenKeeps
<1>14. ASSUME NEW c \in Cameras, TellNext(c) PROVE OrchInv'
  BY <1>14, TellNextKeeps
<1>15. CASE UNCHANGED orchVars
  <2>1. UNCHANGED <<shown, readable, installed, listed, polling, active, camTask, frame,
                    answer, frameQueue, batch, hadSome, empties, view, behind, changes,
                    mishaps>>
    BY <1>15 DEF orchVars
  <2>2. OrchTypeOK'
    BY <2>1 DEF OrchInv, OrchTypeOK
  <2>3. \A d \in Cameras : TaskSees(d)'
    BY <2>1, TaskKept
  <2> QED
    BY <2>1, <2>2, <2>3, FramesKept
<1> QED
  BY <1>1, <1>2, <1>3, <1>4, <1>5, <1>6, <1>7, <1>8, <1>9, <1>10, <1>11, <1>12, <1>13,
     <1>14, <1>15 DEF OrchNext, DiscoveryLoop, BatchLoop, CameraTask

\* Frames, answers and what the cache remembers of them are of one camera each.
LEMMA OrchInvAlways == OrchSpec => []OrchInv
<1>1. OrchInit => OrchInv
  BY OrchStart
<1>2. OrchInv /\ [OrchNext]_orchVars => OrchInv'
  BY OrchStep
<1> QED
  BY <1>1, <1>2, PTL DEF OrchSpec

\* Type correctness of the orchestrator, the queue and the batch within their limits.
THEOREM OrchTypeAlwaysOK == OrchSpec => []OrchTypeOK
<1>1. OrchInv => OrchTypeOK
  BY DEF OrchInv
<1> QED
  BY <1>1, OrchInvAlways, PTL

\* For any number of cameras and plugins and any limits of queue and batch, each plugin
\* of a camera thinks of its scene what the camera's own last frame showed; one that
\* was not told that the scene is empty may think for longer that it is not.
THEOREM AlwaysSeesItsOwnFrame == OrchSpec => []SeesItsOwnFrame
<1>1. OrchInv => SeesItsOwnFrame
  <2> SUFFICES ASSUME OrchInv, NEW c \in Cameras, camTask[c] = "reading",
                      answer[c] # "none", NEW p \in active[c]
               PROVE  \/ (p \in view[c]) = (frame[c].busy /\ answer[c] # "late")
                      \/ ~(frame[c].busy /\ answer[c] # "late") /\ p \in behind[c]
    BY DEF SeesItsOwnFrame
  <2>1. hadSome[c] <=> frame[c].busy /\ answer[c] # "late"
    BY DEF OrchInv, TaskSees
  <2>2. hadSome[c] => active[c] \cap behind[c] = {}
    BY DEF OrchInv, TaskSees
  <2>3. p \in Plugins /\ frame[c].busy \in BOOLEAN
    BY OrchTypesOfCamera DEF OrchInv
  <2>4. p \notin behind[c] => (p \in view[c] <=> hadSome[c])
    BY <2>3 DEF OrchInv, TaskSees
  <2>5. CASE p \in behind[c]
    BY <2>1, <2>2, <2>5
  <2>6. CASE p \notin behind[c]
    <3>1. p \in view[c] <=> (frame[c].busy /\ answer[c] # "late")
      BY <2>1, <2>4, <2>6
    <3> QED
      BY <2>3, <3>1
  <2> QED
    BY <2>5, <2>6
<1> QED
  BY <1>1, OrchInvAlways, PTL

(***************************************************************************)
(* ZoneSync: zones are recent. The inductive invariant bounds how late     *)
(* every cached list, every answer on its way and every list in use may be *)
(* by its age.                                                             *)
(***************************************************************************)
ZoneEntries == [age : 0..CacheTtl, held : SUBSET Zones]
ZoneEdits == [open : BOOLEAN, zone : Zones, to : ZoneCameras \cup {NoCamera}]
ZoneFetches == [step : {"none", "asked", "read", "replied"}, data : SUBSET Zones,
                worker : ApiWorkers, age : 0..MaxDelay]

\* Ticks since S was right about a zone of a camera.
Late(z, c, S) == IF z \in S THEN since[z][c][TRUE] ELSE since[z][c][FALSE]

\* How late an answer may be that comes at once.
AtOnce == CacheTtl - 1 + MaxDelay

\* A camera's task asks once in an interval, and is answered in time.
FetchTimed(c) ==
  /\ fetch[c].step = "none" => fetch[c].age = 0
  /\ fetch[c].step # "none" =>
       refreshAge[c] = IF fetch[c].age < RefreshEvery THEN fetch[c].age ELSE RefreshEvery

\* What is read is right when it is read, and as late as it has been on its way.
AnswerRecent(z, c) ==
  /\ fetch[c].step = "read" => Late(z, c, fetch[c].data) <= fetch[c].age
  /\ fetch[c].step = "replied" => Late(z, c, fetch[c].data) <= AtOnce + fetch[c].age

CachesRecent(z, c) ==
  \A w \in ApiWorkers :
    zoneCache[w][c].age < CacheTtl =>
      Late(z, c, zoneCache[w][c].held) <= zoneCache[w][c].age + MaxDelay

\* What is in use came with the last answer, which was asked for an interval ago at most.
UseRecent(z, c) ==
  /\ fetch[c].step = "none" =>
       \/ Late(z, c, used[c]) <= AtOnce + refreshAge[c]
       \/ refreshAge[c] = RefreshEvery /\ Late(z, c, used[c]) <= AtOnce + MaxDelay
  /\ fetch[c].step # "none" =>
       Late(z, c, used[c]) <= AtOnce + Interval + fetch[c].age

\* The inductive invariant of zones on their way to the analysis.
ZoneInv ==
  /\ ZoneTypeOK
  /\ \A c \in Watched : FetchTimed(c)
  /\ \A z \in Zones, c \in Watched :
       /\ Late(z, c, ArmedZones(c)) = 0
       /\ AnswerRecent(z, c) /\ CachesRecent(z, c) /\ UseRecent(z, c)

LEMMA ZoneNumbers ==
  /\ CacheTtl \in Nat /\ CacheTtl > 0 /\ RefreshEvery \in Nat /\ RefreshEvery > 0
  /\ MaxDelay \in Nat /\ MaxDelay > 0
  /\ Interval \in Nat /\ Interval >= RefreshEvery /\ Interval >= MaxDelay
  /\ AtOnce \in Nat /\ StaleBound \in Nat /\ StaleBound = AtOnce + Interval + MaxDelay
BY ZoneSyncAssumption DEF Interval, AtOnce, StaleBound

LEMMA LateIsSince ==
  ASSUME NEW z, NEW c, NEW S
  PROVE  since[z][c][(z \in S)] = Late(z, c, S)
<1>1. CASE z \in S
  <2>1. (z \in S) <=> TRUE
    BY <1>1
  <2>2. (z \in S) = TRUE
    BY <2>1
  <2> QED
    BY <1>1, <2>2 DEF Late
<1>2. CASE z \notin S
  <2>1. (z \in S) <=> FALSE
    BY <1>2
  <2>2. (z \in S) = FALSE
    BY <2>1
  <2> QED
    BY <1>2, <2>2 DEF Late
<1> QED
  BY <1>1, <1>2

LEMMA AgesAreNumbers ==
  \A x \in 0..StaleBound + 1 : x \in Nat /\ 0 <= x /\ x <= x
BY ZoneNumbers

LEMMA AgesGoOn ==
  \A x, y \in 0..StaleBound + 1, n \in Nat : x <= y /\ y <= n => x <= n
BY ZoneNumbers

LEMMA LateTyped ==
  ASSUME ZoneTypeOK, NEW z \in Zones, NEW c \in Watched
  PROVE  /\ since[z][c] \in [BOOLEAN -> 0..StaleBound + 1]
         /\ since[z][c][TRUE] \in 0..StaleBound + 1
         /\ since[z][c][FALSE] \in 0..StaleBound + 1
         /\ \A S : Late(z, c, S) \in Nat
<1>1. since[z][c] \in [BOOLEAN -> 0..StaleBound + 1]
  BY DEF ZoneTypeOK
<1>2. TRUE \in BOOLEAN /\ FALSE \in BOOLEAN
  OBVIOUS
<1>3. since[z][c][TRUE] \in 0..StaleBound + 1 /\ since[z][c][FALSE] \in 0..StaleBound + 1
  BY <1>1, <1>2
<1>4. since[z][c][TRUE] \in Nat /\ since[z][c][FALSE] \in Nat
  BY <1>3, AgesAreNumbers
<1>5. ASSUME NEW S PROVE Late(z, c, S) \in Nat
  BY <1>4 DEF Late
<1> QED
  BY <1>1, <1>3, <1>5

LEMMA ZoneTypesOfCamera ==
  ASSUME ZoneTypeOK, NEW c \in Watched
  PROVE  /\ fetch[c] \in ZoneFetches /\ fetch[c].age \in Nat /\ fetch[c].age <= MaxDelay
         /\ fetch[c].data \in SUBSET Zones /\ used[c] \in SUBSET Zones
         /\ refreshAge[c] \in Nat /\ refreshAge[c] <= RefreshEvery
         /\ c \in ZoneCameras
<1>1. fetch[c] \in ZoneFetches /\ used[c] \in SUBSET Zones /\ refreshAge[c] \in 0..RefreshEvery
  BY DEF ZoneTypeOK, ZoneFetches
<1> QED
  BY <1>1, ZoneNumbers, ZoneSyncAssumption DEF ZoneFetches

LEMMA ZoneTypesOfCache ==
  ASSUME ZoneTypeOK, NEW w \in ApiWorkers, NEW c \in ZoneCameras
  PROVE  /\ zoneCache[w][c] \in ZoneEntries
         /\ zoneCache[w][c].age \in Nat /\ zoneCache[w][c].age <= CacheTtl
         /\ zoneCache[w][c].held \in SUBSET Zones
<1>1. zoneCache[w][c] \in ZoneEntries
  BY DEF ZoneTypeOK, ZoneEntries
<1> QED
  BY <1>1, ZoneNumbers DEF ZoneEntries

LEMMA NoFetchTyped == NoFetch \in ZoneFetches /\ NoFetch.step = "none" /\ NoFetch.age = 0
<1>1. (CHOOSE w \in ApiWorkers : TRUE) \in ApiWorkers
  BY ZoneSyncAssumption
<1>2. 0 \in 0..MaxDelay
  BY ZoneNumbers
<1> QED
  BY <1>1, <1>2 DEF NoFetch, ZoneFetches

LEMMA NoEditTyped == NoEdit \in ZoneEdits
<1>1. (CHOOSE z \in Zones : TRUE) \in Zones
  BY ZoneSyncAssumption
<1> QED
  BY <1>1 DEF NoEdit, ZoneEdits

LEMMA EmptyTyped == Empty \in ZoneEntries /\ Empty.age = CacheTtl
BY ZoneNumbers DEF Empty, ZoneEntries

LEMMA ZoneStart == ZoneInit => ZoneInv
<1> SUFFICES ASSUME ZoneInit PROVE ZoneInv
  OBVIOUS
<1>1. since \in [Zones -> [Watched -> [BOOLEAN -> 0..StaleBound + 1]]]
  <2>1. 0 \in 0..StaleBound + 1 /\ StaleBound + 1 \in 0..StaleBound + 1
    BY ZoneNumbers
  <2>2. [b \in BOOLEAN |-> IF b THEN StaleBound + 1 ELSE 0] \in [BOOLEAN -> 0..StaleBound + 1]
    BY <2>1
  <2> QED
    BY <2>2 DEF ZoneInit
<1>2. zoneCache \in [ApiWorkers -> [ZoneCameras -> ZoneEntries]]
  BY EmptyTyped DEF ZoneInit
<1>3. fetch \in [Watched -> ZoneFetches]
  BY NoFetchTyped DEF ZoneInit
<1>4. edit \in ZoneEdits
  BY NoEditTyped DEF ZoneInit
<1>5. refreshAge \in [Watched -> 0..RefreshEvery]
  BY ZoneNumbers DEF ZoneInit
<1>6. ZoneTypeOK
  BY <1>1, <1>2, <1>3, <1>4, <1>5
  DEF ZoneInit, ZoneTypeOK, ZoneEntries, ZoneFetches, ZoneEdits
<1>7. ASSUME NEW c \in Watched
      PROVE  /\ fetch[c].step = "none" /\ fetch[c].age = 0 /\ used[c] = {}
             /\ ArmedZones(c) = {} /\ refreshAge[c] = RefreshEvery
             /\ \A w \in ApiWorkers : zoneCache[w][c].age = CacheTtl
  BY NoFetchTyped, EmptyTyped, ZoneSyncAssumption DEF ZoneInit, ArmedZones
<1>8. ASSUME NEW z \in Zones, NEW c \in Watched PROVE Late(z, c, {}) = 0
  <2>1. FALSE \in BOOLEAN
    OBVIOUS
  <2> QED
    BY <2>1 DEF Late, ZoneInit
<1>9. \A c \in Watched : FetchTimed(c)
  BY <1>7 DEF FetchTimed
<1>10. ASSUME NEW z \in Zones, NEW c \in Watched
       PROVE  /\ Late(z, c, ArmedZones(c)) = 0
              /\ AnswerRecent(z, c) /\ CachesRecent(z, c) /\ UseRecent(z, c)
  <2>1. Late(z, c, ArmedZones(c)) = 0 /\ Late(z, c, used[c]) = 0
    BY <1>7, <1>8
  <2>2. AnswerRecent(z, c)
    BY <1>7 DEF AnswerRecent
  <2>3. CachesRecent(z, c)
    BY <1>7, ZoneNumbers DEF CachesRecent
  <2>4. UseRecent(z, c)
    BY <1>7, <2>1, ZoneNumbers DEF UseRecent
  <2> QED
    BY <2>1, <2>2, <2>3, <2>4
<1> QED
  BY <1>6, <1>9, <1>10 DEF ZoneInv

\* The zones change: what is right now has been so for no time, and nothing else gets older.
LEMMA TouchKeeps ==
  ASSUME ZoneInv, Touch, UNCHANGED <<zoneCache, fetch, used, refreshAge>>,
         zoneAt' \in [Zones -> ZoneCameras \cup {NoCamera}], armed' \subseteq Zones,
         edit' \in ZoneEdits
  PROVE  ZoneInv'
<1>1. ASSUME NEW z \in Zones, NEW c \in Watched
      PROVE  /\ since'[z][c] \in [BOOLEAN -> 0..StaleBound + 1]
             /\ since'[z][c][TRUE] <= since[z][c][TRUE]
             /\ since'[z][c][FALSE] <= since[z][c][FALSE]
             /\ Late(z, c, ArmedZones(c))' = 0
  <2>1. PICK right \in BOOLEAN : right <=> z \in ArmedZones(c)'
    OBVIOUS
  <2>2. right = (z \in ArmedZones(c)')
    BY <2>1
  <2>3. since'[z][c] = [since[z][c] EXCEPT ![right] = 0]
    BY <2>2 DEF Touch
  <2>4. /\ since[z][c] \in [BOOLEAN -> 0..StaleBound + 1]
        /\ since[z][c][TRUE] \in 0..StaleBound + 1
        /\ since[z][c][FALSE] \in 0..StaleBound + 1
    BY LateTyped DEF ZoneInv
  <2>5. 0 \in 0..StaleBound + 1
    BY ZoneNumbers
  <2>6. since'[z][c] \in [BOOLEAN -> 0..StaleBound + 1]
    BY <2>3, <2>4, <2>5
  <2>7. CASE right
    <3>1. since'[z][c] = [since[z][c] EXCEPT ![TRUE] = 0]
      BY <2>3, <2>7
    <3>2. since'[z][c][TRUE] = 0 /\ since'[z][c][FALSE] = since[z][c][FALSE]
      BY <2>4, <3>1
    <3>3. since'[z][c][TRUE] <= since[z][c][TRUE]
      BY <2>4, <3>2, AgesAreNumbers
    <3>4. since'[z][c][FALSE] <= since[z][c][FALSE]
      BY <2>4, <3>2, AgesAreNumbers
    <3>5. Late(z, c, ArmedZones(c))' = 0
      BY <2>1, <2>7, <3>2 DEF Late
    <3> QED
      BY <2>6, <3>3, <3>4, <3>5
  <2>8. CASE ~right
    <3>1. since'[z][c] = [since[z][c] EXCEPT ![FALSE] = 0]
      BY <2>3, <2>8
    <3>2. since'[z][c][FALSE] = 0 /\ since'[z][c][TRUE] = since[z][c][TRUE]
      BY <2>4, <3>1
    <3>3. since'[z][c][TRUE] <= since[z][c][TRUE]
      BY <2>4, <3>2, AgesAreNumbers
    <3>4. since'[z][c][FALSE] <= since[z][c][FALSE]
      BY <2>4, <3>2, AgesAreNumbers
    <3>5. Late(z, c, ArmedZones(c))' = 0
      BY <2>1, <2>8, <3>2 DEF Late
    <3> QED
      BY <2>6, <3>3, <3>4, <3>5
  <2> QED
    BY <2>7, <2>8
<1>2. since' \in [Zones -> [Watched -> [BOOLEAN -> 0..StaleBound + 1]]]
  <2>1. since' = [z \in Zones |-> [c \in Watched |-> since'[z][c]]]
    BY DEF Touch
  <2> QED
    BY <1>1, <2>1
<1>3. ZoneTypeOK'
  BY <1>2 DEF ZoneInv, ZoneTypeOK, ZoneEdits
<1>4. \A c \in Watched : FetchTimed(c)'
  BY DEF ZoneInv, FetchTimed
<1>5. ASSUME NEW z \in Zones, NEW c \in Watched
      PROVE  AnswerRecent(z, c)' /\ CachesRecent(z, c)' /\ UseRecent(z, c)'
  <2>1. AnswerRecent(z, c) /\ CachesRecent(z, c) /\ UseRecent(z, c)
    BY DEF ZoneInv
  <2>2. \A S : Late(z, c, S) \in Nat
    BY LateTyped DEF ZoneInv
  <2>4. ASSUME NEW S, NEW n \in Nat, Late(z, c, S) <= n PROVE Late(z, c, S)' <= n
    <3>1. TRUE \in BOOLEAN /\ FALSE \in BOOLEAN
      OBVIOUS
    <3>2. /\ since'[z][c][TRUE] \in 0..StaleBound + 1
          /\ since'[z][c][FALSE] \in 0..StaleBound + 1
      BY <1>1, <3>1
    <3>3. /\ since[z][c][TRUE] \in 0..StaleBound + 1
          /\ since[z][c][FALSE] \in 0..StaleBound + 1
      BY LateTyped DEF ZoneInv
    <3>4. CASE z \in S
      <4>1. since[z][c][TRUE] <= n
        BY <2>4, <3>4 DEF Late
      <4>2. since'[z][c][TRUE] <= since[z][c][TRUE]
        BY <1>1
      <4>3. since'[z][c][TRUE] <= n
        BY <3>2, <3>3, <4>1, <4>2, AgesGoOn
      <4> QED
        BY <3>4, <4>3 DEF Late
    <3>5. CASE z \notin S
      <4>1. since[z][c][FALSE] <= n
        BY <2>4, <3>5 DEF Late
      <4>2. since'[z][c][FALSE] <= since[z][c][FALSE]
        BY <1>1
      <4>3. since'[z][c][FALSE] <= n
        BY <3>2, <3>3, <4>1, <4>2, AgesGoOn
      <4> QED
        BY <3>5, <4>3 DEF Late
    <3> QED
      BY <3>4, <3>5
  <2>5. /\ AtOnce \in Nat /\ MaxDelay \in Nat /\ Interval \in Nat
        /\ fetch[c].age \in Nat /\ refreshAge[c] \in Nat
    BY ZoneNumbers, ZoneTypesOfCamera DEF ZoneInv
  <2>6. AtOnce + fetch[c].age \in Nat /\ AtOnce + Interval + fetch[c].age \in Nat
        /\ AtOnce + refreshAge[c] \in Nat /\ AtOnce + MaxDelay \in Nat
    BY <2>5
  <2>7. PICK data, inUse : data = fetch[c].data /\ inUse = used[c]
    OBVIOUS
  <2>8. AnswerRecent(z, c)'
    BY <2>1, <2>4, <2>5, <2>6, <2>7 DEF AnswerRecent, Late
  <2>9. UseRecent(z, c)'
    BY <2>1, <2>4, <2>5, <2>6, <2>7 DEF UseRecent, Late
  <2>10. CachesRecent(z, c)'
    <3>1. SUFFICES ASSUME NEW w \in ApiWorkers, zoneCache[w][c].age < CacheTtl
                   PROVE  Late(z, c, zoneCache[w][c].held)' <= zoneCache[w][c].age + MaxDelay
      BY DEF CachesRecent
    <3>2. zoneCache[w][c].age + MaxDelay \in Nat
      BY ZoneTypesOfCache, ZoneNumbers, ZoneSyncAssumption DEF ZoneInv
    <3>3. PICK held : held = zoneCache[w][c].held
      OBVIOUS
    <3>4. Late(z, c, held) <= zoneCache[w][c].age + MaxDelay
      BY <2>1, <3>1, <3>3 DEF CachesRecent
    <3>5. Late(z, c, held)' <= zoneCache[w][c].age + MaxDelay
      BY <2>4, <3>2, <3>4
    <3> QED
      BY <3>3, <3>5 DEF Late
  <2> QED
    BY <2>8, <2>9, <2>10
<1> QED
  BY <1>1, <1>3, <1>4, <1>5 DEF ZoneInv

LEMMA EndEditKeeps == ASSUME ZoneInv, EndEdit PROVE ZoneInv'
<1>1. Touch /\ edit' = NoEdit /\ UNCHANGED <<armed, zoneCache, fetch, used, refreshAge>>
  BY DEF EndEdit
<1>2. zoneAt' \in [Zones -> ZoneCameras \cup {NoCamera}] /\ armed' \subseteq Zones
  BY DEF EndEdit, ZoneInv, ZoneTypeOK
<1> QED
  BY <1>1, <1>2, NoEditTyped, TouchKeeps

LEMMA ScheduleTurnsKeeps ==
  ASSUME ZoneInv, NEW z \in Zones, ScheduleTurns(z)
  PROVE  ZoneInv'
<1>1. Touch /\ UNCHANGED <<zoneAt, edit, zoneCache, fetch, used, refreshAge>>
  BY DEF ScheduleTurns
<1>2. zoneAt' \in [Zones -> ZoneCameras \cup {NoCamera}] /\ armed' \subseteq Zones
      /\ edit' \in ZoneEdits
  BY DEF ScheduleTurns, ZoneInv, ZoneTypeOK, ZoneEdits
<1> QED
  BY <1>1, <1>2, TouchKeeps

LEMMA EditZoneKeeps ==
  ASSUME ZoneInv, NEW w \in ApiWorkers, NEW z \in Zones,
         NEW to \in ZoneCameras \cup {NoCamera}, EditZone(w, z, to)
  PROVE  ZoneInv'
<1>1. PICK key \in ZoneCameras : zoneCache' = [zoneCache EXCEPT ![w][key] = Empty]
  <2>1. PICK key : key = IF to = NoCamera THEN zoneAt[z] ELSE to
    OBVIOUS
  <2>2. key \in ZoneCameras
    BY <2>1 DEF EditZone, ZoneInv, ZoneTypeOK
  <2> QED
    BY <2>1, <2>2 DEF EditZone
<1>2. edit' = [open |-> TRUE, zone |-> z, to |-> to]
      /\ UNCHANGED <<zoneAt, armed, fetch, used, refreshAge, since>>
  BY DEF EditZone
<1>3. edit' \in ZoneEdits
  BY <1>2 DEF ZoneEdits
<1>4. zoneCache \in [ApiWorkers -> [ZoneCameras -> ZoneEntries]]
  BY DEF ZoneInv, ZoneTypeOK, ZoneEntries
<1>5. zoneCache' \in [ApiWorkers -> [ZoneCameras -> ZoneEntries]]
  BY <1>1, <1>4, EmptyTyped
<1>6. \A v \in ApiWorkers, c \in ZoneCameras : zoneCache'[v][c] \in {zoneCache[v][c], Empty}
  BY <1>1, <1>4
<1>7. ZoneTypeOK'
  BY <1>2, <1>3, <1>5 DEF ZoneInv, ZoneTypeOK, ZoneEntries, ZoneEdits
<1>8. ASSUME NEW y \in Zones, NEW c \in Watched PROVE CachesRecent(y, c)'
  <2>1. CachesRecent(y, c) /\ c \in ZoneCameras
    BY ZoneTypesOfCamera DEF ZoneInv
  <2> SUFFICES ASSUME NEW v \in ApiWorkers, zoneCache'[v][c].age < CacheTtl
               PROVE  Late(y, c, zoneCache[v][c].held)' <= zoneCache'[v][c].age + MaxDelay
    BY DEF CachesRecent
  <2>2. zoneCache'[v][c] = zoneCache[v][c]
    BY <1>6, <2>1, EmptyTyped, ZoneNumbers
  <2> QED
    BY <1>2, <2>1, <2>2 DEF CachesRecent, Late
<1>9. \A c \in Watched : FetchTimed(c)'
  BY <1>2 DEF ZoneInv, FetchTimed
<1>10. ASSUME NEW y \in Zones, NEW c \in Watched
       PROVE  /\ Late(y, c, ArmedZones(c))' = 0
              /\ AnswerRecent(y, c)' /\ UseRecent(y, c)'
  <2>1. Late(y, c, ArmedZones(c)) = 0 /\ AnswerRecent(y, c) /\ UseRecent(y, c)
    BY DEF ZoneInv
  <2>2. Late(y, c, ArmedZones(c))' = 0
    BY <1>2, <2>1 DEF Late, ArmedZones
  <2>3. AnswerRecent(y, c)'
    BY <1>2, <2>1 DEF Late, AnswerRecent
  <2>4. UseRecent(y, c)'
    BY <1>2, <2>1 DEF Late, UseRecent
  <2> QED
    BY <2>2, <2>3, <2>4
<1> QED
  BY <1>7, <1>8, <1>9, <1>10 DEF ZoneInv

\* One camera's task goes on; what it does to its own must be shown.
LEMMA OneFetchKeeps ==
  ASSUME ZoneInv, ZoneTypeOK', NEW c \in Watched,
         UNCHANGED <<zoneAt, armed, edit, since>>,
         \A d \in Watched \ {c} :
           fetch'[d] = fetch[d] /\ used'[d] = used[d] /\ refreshAge'[d] = refreshAge[d],
         FetchTimed(c)',
         \A z \in Zones : AnswerRecent(z, c)' /\ UseRecent(z, c)',
         \A z \in Zones, d \in Watched : CachesRecent(z, d)'
  PROVE  ZoneInv'
<1>1. \A d \in Watched : FetchTimed(d)'
  BY DEF ZoneInv, FetchTimed
<1>2. ASSUME NEW z \in Zones, NEW d \in Watched
      PROVE  AnswerRecent(z, d)' /\ UseRecent(z, d)'
  BY DEF ZoneInv, AnswerRecent, UseRecent, Late
<1>3. ASSUME NEW z \in Zones, NEW d \in Watched
      PROVE  Late(z, d, ArmedZones(d))' = 0
  BY DEF ZoneInv, Late, ArmedZones
<1> QED
  BY <1>1, <1>2, <1>3 DEF ZoneInv

LEMMA AskZonesKeeps ==
  ASSUME ZoneInv, NEW c \in Watched, NEW w \in ApiWorkers, AskZones(c, w)
  PROVE  ZoneInv'
<1>1. PICK f : f = [NoFetch EXCEPT !.step = "asked", !.worker = w]
  OBVIOUS
<1>2. f \in ZoneFetches /\ f.step = "asked" /\ f.age = 0
  BY <1>1, NoFetchTyped DEF ZoneFetches
<1>3. /\ fetch[c].step = "none" /\ refreshAge[c] = RefreshEvery
      /\ fetch' = [fetch EXCEPT ![c] = f] /\ refreshAge' = [refreshAge EXCEPT ![c] = 0]
      /\ UNCHANGED <<zoneAt, armed, edit, zoneCache, used, since>>
  BY <1>1 DEF AskZones
<1>4. ZoneTypeOK'
  BY <1>2, <1>3, ZoneNumbers DEF ZoneInv, ZoneTypeOK, ZoneFetches
<1>5. fetch'[c] = f /\ refreshAge'[c] = 0
  BY <1>3 DEF ZoneInv, ZoneTypeOK
<1>6. \A d \in Watched \ {c} : fetch'[d] = fetch[d] /\ refreshAge'[d] = refreshAge[d]
  BY <1>3 DEF ZoneInv, ZoneTypeOK
<1>7. FetchTimed(c)'
  BY <1>2, <1>5, ZoneNumbers DEF FetchTimed
<1>8. ASSUME NEW z \in Zones PROVE AnswerRecent(z, c)' /\ UseRecent(z, c)'
  <2>1. AnswerRecent(z, c)'
    BY <1>2, <1>5 DEF AnswerRecent
  <2>2. Late(z, c, used[c]) \in Nat
    BY LateTyped DEF ZoneInv
  <2>3. UseRecent(z, c)
    BY DEF ZoneInv
  <2>4. Late(z, c, used[c]) <= AtOnce + Interval + 0
    BY <1>3, <2>2, <2>3, ZoneNumbers DEF UseRecent
  <2>5. Late(z, c, used[c])' = Late(z, c, used[c])
    BY <1>3 DEF Late
  <2>6. UseRecent(z, c)'
    BY <1>2, <1>5, <2>4, <2>5 DEF UseRecent
  <2> QED
    BY <2>1, <2>6
<1>9. \A z \in Zones, d \in Watched : CachesRecent(z, d)'
  BY <1>3 DEF ZoneInv, CachesRecent, Late
<1> QED
  BY <1>3, <1>4, <1>6, <1>7, <1>8, <1>9, OneFetchKeeps

\* A step of the request changes what it is, and keeps its age.
LEMMA RequestGoesOn ==
  ASSUME ZoneInv, NEW c \in Watched, NEW f \in ZoneFetches,
         fetch' = [fetch EXCEPT ![c] = f], f.age = fetch[c].age,
         fetch[c].step # "none", f.step # "none",
         UNCHANGED <<zoneAt, armed, edit, used, refreshAge, since>>,
         zoneCache' \in [ApiWorkers -> [ZoneCameras -> ZoneEntries]],
         \A z \in Zones : /\ f.step = "read" => Late(z, c, f.data) <= f.age
                          /\ f.step = "replied" => Late(z, c, f.data) <= AtOnce + f.age,
         \A z \in Zones, d \in Watched : CachesRecent(z, d)'
  PROVE  ZoneInv'
<1>1. ZoneTypeOK'
  BY DEF ZoneInv, ZoneTypeOK, ZoneFetches, ZoneEntries
<1>2. fetch'[c] = f /\ \A d \in Watched \ {c} : fetch'[d] = fetch[d]
  BY DEF ZoneInv, ZoneTypeOK
<1>3. FetchTimed(c)'
  BY <1>2 DEF ZoneInv, FetchTimed
<1>4. ASSUME NEW z \in Zones PROVE AnswerRecent(z, c)' /\ UseRecent(z, c)'
  <2>1. AnswerRecent(z, c)'
    BY <1>2 DEF AnswerRecent, Late
  <2>2. UseRecent(z, c)
    BY DEF ZoneInv
  <2>3. UseRecent(z, c)'
    BY <1>2, <2>2 DEF UseRecent, Late
  <2> QED
    BY <2>1, <2>3
<1> QED
  BY <1>1, <1>2, <1>3, <1>4, OneFetchKeeps

LEMMA ServeCachedKeeps ==
  ASSUME ZoneInv, NEW c \in Watched, ServeCached(c)
  PROVE  ZoneInv'
<1>1. fetch[c] \in ZoneFetches /\ fetch[c].age \in Nat /\ c \in ZoneCameras
  BY ZoneTypesOfCamera DEF ZoneInv
<1>2. PICK w \in ApiWorkers : w = fetch[c].worker
  BY <1>1 DEF ZoneFetches
<1>3. PICK entry \in ZoneEntries : entry = zoneCache[w][c]
  BY <1>1, ZoneTypesOfCache DEF ZoneInv
<1>4. PICK f : f = [fetch[c] EXCEPT !.step = "replied", !.data = entry.held]
  OBVIOUS
<1>5. f \in ZoneFetches /\ f.step = "replied" /\ f.age = fetch[c].age /\ f.data = entry.held
  BY <1>1, <1>3, <1>4 DEF ZoneFetches, ZoneEntries
<1>6. /\ fetch[c].step = "asked" /\ entry.age < CacheTtl
      /\ fetch' = [fetch EXCEPT ![c] = f]
      /\ UNCHANGED <<zoneAt, armed, edit, zoneCache, used, refreshAge, since>>
  BY <1>2, <1>3, <1>4 DEF ServeCached, Fresh, CacheEntry, ZoneInv, ZoneTypeOK
<1>7. ASSUME NEW z \in Zones PROVE Late(z, c, f.data) <= AtOnce + f.age
  <2>1. Late(z, c, entry.held) <= entry.age + MaxDelay
    BY <1>3, <1>6 DEF ZoneInv, CachesRecent
  <2>2. Late(z, c, entry.held) \in Nat /\ entry.age \in Nat
    <3>1. ZoneTypeOK
      BY DEF ZoneInv
    <3>2. Late(z, c, entry.held) \in Nat
      BY <3>1, LateTyped
    <3>3. entry.age \in Nat
      BY ZoneNumbers DEF ZoneEntries
    <3> QED
      BY <3>2, <3>3
  <2>3. Late(z, c, entry.held) <= AtOnce + fetch[c].age
    BY <1>1, <1>6, <2>1, <2>2, ZoneNumbers DEF AtOnce
  <2> QED
    BY <1>5, <2>3
<1>8. \A z \in Zones, d \in Watched : CachesRecent(z, d)'
  BY <1>6 DEF ZoneInv, CachesRecent, Late
<1>9. zoneCache' \in [ApiWorkers -> [ZoneCameras -> ZoneEntries]]
  BY <1>6 DEF ZoneInv, ZoneTypeOK, ZoneEntries
<1> QED
  BY <1>5, <1>6, <1>7, <1>8, <1>9, RequestGoesOn

LEMMA ReadZonesKeeps ==
  ASSUME ZoneInv, NEW c \in Watched, ReadZones(c)
  PROVE  ZoneInv'
<1>1. fetch[c] \in ZoneFetches /\ fetch[c].age \in Nat
  BY ZoneTypesOfCamera DEF ZoneInv
<1>2. PICK data : data = ArmedZones(c)
  OBVIOUS
<1>3. data \in SUBSET Zones
  BY <1>2 DEF ArmedZones, ZoneInv, ZoneTypeOK
<1>4. PICK f : f = [fetch[c] EXCEPT !.step = "read", !.data = data]
  OBVIOUS
<1>5. f \in ZoneFetches /\ f.step = "read" /\ f.age = fetch[c].age /\ f.data = data
  BY <1>1, <1>3, <1>4 DEF ZoneFetches
<1>6. /\ fetch[c].step = "asked" /\ fetch' = [fetch EXCEPT ![c] = f]
      /\ UNCHANGED <<zoneAt, armed, edit, zoneCache, used, refreshAge, since>>
  BY <1>2, <1>4 DEF ReadZones, ZoneInv, ZoneTypeOK
<1>7. ASSUME NEW z \in Zones PROVE Late(z, c, f.data) <= f.age
  <2>1. Late(z, c, ArmedZones(c)) = 0
    BY DEF ZoneInv
  <2>2. Late(z, c, f.data) = 0
    BY <1>2, <1>5, <2>1
  <2> QED
    BY <1>1, <1>5, <2>2
<1>8. \A z \in Zones, d \in Watched : CachesRecent(z, d)'
  BY <1>6 DEF ZoneInv, CachesRecent, Late
<1>9. zoneCache' \in [ApiWorkers -> [ZoneCameras -> ZoneEntries]]
  BY <1>6 DEF ZoneInv, ZoneTypeOK, ZoneEntries
<1> QED
  BY <1>5, <1>6, <1>7, <1>8, <1>9, RequestGoesOn

LEMMA StoreZonesKeeps ==
  ASSUME ZoneInv, NEW c \in Watched, StoreZones(c)
  PROVE  ZoneInv'
<1>1. /\ fetch[c] \in ZoneFetches /\ fetch[c].age \in Nat /\ c \in ZoneCameras
      /\ fetch[c].age <= MaxDelay
  BY ZoneTypesOfCamera DEF ZoneInv
<1>2. PICK w \in ApiWorkers : w = fetch[c].worker
  BY <1>1 DEF ZoneFetches
<1>3. PICK f : f = [fetch[c] EXCEPT !.step = "replied"]
  OBVIOUS
<1>4. f \in ZoneFetches /\ f.step = "replied" /\ f.age = fetch[c].age /\ f.data = fetch[c].data
  BY <1>1, <1>3 DEF ZoneFetches
<1>5. PICK entry : entry = [age |-> 0, held |-> fetch[c].data]
  OBVIOUS
<1>6. entry \in ZoneEntries /\ entry.age = 0 /\ entry.held = fetch[c].data
  BY <1>1, <1>5, ZoneNumbers DEF ZoneEntries, ZoneFetches
<1>7. /\ fetch[c].step = "read" /\ fetch' = [fetch EXCEPT ![c] = f]
      /\ zoneCache' = [zoneCache EXCEPT ![w][c] = entry]
      /\ UNCHANGED <<zoneAt, armed, edit, used, refreshAge, since>>
  BY <1>2, <1>3, <1>5 DEF StoreZones, ZoneInv, ZoneTypeOK
<1>8. zoneCache \in [ApiWorkers -> [ZoneCameras -> ZoneEntries]]
  BY DEF ZoneInv, ZoneTypeOK, ZoneEntries
<1>9. zoneCache' \in [ApiWorkers -> [ZoneCameras -> ZoneEntries]]
  BY <1>6, <1>7, <1>8
<1>10. /\ zoneCache'[w][c] = entry
       /\ \A v \in ApiWorkers, d \in ZoneCameras :
            v # w \/ d # c => zoneCache'[v][d] = zoneCache[v][d]
  BY <1>1, <1>7, <1>8
<1>11. ASSUME NEW z \in Zones
       PROVE  /\ Late(z, c, fetch[c].data) <= fetch[c].age
              /\ Late(z, c, fetch[c].data) \in Nat
  BY <1>7, LateTyped DEF ZoneInv, AnswerRecent
<1>12. ASSUME NEW z \in Zones PROVE Late(z, c, f.data) <= AtOnce + f.age
  <2>1. Late(z, c, f.data) <= fetch[c].age /\ Late(z, c, f.data) \in Nat
    BY <1>4, <1>11
  <2> QED
    BY <1>1, <1>4, <2>1, ZoneNumbers
<1>13. ASSUME NEW z \in Zones, NEW d \in Watched PROVE CachesRecent(z, d)'
  <2> SUFFICES ASSUME NEW v \in ApiWorkers, zoneCache'[v][d].age < CacheTtl
               PROVE  Late(z, d, zoneCache[v][d].held)' <= zoneCache'[v][d].age + MaxDelay
    BY DEF CachesRecent
  <2>1. CASE v = w /\ d = c
    <3>1. Late(z, c, fetch[c].data) <= 0 + MaxDelay
      BY <1>1, <1>11, ZoneNumbers
    <3> QED
      BY <1>6, <1>7, <1>10, <2>1, <3>1 DEF Late
  <2>2. CASE v # w \/ d # c
    <3>1. zoneCache'[v][d] = zoneCache[v][d]
      BY <1>10, <2>2, ZoneTypesOfCamera DEF ZoneInv
    <3>2. CachesRecent(z, d)
      BY DEF ZoneInv
    <3> QED
      BY <1>7, <3>1, <3>2 DEF CachesRecent, Late
  <2> QED
    BY <2>1, <2>2
<1> QED
  BY <1>4, <1>7, <1>9, <1>12, <1>13, RequestGoesOn

LEMMA UseZonesKeeps ==
  ASSUME ZoneInv, NEW c \in Watched, UseZones(c)
  PROVE  ZoneInv'
<1>1. /\ fetch[c].step = "replied" /\ used' = [used EXCEPT ![c] = fetch[c].data]
      /\ fetch' = [fetch EXCEPT ![c] = NoFetch]
      /\ UNCHANGED <<zoneAt, armed, edit, zoneCache, refreshAge, since>>
  BY DEF UseZones
<1>2. /\ fetch[c].age \in Nat /\ fetch[c].age <= MaxDelay
      /\ fetch[c].data \in SUBSET Zones
  BY ZoneTypesOfCamera DEF ZoneInv
<1>3. ZoneTypeOK'
  BY <1>1, <1>2, NoFetchTyped DEF ZoneInv, ZoneTypeOK, ZoneFetches
<1>4. fetch'[c] = NoFetch /\ used'[c] = fetch[c].data
  BY <1>1 DEF ZoneInv, ZoneTypeOK
<1>5. \A d \in Watched \ {c} : fetch'[d] = fetch[d] /\ used'[d] = used[d]
  BY <1>1 DEF ZoneInv, ZoneTypeOK
<1>6. FetchTimed(c)'
  BY <1>4, NoFetchTyped DEF FetchTimed
<1>7. ASSUME NEW z \in Zones PROVE AnswerRecent(z, c)' /\ UseRecent(z, c)'
  <2>1. AnswerRecent(z, c)'
    BY <1>4, NoFetchTyped DEF AnswerRecent
  <2>2. /\ Late(z, c, fetch[c].data) <= AtOnce + fetch[c].age
        /\ Late(z, c, fetch[c].data) \in Nat
    BY <1>1, LateTyped DEF ZoneInv, AnswerRecent
  <2>3. refreshAge[c] = IF fetch[c].age < RefreshEvery THEN fetch[c].age ELSE RefreshEvery
    BY <1>1 DEF ZoneInv, FetchTimed
  <2>4. \/ Late(z, c, fetch[c].data) <= AtOnce + refreshAge[c]
        \/ refreshAge[c] = RefreshEvery
           /\ Late(z, c, fetch[c].data) <= AtOnce + MaxDelay
    BY <1>2, <2>2, <2>3, ZoneNumbers
  <2>5. Late(z, c, used[c])' = Late(z, c, fetch[c].data)
    BY <1>1, <1>4 DEF Late
  <2>6. UseRecent(z, c)'
    BY <1>1, <1>4, <2>4, <2>5, NoFetchTyped DEF UseRecent
  <2> QED
    BY <2>1, <2>6
<1>8. \A z \in Zones, d \in Watched : CachesRecent(z, d)'
  BY <1>1 DEF ZoneInv, CachesRecent, Late
<1> QED
  BY <1>1, <1>3, <1>5, <1>6, <1>7, <1>8, OneFetchKeeps

LEMMA UpGoesOn ==
  \A limit \in Nat : \A n \in 0..limit :
    /\ Up(n, limit) \in 0..limit /\ Up(n, limit) <= n + 1
    /\ n < limit => Up(n, limit) = n + 1
    /\ n = limit => Up(n, limit) = limit
BY DEF Up

\* A tick makes what was right at most one tick older, and what is right no older.
LEMMA LateGoesOn ==
  ASSUME ZoneInv, ZoneTick
  PROVE  /\ since' \in [Zones -> [Watched -> [BOOLEAN -> 0..StaleBound + 1]]]
         /\ \A z \in Zones, c \in Watched :
              /\ since'[z][c][TRUE] <= since[z][c][TRUE] + 1
              /\ since'[z][c][FALSE] <= since[z][c][FALSE] + 1
              /\ since'[z][c][TRUE] \in Nat /\ since'[z][c][FALSE] \in Nat
              /\ Late(z, c, ArmedZones(c))' = 0
<1>1. StaleBound + 1 \in Nat /\ 0 \in 0..StaleBound + 1
  BY ZoneNumbers
<1>2. TRUE \in BOOLEAN /\ FALSE \in BOOLEAN
  OBVIOUS
<1>3. ASSUME NEW z \in Zones, NEW c \in Watched
      PROVE  /\ since'[z][c] \in [BOOLEAN -> 0..StaleBound + 1]
             /\ since'[z][c][TRUE] <= since[z][c][TRUE] + 1
             /\ since'[z][c][FALSE] <= since[z][c][FALSE] + 1
             /\ since'[z][c][TRUE] \in Nat /\ since'[z][c][FALSE] \in Nat
             /\ Late(z, c, ArmedZones(c))' = 0
  <2>1. PICK right \in BOOLEAN : right <=> z \in ArmedZones(c)
    OBVIOUS
  <2>2. right = (z \in ArmedZones(c))
    BY <2>1
  <2>3. since'[z][c] = [b \in BOOLEAN |->
                          IF b = right THEN 0 ELSE Up(since[z][c][b], StaleBound + 1)]
    BY <2>2 DEF ZoneTick
  <2>4. /\ since[z][c] \in [BOOLEAN -> 0..StaleBound + 1]
        /\ since[z][c][TRUE] \in 0..StaleBound + 1
        /\ since[z][c][FALSE] \in 0..StaleBound + 1
    BY LateTyped DEF ZoneInv
  <2>5. \A n \in 0..StaleBound + 1 :
          Up(n, StaleBound + 1) \in 0..StaleBound + 1 /\ Up(n, StaleBound + 1) <= n + 1
    BY <1>1, UpGoesOn
  <2>6. \A n \in 0..StaleBound + 1 : 0 <= n + 1 /\ n \in Nat
    BY <1>1
  <2>7. since'[z][c] \in [BOOLEAN -> 0..StaleBound + 1]
    <3>1. ASSUME NEW b \in BOOLEAN
          PROVE  (IF b = right THEN 0 ELSE Up(since[z][c][b], StaleBound + 1))
                   \in 0..StaleBound + 1
      <4>1. since[z][c][b] \in 0..StaleBound + 1
        BY <2>4
      <4>2. Up(since[z][c][b], StaleBound + 1) \in 0..StaleBound + 1
        BY <2>5, <4>1
      <4> QED
        BY <1>1, <4>2
    <3> QED
      BY <2>3, <3>1
  <2>8. since'[z][c][TRUE] \in 0..StaleBound + 1 /\ since'[z][c][FALSE] \in 0..StaleBound + 1
    BY <1>2, <2>7
  <2>9. ArmedZones(c)' = ArmedZones(c)
    BY DEF ZoneTick, ArmedZones
  <2>10. CASE right
    <3>1. since'[z][c][TRUE] = 0
      BY <1>2, <2>3, <2>10
    <3>2. since'[z][c][FALSE] = Up(since[z][c][FALSE], StaleBound + 1)
      BY <1>2, <2>3, <2>10
    <3>3. Late(z, c, ArmedZones(c))' = 0
      BY <2>1, <2>9, <2>10, <3>1 DEF Late
    <3>4. since'[z][c][TRUE] <= since[z][c][TRUE] + 1
      BY <2>4, <2>6, <3>1
    <3>5. since'[z][c][FALSE] <= since[z][c][FALSE] + 1
      BY <2>4, <2>5, <3>2
    <3> QED
      BY <2>6, <2>7, <2>8, <3>3, <3>4, <3>5
  <2>11. CASE ~right
    <3>1. since'[z][c][FALSE] = 0
      BY <1>2, <2>3, <2>11
    <3>2. since'[z][c][TRUE] = Up(since[z][c][TRUE], StaleBound + 1)
      BY <1>2, <2>3, <2>11
    <3>3. Late(z, c, ArmedZones(c))' = 0
      BY <2>1, <2>9, <2>11, <3>1 DEF Late
    <3>4. since'[z][c][FALSE] <= since[z][c][FALSE] + 1
      BY <2>4, <2>6, <3>1
    <3>5. since'[z][c][TRUE] <= since[z][c][TRUE] + 1
      BY <2>4, <2>5, <3>2
    <3> QED
      BY <2>6, <2>7, <2>8, <3>3, <3>4, <3>5
  <2> QED
    BY <2>10, <2>11
<1>4. since' = [z \in Zones |-> [c \in Watched |-> since'[z][c]]]
  BY DEF ZoneTick
<1> QED
  BY <1>3, <1>4

LEMMA ZoneTickKeeps == ASSUME ZoneInv, ZoneTick PROVE ZoneInv'
<1> DEFINE Aged(entry) == LET age == Up(entry.age, CacheTtl)
                          IN  IF age = CacheTtl THEN Empty ELSE [entry EXCEPT !.age = age]
           Waited(f) == IF f.step = "none" THEN f ELSE [f EXCEPT !.age = f.age + 1]
<1>0. ZoneTypeOK /\ UNCHANGED <<zoneAt, armed, edit, used>>
  BY DEF ZoneInv, ZoneTick
<1>1. ASSUME NEW entry \in ZoneEntries
      PROVE  /\ Aged(entry) \in ZoneEntries
             /\ Aged(entry).age < CacheTtl =>
                  /\ Aged(entry).age = entry.age + 1 /\ entry.age < CacheTtl
                  /\ Aged(entry).held = entry.held
  <2>1. entry.age \in 0..CacheTtl /\ CacheTtl \in Nat
    BY ZoneNumbers DEF ZoneEntries
  <2>2. PICK age \in 0..CacheTtl :
          /\ age = Up(entry.age, CacheTtl)
          /\ entry.age < CacheTtl => age = entry.age + 1
          /\ entry.age = CacheTtl => age = CacheTtl
    BY <2>1, UpGoesOn
  <2>3. Aged(entry) = IF age = CacheTtl THEN Empty ELSE [entry EXCEPT !.age = age]
    BY <2>2
  <2>4. CASE age = CacheTtl
    <3>1. Aged(entry) = Empty
      BY <2>3, <2>4
    <3>2. Aged(entry) \in ZoneEntries /\ Aged(entry).age = CacheTtl
      BY <3>1, EmptyTyped
    <3>3. ~(Aged(entry).age < CacheTtl)
      BY <2>1, <3>2
    <3> QED
      BY <3>2, <3>3
  <2>5. CASE age # CacheTtl
    <3>1. Aged(entry) = [entry EXCEPT !.age = age]
      BY <2>3, <2>5
    <3>2. /\ Aged(entry) \in ZoneEntries /\ Aged(entry).age = age
          /\ Aged(entry).held = entry.held
      BY <3>1 DEF ZoneEntries
    <3>3. entry.age < CacheTtl
      BY <2>1, <2>2, <2>5
    <3> QED
      BY <2>2, <3>2, <3>3
  <2> QED
    BY <2>4, <2>5
<1>2. ASSUME NEW f \in ZoneFetches, f.step = "none" \/ f.age < MaxDelay
      PROVE  /\ Waited(f) \in ZoneFetches
             /\ Waited(f).step = f.step /\ Waited(f).data = f.data
             /\ f.step = "none" => Waited(f) = f
             /\ f.step # "none" => Waited(f).age = f.age + 1
  <2>1. f.age \in 0..MaxDelay
    BY DEF ZoneFetches
  <2>2. CASE f.step = "none"
    BY <2>2
  <2>3. CASE f.step # "none"
    <3>1. f.age + 1 \in 0..MaxDelay
      BY <1>2, <2>1, <2>3, ZoneNumbers
    <3>2. Waited(f) = [f EXCEPT !.age = f.age + 1]
      BY <2>3
    <3> QED
      BY <2>3, <3>1, <3>2 DEF ZoneFetches
  <2> QED
    BY <2>2, <2>3
<1>3. \A w \in ApiWorkers, c \in ZoneCameras : zoneCache'[w][c] = Aged(zoneCache[w][c])
  BY DEF ZoneTick
<1>4. \A c \in Watched : fetch'[c] = Waited(fetch[c])
  BY DEF ZoneTick
<1>5. \A c \in Watched : refreshAge'[c] = Up(refreshAge[c], RefreshEvery)
  BY DEF ZoneTick
<1> HIDE DEF Aged, Waited
<1>6. zoneCache' \in [ApiWorkers -> [ZoneCameras -> ZoneEntries]]
  <2>1. zoneCache' = [w \in ApiWorkers |-> [c \in ZoneCameras |-> zoneCache'[w][c]]]
    BY DEF ZoneTick
  <2>2. \A w \in ApiWorkers, c \in ZoneCameras : zoneCache'[w][c] \in ZoneEntries
    BY <1>0, <1>1, <1>3, ZoneTypesOfCache
  <2> QED
    BY <2>1, <2>2
<1>7. ASSUME NEW c \in Watched
      PROVE  /\ fetch'[c] \in ZoneFetches
             /\ fetch'[c].step = fetch[c].step /\ fetch'[c].data = fetch[c].data
             /\ fetch[c].step = "none" => fetch'[c] = fetch[c] /\ refreshAge[c] < RefreshEvery
             /\ fetch[c].step # "none" => fetch'[c].age = fetch[c].age + 1
  <2>1. fetch[c] \in ZoneFetches
    BY <1>0, ZoneTypesOfCamera
  <2>2. IF fetch[c].step = "none" THEN refreshAge[c] < RefreshEvery ELSE fetch[c].age < MaxDelay
    BY DEF ZoneTick, OnTime
  <2> QED
    BY <1>2, <1>4, <2>1, <2>2
<1>8. fetch' \in [Watched -> ZoneFetches]
  <2>1. fetch' = [c \in Watched |-> fetch'[c]]
    BY DEF ZoneTick
  <2> QED
    BY <1>7, <2>1
<1>9. ASSUME NEW c \in Watched
      PROVE  /\ refreshAge'[c] \in 0..RefreshEvery
             /\ refreshAge[c] < RefreshEvery => refreshAge'[c] = refreshAge[c] + 1
             /\ refreshAge[c] = RefreshEvery => refreshAge'[c] = RefreshEvery
  <2>1. refreshAge[c] \in 0..RefreshEvery /\ RefreshEvery \in Nat
    BY <1>0, ZoneNumbers DEF ZoneTypeOK
  <2> QED
    BY <1>5, <2>1, UpGoesOn
<1>10. refreshAge' \in [Watched -> 0..RefreshEvery]
  <2>1. refreshAge' = [c \in Watched |-> refreshAge'[c]]
    BY DEF ZoneTick
  <2> QED
    BY <1>9, <2>1
<1>11. since' \in [Zones -> [Watched -> [BOOLEAN -> 0..StaleBound + 1]]]
  BY LateGoesOn
<1>12. ZoneTypeOK'
  BY <1>0, <1>6, <1>8, <1>10, <1>11 DEF ZoneTypeOK, ZoneEntries, ZoneFetches
<1>13. ASSUME NEW c \in Watched PROVE FetchTimed(c)'
  <2>1. FetchTimed(c)
    BY DEF ZoneInv
  <2>2. /\ fetch[c].age \in Nat /\ refreshAge[c] \in Nat /\ RefreshEvery \in Nat
        /\ refreshAge[c] <= RefreshEvery
    BY <1>0, ZoneNumbers, ZoneTypesOfCamera
  <2>3. CASE fetch[c].step = "none"
    <3>1. fetch'[c] = fetch[c] /\ fetch'[c].age = 0 /\ fetch'[c].step = "none"
      BY <1>7, <2>1, <2>3 DEF FetchTimed
    <3> QED
      BY <3>1 DEF FetchTimed
  <2>4. CASE fetch[c].step # "none"
    <3>1. fetch'[c].age = fetch[c].age + 1 /\ fetch'[c].step # "none"
      BY <1>7, <2>4
    <3>2. refreshAge[c] = IF fetch[c].age < RefreshEvery THEN fetch[c].age ELSE RefreshEvery
      BY <2>1, <2>4 DEF FetchTimed
    <3>3. refreshAge'[c] = IF fetch'[c].age < RefreshEvery THEN fetch'[c].age ELSE RefreshEvery
      BY <1>9, <2>2, <3>1, <3>2
    <3> QED
      BY <3>1, <3>3 DEF FetchTimed
  <2> QED
    BY <2>3, <2>4
<1>14. ASSUME NEW z \in Zones, NEW c \in Watched, NEW S, NEW n \in Nat, Late(z, c, S) <= n
       PROVE  Late(z, c, S)' <= n + 1
  <2>1. /\ since'[z][c][TRUE] <= since[z][c][TRUE] + 1
        /\ since'[z][c][FALSE] <= since[z][c][FALSE] + 1
        /\ since'[z][c][TRUE] \in Nat /\ since'[z][c][FALSE] \in Nat
    BY LateGoesOn
  <2>2. since[z][c][TRUE] \in 0..StaleBound + 1 /\ since[z][c][FALSE] \in 0..StaleBound + 1
    BY <1>0, LateTyped
  <2>3. since[z][c][TRUE] \in Nat /\ since[z][c][FALSE] \in Nat
    BY <2>2, AgesAreNumbers
  <2>4. \A x, y, k \in Nat : x <= y + 1 /\ y <= k => x <= k + 1
    OBVIOUS
  <2>5. CASE z \in S
    <3>1. since[z][c][TRUE] <= n
      BY <1>14, <2>5 DEF Late
    <3>2. since'[z][c][TRUE] <= n + 1
      BY <2>1, <2>3, <2>4, <3>1
    <3> QED
      BY <2>5, <3>2 DEF Late
  <2>6. CASE z \notin S
    <3>1. since[z][c][FALSE] <= n
      BY <1>14, <2>6 DEF Late
    <3>2. since'[z][c][FALSE] <= n + 1
      BY <2>1, <2>3, <2>4, <3>1
    <3> QED
      BY <2>6, <3>2 DEF Late
  <2> QED
    BY <2>5, <2>6
<1>15. ASSUME NEW z \in Zones, NEW c \in Watched
       PROVE  AnswerRecent(z, c)' /\ CachesRecent(z, c)' /\ UseRecent(z, c)'
  <2>1. AnswerRecent(z, c) /\ CachesRecent(z, c) /\ UseRecent(z, c)
    BY DEF ZoneInv
  <2>2. /\ AtOnce \in Nat /\ Interval \in Nat /\ MaxDelay \in Nat
        /\ fetch[c].age \in Nat /\ refreshAge[c] \in Nat /\ c \in ZoneCameras
    BY <1>0, ZoneNumbers, ZoneTypesOfCamera
  <2>3. /\ AtOnce + fetch[c].age \in Nat /\ AtOnce + refreshAge[c] \in Nat
        /\ AtOnce + Interval + fetch[c].age \in Nat
    BY <2>2
  <2>4. PICK data, inUse : data = fetch[c].data /\ inUse = used[c]
    OBVIOUS
  <2>5. fetch'[c].data = data /\ used'[c] = inUse
    BY <1>0, <1>7, <2>4
  <2>6. AnswerRecent(z, c)'
    <3>1. CASE fetch[c].step = "read"
      <4>1. Late(z, c, data)' <= fetch[c].age + 1
        BY <1>14, <2>1, <2>2, <2>4, <3>1 DEF AnswerRecent
      <4>2. fetch'[c].age = fetch[c].age + 1 /\ fetch'[c].step = "read"
        BY <1>7, <3>1
      <4>3. Late(z, c, fetch[c].data)' = Late(z, c, data)'
        BY <2>5 DEF Late
      <4> QED
        BY <4>1, <4>2, <4>3 DEF AnswerRecent
    <3>2. CASE fetch[c].step = "replied"
      <4>1. Late(z, c, data) <= AtOnce + fetch[c].age
        BY <2>1, <2>4, <3>2 DEF AnswerRecent
      <4>2. Late(z, c, data)' <= (AtOnce + fetch[c].age) + 1
        BY <1>14, <2>3, <4>1
      <4>3. fetch'[c].age = fetch[c].age + 1 /\ fetch'[c].step = "replied"
        BY <1>7, <3>2
      <4>4. Late(z, c, fetch[c].data)' = Late(z, c, data)'
        BY <2>5 DEF Late
      <4>5. (AtOnce + fetch[c].age) + 1 = AtOnce + fetch'[c].age
        BY <2>2, <4>3
      <4> QED
        BY <4>2, <4>3, <4>4, <4>5 DEF AnswerRecent
    <3>3. CASE fetch[c].step \notin {"read", "replied"}
      BY <1>7, <3>3 DEF AnswerRecent
    <3> QED
      BY <3>1, <3>2, <3>3
  <2>7. CachesRecent(z, c)'
    <3> SUFFICES ASSUME NEW w \in ApiWorkers, zoneCache'[w][c].age < CacheTtl
                 PROVE  Late(z, c, zoneCache[w][c].held)' <= zoneCache'[w][c].age + MaxDelay
      BY DEF CachesRecent
    <3>1. zoneCache[w][c] \in ZoneEntries /\ zoneCache[w][c].age \in Nat
      BY <1>0, <2>2, ZoneTypesOfCache
    <3>2. /\ zoneCache'[w][c].age = zoneCache[w][c].age + 1 /\ zoneCache[w][c].age < CacheTtl
          /\ zoneCache'[w][c].held = zoneCache[w][c].held
      BY <1>1, <1>3, <2>2, <3>1
    <3>3. PICK held : held = zoneCache[w][c].held
      OBVIOUS
    <3>4. Late(z, c, held) <= zoneCache[w][c].age + MaxDelay
      BY <2>1, <3>2, <3>3 DEF CachesRecent
    <3>5. zoneCache[w][c].age + MaxDelay \in Nat
      BY <2>2, <3>1
    <3>6. Late(z, c, held)' <= (zoneCache[w][c].age + MaxDelay) + 1
      BY <1>14, <3>4, <3>5
    <3>7. (zoneCache[w][c].age + MaxDelay) + 1 = zoneCache'[w][c].age + MaxDelay
      BY <2>2, <3>1, <3>2
    <3>8. Late(z, c, zoneCache[w][c].held)' = Late(z, c, held)'
      BY <3>2, <3>3 DEF Late
    <3> QED
      BY <3>6, <3>7, <3>8
  <2>8. UseRecent(z, c)'
    <3>1. Late(z, c, used[c])' = Late(z, c, inUse)'
      BY <2>5 DEF Late
    <3>2. CASE fetch[c].step = "none"
      <4>1. /\ fetch'[c].step = "none" /\ refreshAge[c] < RefreshEvery
            /\ refreshAge'[c] = refreshAge[c] + 1
        BY <1>7, <1>9, <3>2
      <4>2. Late(z, c, inUse) <= AtOnce + refreshAge[c]
        BY <2>1, <2>2, <2>4, <3>2, <4>1, ZoneNumbers DEF UseRecent
      <4>3. Late(z, c, inUse)' <= (AtOnce + refreshAge[c]) + 1
        BY <1>14, <2>3, <4>2
      <4>4. (AtOnce + refreshAge[c]) + 1 = AtOnce + refreshAge'[c]
        BY <2>2, <4>1
      <4> QED
        BY <3>1, <4>1, <4>3, <4>4 DEF UseRecent
    <3>3. CASE fetch[c].step # "none"
      <4>1. fetch'[c].step # "none" /\ fetch'[c].age = fetch[c].age + 1
        BY <1>7, <3>3
      <4>2. Late(z, c, inUse) <= AtOnce + Interval + fetch[c].age
        BY <2>1, <2>4, <3>3 DEF UseRecent
      <4>3. Late(z, c, inUse)' <= (AtOnce + Interval + fetch[c].age) + 1
        BY <1>14, <2>3, <4>2
      <4>4. (AtOnce + Interval + fetch[c].age) + 1 = AtOnce + Interval + fetch'[c].age
        BY <2>2, <4>1
      <4> QED
        BY <3>1, <4>1, <4>3, <4>4 DEF UseRecent
    <3> QED
      BY <3>2, <3>3
  <2> QED
    BY <2>6, <2>7, <2>8
<1>16. \A z \in Zones, c \in Watched : Late(z, c, ArmedZones(c))' = 0
  BY LateGoesOn
<1> QED
  BY <1>12, <1>13, <1>15, <1>16 DEF ZoneInv

LEMMA ZoneStep == ZoneInv /\ [ZoneNext]_zoneVars => ZoneInv'
<1> SUFFICES ASSUME ZoneInv, [ZoneNext]_zoneVars PROVE ZoneInv'
  OBVIOUS
<1>1. ASSUME NEW z \in Zones, ScheduleTurns(z) PROVE ZoneInv'
  BY <1>1, ScheduleTurnsKeeps
<1>2. ASSUME NEW z \in Zones, NEW w \in ApiWorkers, NEW to \in ZoneCameras \cup {NoCamera},
             EditZone(w, z, to)
      PROVE  ZoneInv'
  BY <1>2, EditZoneKeeps
<1>3. CASE EndEdit
  BY <1>3, EndEditKeeps
<1>4. ASSUME NEW c \in Watched, NEW w \in ApiWorkers, AskZones(c, w) PROVE ZoneInv'
  BY <1>4, AskZonesKeeps
<1>5. ASSUME NEW c \in Watched, ServeCached(c) PROVE ZoneInv'
  BY <1>5, ServeCachedKeeps
<1>6. ASSUME NEW c \in Watched, ReadZones(c) PROVE ZoneInv'
  BY <1>6, ReadZonesKeeps
<1>7. ASSUME NEW c \in Watched, StoreZones(c) PROVE ZoneInv'
  BY <1>7, StoreZonesKeeps
<1>8. ASSUME NEW c \in Watched, UseZones(c) PROVE ZoneInv'
  BY <1>8, UseZonesKeeps
<1>9. CASE ZoneTick
  BY <1>9, ZoneTickKeeps
<1>10. CASE UNCHANGED zoneVars
  <2>1. UNCHANGED <<zoneAt, armed, edit, zoneCache, fetch, used, refreshAge, since>>
    BY <1>10 DEF zoneVars
  <2>2. ZoneTypeOK'
    BY <2>1 DEF ZoneInv, ZoneTypeOK
  <2>3. \A c \in Watched : FetchTimed(c)'
    BY <2>1 DEF ZoneInv, FetchTimed
  <2>4. ASSUME NEW z \in Zones, NEW c \in Watched
        PROVE  /\ Late(z, c, ArmedZones(c))' = 0
               /\ AnswerRecent(z, c)' /\ CachesRecent(z, c)' /\ UseRecent(z, c)'
    <3>1. /\ Late(z, c, ArmedZones(c)) = 0
          /\ AnswerRecent(z, c) /\ CachesRecent(z, c) /\ UseRecent(z, c)
      BY DEF ZoneInv
    <3>2. Late(z, c, ArmedZones(c))' = 0
      BY <2>1, <3>1 DEF Late, ArmedZones
    <3>3. AnswerRecent(z, c)' /\ UseRecent(z, c)'
      BY <2>1, <3>1 DEF AnswerRecent, UseRecent, Late
    <3>4. CachesRecent(z, c)'
      BY <2>1, <3>1 DEF CachesRecent, Late
    <3> QED
      BY <3>2, <3>3, <3>4
  <2> QED
    BY <2>2, <2>3, <2>4 DEF ZoneInv
<1> QED
  BY <1>1, <1>2, <1>3, <1>4, <1>5, <1>6, <1>7, <1>8, <1>9, <1>10 DEF ZoneNext

\* The cached zones of every process, the answers on their way and the zones in use
\* are as recent as their ages allow.
LEMMA ZoneInvAlways == ZoneSpec => []ZoneInv
<1>1. ZoneInit => ZoneInv
  BY ZoneStart
<1>2. ZoneInv /\ [ZoneNext]_zoneVars => ZoneInv'
  BY ZoneStep
<1> QED
  BY <1>1, <1>2, PTL DEF ZoneSpec

\* Type correctness of the zones, their caches and their requests.
THEOREM ZoneTypeAlwaysOK == ZoneSpec => []ZoneTypeOK
<1>1. ZoneInv => ZoneTypeOK
  BY DEF ZoneInv
<1> QED
  BY <1>1, ZoneInvAlways, PTL

\* An analysed zone was drawn and armed, and one that is not analysed was not, at most
\* StaleBound ticks ago, for any TTL, interval, delay and number of API processes.
THEOREM ZonesAreAlwaysRecent == ZoneSpec => []ZonesAreRecent
<1>1. ZoneInv => ZonesAreRecent
  <2> SUFFICES ASSUME ZoneInv, NEW z \in Zones, NEW c \in Watched
               PROVE  since[z][c][(z \in used[c])] <= StaleBound
    BY DEF ZonesAreRecent
  <2>1. since[z][c][(z \in used[c])] = Late(z, c, used[c])
    BY LateIsSince
  <2>2. UseRecent(z, c) /\ Late(z, c, used[c]) \in Nat
    BY LateTyped DEF ZoneInv
  <2>3. /\ fetch[c].age \in Nat /\ fetch[c].age <= MaxDelay
        /\ refreshAge[c] \in Nat /\ refreshAge[c] <= RefreshEvery
    BY ZoneTypesOfCamera DEF ZoneInv
  <2>4. Late(z, c, used[c]) <= StaleBound
    BY <2>2, <2>3, ZoneNumbers DEF UseRecent
  <2> QED
    BY <2>1, <2>4
<1> QED
  BY <1>1, ZoneInvAlways, PTL

(***************************************************************************)
(* VirtualFence: false alarms are explained. The inductive invariant       *)
(* follows a track back to the cameras and the objects that moved it.      *)
(***************************************************************************)
FenceTypes ==
  /\ tracks \in [TrackIds -> TrackRecords \cup {Free}]
  /\ now \in FenceCameras \cup {NoFrame} /\ todo \subseteq Places
  /\ matched \subseteq Live /\ shape \in [AllZones -> SUBSET Places]
  /\ alarms \subseteq Alarms /\ redraws \in 0..MaxRedraws

\* The frames of one camera alone have moved the track.
OfOneCamera(track) == \E c \in FenceCameras : track.by = {c}

\* Such a track has a trail that ends where it is, and has been on the side of each zone
\* that it is noted on, as the zone is drawn.
TrackTrue(track) ==
  /\ track.by # {}
  /\ OfOneCamera(track) =>
       /\ track.place \in track.trail
       /\ \A z \in AllZones \ track.redrawn :
            /\ track.side[z] = "in" => track.trail \cap shape[z] # {}
            /\ track.side[z] = "out" => track.trail \ shape[z] # {}

\* The inductive invariant of the fence: reports are those of the last frame only.
FenceInv ==
  /\ FenceTypes
  /\ \A t \in Live : TrackTrue(tracks[t])
  /\ now # NoFrame => alarms = {}
  /\ FalseAlarmsExplained

LEMMA TracksAreNotFree == \A track \in TrackRecords : track # Free
<1> SUFFICES ASSUME NEW track \in TrackRecords PROVE track # Free
  OBVIOUS
<1>1. "place" \in DOMAIN track
  BY DEF TrackRecords
<1>2. DOMAIN Free = {"age"}
  BY DEF Free
<1> QED
  BY <1>1, <1>2

\* Live tracks are records; a track is live where the next state has a record.
LEMMA LiveTracks ==
  ASSUME FenceTypes
  PROVE  /\ Live \subseteq TrackIds
         /\ \A t \in Live : tracks[t] \in TrackRecords
         /\ \A t \in TrackIds : tracks[t] \in TrackRecords => t \in Live
BY TracksAreNotFree DEF FenceTypes, Live

LEMMA FenceStart == FenceInit => FenceInv
<1> SUFFICES ASSUME FenceInit PROVE FenceInv
  OBVIOUS
<1>1. Live = {}
  BY DEF FenceInit, Live
<1>2. FenceTypes
  BY <1>1, FenceAssumption DEF FenceInit, FenceTypes
<1> QED
  BY <1>1, <1>2 DEF FenceInit, FenceInv, FalseAlarmsExplained

\* What a step without alarms that changes no polygon has to show.
LEMMA TracksSuffice ==
  ASSUME FenceTypes', alarms' = {}, \A t \in Live' : TrackTrue(tracks[t])'
  PROVE  FenceInv'
BY DEF FenceInv, FalseAlarmsExplained

LEMMA FrameArrivesKeeps ==
  ASSUME FenceInv, NEW c \in FenceCameras, NEW detections \in SUBSET Places,
         FrameArrives(c, detections)
  PROVE  FenceInv'
<1>1. /\ now' = c /\ todo' = detections /\ matched' = {} /\ alarms' = {}
      /\ UNCHANGED <<shape, redraws>>
  BY DEF FrameArrives
<1>2. tracks' = [t \in TrackIds |->
                   IF t \in Live /\ tracks[t].age > TrackTtl THEN Free ELSE tracks[t]]
  BY DEF FrameArrives
<1>3. tracks' \in [TrackIds -> TrackRecords \cup {Free}]
  BY <1>2 DEF FenceInv, FenceTypes
<1>4. FenceTypes'
  BY <1>1, <1>3 DEF FenceInv, FenceTypes
<1>5. ASSUME NEW t \in Live' PROVE TrackTrue(tracks[t])'
  <2>1. t \in TrackIds /\ tracks'[t] # Free
    BY <1>3 DEF Live
  <2>2. tracks'[t] = tracks[t] /\ t \in Live
    BY <1>2, <2>1 DEF Live
  <2> QED
    BY <1>1, <2>2 DEF FenceInv, TrackTrue, OfOneCamera
<1> QED
  BY <1>1, <1>4, <1>5, TracksSuffice

\* The track that a detection begins.
LEMMA NewTrackTrue ==
  ASSUME FenceTypes, NEW p \in Places, NEW c \in FenceCameras, NEW counts \in BOOLEAN
  PROVE  NewTrack(p, c, counts) \in TrackRecords /\ TrackTrue(NewTrack(p, c, counts))
<1>1. 0 \in 0..TrackTtl + 1
  BY FenceAssumption
<1>2. [z \in AllZones |-> "unknown"] \in [AllZones -> Sides]
  BY DEF Sides
<1>3. NewTrack(p, c, counts) \in TrackRecords
  BY <1>1, <1>2 DEF NewTrack, TrackRecords
<1>4. TrackTrue(NewTrack(p, c, counts))
  BY DEF NewTrack, TrackTrue
<1> QED
  BY <1>3, <1>4

\* The track that a detection joins.
LEMMA SeenAtTrue ==
  ASSUME FenceTypes, NEW track \in TrackRecords, TrackTrue(track),
         NEW p \in Places, NEW c \in FenceCameras, NEW counts \in BOOLEAN
  PROVE  SeenAt(track, p, c, counts) \in TrackRecords /\ TrackTrue(SeenAt(track, p, c, counts))
<1>1. 0 \in 0..TrackTtl + 1
  BY FenceAssumption
<1>2. PICK seen : seen = SeenAt(track, p, c, counts)
  OBVIOUS
<1>3. seen \in TrackRecords
  BY <1>1, <1>2 DEF SeenAt, TrackRecords
<1>4. /\ seen.place = p /\ seen.by = track.by \cup {c}
      /\ seen.trail = IF track.by = {c} THEN track.trail \cup {p} ELSE {}
      /\ seen.side = track.side /\ seen.redrawn = track.redrawn
  BY <1>2 DEF SeenAt, TrackRecords
<1>5. TrackTrue(seen)
  <2>1. seen.by # {}
    BY <1>4
  <2>2. CASE track.by = {c}
    <3>1. OfOneCamera(track)
      BY <2>2 DEF OfOneCamera
    <3> QED
      BY <1>4, <2>1, <2>2, <3>1 DEF TrackTrue
  <2>3. CASE track.by # {c}
    <3>1. PICK b \in track.by : b # c
      BY <2>3 DEF TrackTrue
    <3>2. ~OfOneCamera(seen)
      BY <1>4, <3>1 DEF OfOneCamera
    <3> QED
      BY <2>1, <3>2 DEF TrackTrue
  <2> QED
    BY <2>2, <2>3
<1> QED
  BY <1>2, <1>3, <1>5

LEMMA MatchDetectionKeeps ==
  ASSUME FenceInv, NEW p \in Places, NEW counts \in BOOLEAN, MatchDetection(p, counts)
  PROVE  FenceInv'
<1>1. /\ now \in FenceCameras /\ todo' = todo \ {p} /\ alarms = {}
      /\ UNCHANGED <<now, shape, alarms, redraws>>
  BY DEF MatchDetection, FenceInv, FenceTypes
<1>2. PICK t \in TrackIds, track \in TrackRecords :
        /\ TrackTrue(track) /\ tracks' = [tracks EXCEPT ![t] = track]
        /\ matched' \subseteq matched \cup {t}
  <2>1. CASE Candidates(p) = {}
    <3>1. PICK t : t = CHOOSE u \in TrackIds \ Live : TRUE
      OBVIOUS
    <3>2. TrackIds \ Live # {}
      BY <2>1 DEF MatchDetection, Live
    <3>3. t \in TrackIds
      BY <3>1, <3>2
    <3>4. tracks' = [tracks EXCEPT ![t] = NewTrack(p, now, counts)] /\ matched' = matched
      BY <2>1, <3>1 DEF MatchDetection
    <3> QED
      BY <1>1, <3>3, <3>4, NewTrackTrue DEF FenceInv
  <2>2. CASE Candidates(p) # {}
    <3>1. PICK t \in Candidates(p) :
            /\ tracks' = [tracks EXCEPT ![t] = SeenAt(tracks[t], p, now, counts)]
            /\ matched' = matched \cup {t}
      BY <2>2 DEF MatchDetection
    <3>2. t \in Live
      BY <3>1 DEF Candidates
    <3>3. t \in TrackIds /\ tracks[t] \in TrackRecords /\ TrackTrue(tracks[t])
      BY <3>2, LiveTracks DEF FenceInv
    <3>4. /\ SeenAt(tracks[t], p, now, counts) \in TrackRecords
          /\ TrackTrue(SeenAt(tracks[t], p, now, counts))
      BY <1>1, <3>3, SeenAtTrue DEF FenceInv
    <3> QED
      BY <3>1, <3>3, <3>4
  <2> QED
    BY <2>1, <2>2
<1>3. tracks' \in [TrackIds -> TrackRecords \cup {Free}] /\ tracks'[t] = track
      /\ \A u \in TrackIds \ {t} : tracks'[u] = tracks[u]
  BY <1>2 DEF FenceInv, FenceTypes
<1>4. t \in Live'
  BY <1>3, TracksAreNotFree DEF Live
<1>5. Live \subseteq Live'
  BY <1>3, <1>4 DEF Live
<1>6. FenceTypes'
  BY <1>1, <1>2, <1>3, <1>4, <1>5 DEF FenceInv, FenceTypes
<1>7. ASSUME NEW u \in Live' PROVE TrackTrue(tracks[u])'
  <2>1. CASE u = t
    BY <1>1, <1>2, <1>3, <2>1 DEF TrackTrue, OfOneCamera
  <2>2. CASE u # t
    <3>1. u \in Live /\ tracks'[u] = tracks[u]
      BY <1>3, <2>2 DEF Live
    <3> QED
      BY <1>1, <3>1 DEF FenceInv, TrackTrue, OfOneCamera
  <2> QED
    BY <2>1, <2>2
<1> QED
  BY <1>1, <1>6, <1>7, TracksSuffice

\* A track, compared with the zones of the camera whose frame it is.
LEMMA ComparedTrue ==
  ASSUME FenceInv, now \in FenceCameras, NEW t \in Live
  PROVE  /\ Compared(t) \in TrackRecords /\ TrackTrue(Compared(t))
         /\ Compared(t).by = tracks[t].by /\ Compared(t).trail = tracks[t].trail
<1>1. tracks[t] \in TrackRecords
  BY LiveTracks DEF FenceInv
<1>2. PICK side : side = [z \in AllZones |->
                            IF z \in FenceZones[now] THEN Side(tracks[t].place, z)
                            ELSE tracks[t].side[z]]
  OBVIOUS
<1>3. PICK done : done = [tracks[t] EXCEPT !.side = side,
                                           !.redrawn = tracks[t].redrawn \ FenceZones[now]]
  OBVIOUS
<1>4. done = Compared(t)
  BY <1>2, <1>3 DEF Compared
<1>5. side \in [AllZones -> Sides]
  BY <1>1, <1>2 DEF TrackRecords, Side, Sides
<1>6. done \in TrackRecords
  BY <1>1, <1>3, <1>5 DEF TrackRecords
<1>7. /\ done.place = tracks[t].place /\ done.by = tracks[t].by
      /\ done.trail = tracks[t].trail /\ done.side = side
      /\ done.redrawn = tracks[t].redrawn \ FenceZones[now]
  BY <1>1, <1>3 DEF TrackRecords
<1>8. TrackTrue(tracks[t])
  BY DEF FenceInv
<1>9. ASSUME OfOneCamera(done), NEW z \in AllZones \ done.redrawn
      PROVE  /\ done.side[z] = "in" => done.trail \cap shape[z] # {}
             /\ done.side[z] = "out" => done.trail \ shape[z] # {}
  <2>1. OfOneCamera(tracks[t]) /\ tracks[t].place \in tracks[t].trail
    BY <1>7, <1>8, <1>9 DEF OfOneCamera, TrackTrue
  <2>2. CASE z \in FenceZones[now]
    BY <1>2, <1>7, <2>1, <2>2 DEF Side
  <2>3. CASE z \notin FenceZones[now]
    <3>1. done.side[z] = tracks[t].side[z] /\ z \notin tracks[t].redrawn
      BY <1>2, <1>7, <2>3
    <3> QED
      BY <1>7, <1>8, <2>1, <3>1 DEF TrackTrue
  <2> QED
    BY <2>2, <2>3
<1>10. OfOneCamera(done) => done.place \in done.trail
  BY <1>7, <1>8 DEF OfOneCamera, TrackTrue
<1>11. TrackTrue(done)
  BY <1>7, <1>8, <1>9, <1>10 DEF TrackTrue
<1> QED
  BY <1>4, <1>6, <1>7, <1>11

LEMMA FrameEndsKeeps == ASSUME FenceInv, FrameEnds PROVE FenceInv'
<1>1. /\ now \in FenceCameras /\ now' = NoFrame /\ matched' = {}
      /\ UNCHANGED <<todo, shape, redraws>>
  BY DEF FrameEnds, FenceInv, FenceTypes
<1>2. tracks' = [t \in TrackIds |-> IF t \in Live /\ tracks[t].counts THEN Compared(t)
                                                                      ELSE tracks[t]]
  BY DEF FrameEnds
<1>3. ASSUME NEW t \in Live
      PROVE  /\ tracks'[t] \in TrackRecords
             /\ tracks'[t].by = tracks[t].by /\ tracks'[t].trail = tracks[t].trail
             /\ TrackTrue(tracks[t])'
  <2>1. t \in TrackIds /\ tracks[t] \in TrackRecords /\ TrackTrue(tracks[t])
    BY LiveTracks DEF FenceInv
  <2>2. CASE tracks[t].counts
    <3>1. PICK done \in TrackRecords :
            done = Compared(t) /\ TrackTrue(done)
            /\ done.by = tracks[t].by /\ done.trail = tracks[t].trail
      BY <1>1, ComparedTrue
    <3>2. tracks'[t] = done
      BY <1>2, <2>1, <2>2, <3>1
    <3> QED
      BY <1>1, <3>1, <3>2 DEF TrackTrue, OfOneCamera
  <2>3. CASE ~tracks[t].counts
    <3>1. tracks'[t] = tracks[t]
      BY <1>2, <2>1, <2>3
    <3> QED
      BY <1>1, <2>1, <3>1 DEF TrackTrue, OfOneCamera
  <2> QED
    BY <2>2, <2>3
<1>4. \A t \in TrackIds \ Live : tracks'[t] = Free
  BY <1>2 DEF Live
<1>5. tracks' \in [TrackIds -> TrackRecords \cup {Free}]
  BY <1>2, <1>3, <1>4
<1>6. Live' \subseteq Live
  BY <1>4 DEF Live
<1>7. ASSUME NEW a \in alarms'
      PROVE  /\ a \in Alarms
             /\ (Witnessed(a) \/ Shared(a) \/ a.redrawn)'
  <2>1. PICK z \in FenceZones[now], t \in Live :
          /\ Crossed(t, z)
          /\ a = [camera |-> now, zone |-> z, track |-> t,
                  redrawn |-> z \in tracks[t].redrawn]
    BY DEF FrameEnds
  <2>2. z \in AllZones /\ t \in TrackIds /\ tracks[t] \in TrackRecords
        /\ TrackTrue(tracks[t])
    BY <1>1, LiveTracks DEF AllZones, FenceInv
  <2>3. (z \in tracks[t].redrawn) \in BOOLEAN
    OBVIOUS
  <2>4. a \in Alarms
    BY <1>1, <2>1, <2>2, <2>3 DEF Alarms
  <2>5. a.camera = now /\ a.zone = z /\ a.track = t
    BY <2>1
  <2>6. a.redrawn <=> z \in tracks[t].redrawn
    BY <2>1, <2>3
  <2>7. ASSUME ~a.redrawn, tracks[t].by = {now}
        PROVE  tracks[t].trail \cap shape[z] # {} /\ tracks[t].trail \ shape[z] # {}
    <3>1. OfOneCamera(tracks[t]) /\ z \notin tracks[t].redrawn
      BY <1>1, <2>6, <2>7 DEF OfOneCamera
    <3>2. /\ tracks[t].place \in tracks[t].trail
          /\ tracks[t].side[z] = "in" => tracks[t].trail \cap shape[z] # {}
          /\ tracks[t].side[z] = "out" => tracks[t].trail \ shape[z] # {}
      BY <2>2, <3>1 DEF TrackTrue
    <3>3. tracks[t].side[z] \in {"unknown", "in", "out"}
      BY <2>2 DEF TrackRecords, Sides
    <3>4. tracks[t].side[z] \notin {"unknown", Side(tracks[t].place, z)}
      BY <2>1 DEF Crossed
    <3> QED
      BY <3>2, <3>3, <3>4 DEF Side
  <2>8. tracks'[t].by = tracks[t].by /\ tracks'[t].trail = tracks[t].trail
    BY <1>3
  <2>9. Witnessed(a)' \/ Shared(a)' \/ a.redrawn
    BY <1>1, <2>5, <2>7, <2>8 DEF Witnessed, Shared
  <2> QED
    BY <2>4, <2>9
<1>8. FenceTypes'
  BY <1>1, <1>5, <1>7 DEF FenceInv, FenceTypes
<1>9. \A t \in Live' : TrackTrue(tracks[t])'
  BY <1>3, <1>6
<1>10. FalseAlarmsExplained'
  BY <1>7 DEF FalseAlarmsExplained
<1> QED
  BY <1>1, <1>8, <1>9, <1>10 DEF FenceInv

LEMMA RedrawZoneKeeps ==
  ASSUME FenceInv, NEW z \in AllZones, NEW p \in Places, RedrawZone(z, p)
  PROVE  FenceInv'
<1>1. /\ shape' = [shape EXCEPT ![z] = {p}] /\ alarms' = {}
      /\ redraws' = redraws + 1 /\ redraws < MaxRedraws
      /\ UNCHANGED <<now, todo, matched>>
  BY DEF RedrawZone
<1>2. tracks' = [t \in TrackIds |->
                   IF t \in Live
                   THEN [tracks[t] EXCEPT !.redrawn = tracks[t].redrawn \cup {z}]
                   ELSE Free]
  BY DEF RedrawZone
<1>3. ASSUME NEW t \in Live
      PROVE  tracks'[t] \in TrackRecords /\ TrackTrue(tracks[t])'
  <2>1. t \in TrackIds /\ tracks[t] \in TrackRecords /\ TrackTrue(tracks[t])
    BY LiveTracks DEF FenceInv
  <2>2. PICK track : track = [tracks[t] EXCEPT !.redrawn = tracks[t].redrawn \cup {z}]
    OBVIOUS
  <2>3. track \in TrackRecords
    BY <2>1, <2>2 DEF TrackRecords
  <2>4. /\ track.place = tracks[t].place /\ track.by = tracks[t].by
        /\ track.trail = tracks[t].trail /\ track.side = tracks[t].side
        /\ track.redrawn = tracks[t].redrawn \cup {z}
    BY <2>1, <2>2 DEF TrackRecords
  <2>5. tracks'[t] = track
    BY <1>2, <2>1, <2>2
  <2>6. \A y \in AllZones \ {z} : shape'[y] = shape[y]
    BY <1>1 DEF FenceInv, FenceTypes
  <2> QED
    BY <2>1, <2>3, <2>4, <2>5, <2>6 DEF TrackTrue, OfOneCamera
<1>4. \A t \in TrackIds \ Live : tracks'[t] = Free
  BY <1>2
<1>5. tracks' \in [TrackIds -> TrackRecords \cup {Free}]
  BY <1>2, <1>3, <1>4
<1>6. Live' = Live
  BY <1>3, <1>4, <1>5, TracksAreNotFree DEF Live
<1>7. FenceTypes'
  <2>1. redraws' \in 0..MaxRedraws
    BY <1>1, FenceAssumption DEF FenceInv, FenceTypes
  <2>2. shape' \in [AllZones -> SUBSET Places]
    BY <1>1 DEF FenceInv, FenceTypes
  <2> QED
    BY <1>1, <1>5, <1>6, <2>1, <2>2 DEF FenceInv, FenceTypes
<1> QED
  BY <1>1, <1>3, <1>6, <1>7, TracksSuffice

LEMMA FenceTickKeeps == ASSUME FenceInv, FenceTick PROVE FenceInv'
<1>1. alarms' = {} /\ UNCHANGED <<now, todo, matched, shape, redraws>>
  BY DEF FenceTick
<1>2. tracks' = [t \in TrackIds |->
                   IF t \in Live /\ tracks[t].age <= TrackTtl
                   THEN [tracks[t] EXCEPT !.age = tracks[t].age + 1] ELSE tracks[t]]
  BY DEF FenceTick
<1>3. ASSUME NEW t \in Live
      PROVE  tracks'[t] \in TrackRecords /\ TrackTrue(tracks[t])'
  <2>1. t \in TrackIds /\ tracks[t] \in TrackRecords /\ TrackTrue(tracks[t])
    BY LiveTracks DEF FenceInv
  <2>2. CASE tracks[t].age <= TrackTtl
    <3>1. PICK track : track = [tracks[t] EXCEPT !.age = tracks[t].age + 1]
      OBVIOUS
    <3>2. tracks[t].age + 1 \in 0..TrackTtl + 1
      BY <2>1, <2>2, FenceAssumption DEF TrackRecords
    <3>3. track \in TrackRecords
      BY <2>1, <3>1, <3>2 DEF TrackRecords
    <3>4. /\ track.place = tracks[t].place /\ track.by = tracks[t].by
          /\ track.trail = tracks[t].trail /\ track.side = tracks[t].side
          /\ track.redrawn = tracks[t].redrawn
      BY <2>1, <3>1 DEF TrackRecords
    <3>5. tracks'[t] = track
      BY <1>2, <2>1, <2>2, <3>1
    <3> QED
      BY <1>1, <2>1, <3>3, <3>4, <3>5 DEF TrackTrue, OfOneCamera
  <2>3. CASE ~(tracks[t].age <= TrackTtl)
    <3>1. tracks'[t] = tracks[t]
      BY <1>2, <2>1, <2>3
    <3> QED
      BY <1>1, <2>1, <3>1 DEF TrackTrue, OfOneCamera
  <2> QED
    BY <2>2, <2>3
<1>4. \A t \in TrackIds \ Live : tracks'[t] = Free
  BY <1>2 DEF Live
<1>5. tracks' \in [TrackIds -> TrackRecords \cup {Free}]
  BY <1>2, <1>3, <1>4
<1>6. Live' = Live
  BY <1>3, <1>4, <1>5, TracksAreNotFree DEF Live
<1>7. FenceTypes'
  BY <1>1, <1>5, <1>6 DEF FenceInv, FenceTypes
<1> QED
  BY <1>1, <1>3, <1>6, <1>7, TracksSuffice

LEMMA FenceStep == FenceInv /\ [FenceNext]_fenceVars => FenceInv'
<1> SUFFICES ASSUME FenceInv, [FenceNext]_fenceVars PROVE FenceInv'
  OBVIOUS
<1>1. CASE UNCHANGED fenceVars
  BY <1>1 DEF fenceVars, FenceInv, FenceTypes, Live, TrackTrue, OfOneCamera,
              FalseAlarmsExplained, Witnessed, Shared
<1> QED
  BY <1>1, FrameArrivesKeeps, MatchDetectionKeeps, FrameEndsKeeps, RedrawZoneKeeps,
     FenceTickKeeps DEF FenceNext

LEMMA FenceInvAlways == FenceSpec => []FenceInv
<1>1. FenceInit => FenceInv
  BY FenceStart
<1>2. FenceInv /\ [FenceNext]_fenceVars => FenceInv'
  BY FenceStep
<1> QED
  BY <1>1, <1>2, PTL DEF FenceSpec

\* The tracks and reports of the fence are what they may be.
THEOREM FenceTypeAlwaysOK == FenceSpec => []FenceTypeOK
<1>1. FenceInv => FenceTypeOK
  BY LiveTracks DEF FenceInv, FenceTypes, FenceTypeOK
<1> QED
  BY <1>1, FenceInvAlways, PTL

\* A crossing is reported only of a track that the camera has seen on both sides, but for
\* tracks that cameras share and zones that were redrawn (VirtualFencePlugin.analyze_frame).
THEOREM FalseAlarmsAlwaysExplained == FenceSpec => []FalseAlarmsExplained
<1>1. FenceInv => FalseAlarmsExplained
  BY DEF FenceInv
<1> QED
  BY <1>1, FenceInvAlways, PTL

(***************************************************************************)
(* SpeedTrap: no speed is too high. The inductive invariant bounds the way *)
(* between two notes of a track by the frames between them.                *)
(***************************************************************************)
SpeedRecords ==
  [spot : Road, seen : Moments, counts : BOOLEAN,
   passage : [entry : SUBSET Notes, last : SUBSET Notes],
   of : SUBSET Vehicles, by : SUBSET TrapCameras, redrawn : BOOLEAN]

TrapFrames == [camera : TrapCameras, left : SUBSET Sightings, taken : SUBSET SpeedTracks]

SpeedTypes ==
  /\ follows \in [SpeedTracks -> SpeedRecords \cup {FreeTrack}]
  /\ inFrame \in TrapFrames \cup {NoFrameHere}
  /\ inside \subseteq Road /\ time \in Moments /\ reshapes \in 0..MaxReshapes
  /\ \A m \in measured : m.from \in Notes /\ m.to \in Notes /\ m.track \in SpeedRecords

\* A track that nothing has been mixed into.
Pure(track) == ~track.redrawn /\ track.by = {TrapCamera}

\* No note is older than what it notes, and that of the entry into the zone of a pure
\* track is of the frame that showed it there: a pure track inside the zone whose entry
\* is not noted was seen in the frame that is handled now.
TrackTimed(track) ==
  /\ track.seen <= time /\ track.by # {}
  /\ \A n \in track.passage.entry \cup track.passage.last : n.seen <= n.ts
  /\ Pure(track) => \A e \in track.passage.entry : e.ts = e.seen
  /\ Pure(track) /\ track.counts /\ track.passage.entry = {} /\ track.spot \in inside =>
       track.seen = time /\ inFrame # NoFrameHere /\ inFrame.camera = TrapCamera

\* The inductive invariant of the speed trap.
SpeedInv ==
  /\ SpeedTypes
  /\ \A t \in InUse : TrackTimed(follows[t])
  /\ NeverTooFast

LEMMA SpeedNumbers ==
  /\ RoadEnd \in Nat /\ Reach \in Nat /\ MinShift \in Nat /\ SpeedTtl \in Nat
  /\ LastFrame \in Nat /\ MaxReshapes \in Nat
  /\ NoTrap \notin TrapCameras
BY SpeedAssumption DEF TrapCameras

LEMMA FollowedIsNotFree == \A track \in SpeedRecords : track # FreeTrack
<1> SUFFICES ASSUME NEW track \in SpeedRecords PROVE track # FreeTrack
  OBVIOUS
<1>1. "seen" \in DOMAIN track
  BY DEF SpeedRecords
<1>2. DOMAIN FreeTrack = {"spot"}
  BY DEF FreeTrack
<1> QED
  BY <1>1, <1>2

LEMMA FramesAreFrames == \A f \in TrapFrames : f # NoFrameHere
BY SpeedNumbers DEF TrapFrames, NoFrameHere

LEMMA TracksInUse ==
  ASSUME SpeedTypes
  PROVE  /\ InUse \subseteq SpeedTracks
         /\ \A t \in InUse : follows[t] \in SpeedRecords
         /\ \A t \in SpeedTracks : follows[t] \in SpeedRecords => t \in InUse
BY FollowedIsNotFree DEF SpeedTypes, InUse

LEMMA SpeedStart == SpeedInit => SpeedInv
<1> SUFFICES ASSUME SpeedInit PROVE SpeedInv
  OBVIOUS
<1>1. InUse = {} /\ measured = {}
  BY DEF SpeedInit, InUse
<1>2. inside \subseteq Road /\ time \in Moments /\ reshapes \in 0..MaxReshapes
  BY SpeedNumbers DEF SpeedInit, Road, Moments
<1>3. SpeedTypes
  BY <1>1, <1>2 DEF SpeedInit, SpeedTypes
<1> QED
  BY <1>1, <1>3 DEF SpeedInv, NeverTooFast

LEMMA TakeFrameKeeps ==
  ASSUME SpeedInv, NEW c \in TrapCameras, NEW seen \in SUBSET Sightings,
         NEW after \in 1..(SpeedTtl + 1), TakeFrame(c, seen, after)
  PROVE  SpeedInv'
<1>1. /\ inFrame = NoFrameHere /\ time' = time + after /\ time + after <= LastFrame
      /\ inFrame' = [camera |-> c, left |-> seen, taken |-> {}] /\ measured' = {}
      /\ UNCHANGED <<inside, reshapes>>
  BY DEF TakeFrame
<1>2. time \in Nat /\ time' \in Moments /\ time < time'
  BY <1>1, SpeedNumbers DEF SpeedInv, SpeedTypes, Moments
<1>3. follows' = [t \in SpeedTracks |->
                    IF t \in InUse /\ time' - follows[t].seen > SpeedTtl
                    THEN FreeTrack ELSE follows[t]]
  BY DEF TakeFrame
<1>4. follows' \in [SpeedTracks -> SpeedRecords \cup {FreeTrack}]
  BY <1>3 DEF SpeedInv, SpeedTypes
<1>5. SpeedTypes'
  BY <1>1, <1>2, <1>4 DEF SpeedInv, SpeedTypes, TrapFrames
<1>6. ASSUME NEW t \in InUse' PROVE TrackTimed(follows[t])'
  <2>1. t \in InUse /\ follows'[t] = follows[t]
    BY <1>3 DEF InUse
  <2>2. TrackTimed(follows[t]) /\ follows[t] \in SpeedRecords
    BY <2>1, TracksInUse DEF SpeedInv
  <2>3. follows[t].seen \in Nat
    BY <2>2 DEF SpeedRecords, Moments
  <2>4. follows[t].seen <= time'
    BY <1>2, <2>2, <2>3 DEF TrackTimed, Moments
  <2>5. ~(Pure(follows[t]) /\ follows[t].counts /\ follows[t].passage.entry = {}
          /\ follows[t].spot \in inside)
    BY <1>1, <2>2 DEF TrackTimed
  <2> QED
    BY <1>1, <2>1, <2>2, <2>4, <2>5 DEF TrackTimed, Pure
<1> QED
  BY <1>1, <1>5, <1>6 DEF SpeedInv, NeverTooFast

\* A detection begins or joins a track.
LEMMA FollowDetectionKeeps ==
  ASSUME SpeedInv, NEW d \in Sightings, NEW counts \in BOOLEAN, FollowDetection(d, counts)
  PROVE  SpeedInv'
<1>1. d \in inFrame.left /\ UNCHANGED <<inside, time, measured, reshapes>>
  BY DEF FollowDetection
<1>2. inFrame \in TrapFrames
  BY <1>1 DEF NoFrameHere, SpeedInv, SpeedTypes
<1>3. /\ inFrame.camera \in TrapCameras /\ inFrame.left \subseteq Sightings
      /\ inFrame.taken \subseteq SpeedTracks
  BY <1>2 DEF TrapFrames
<1>4. d.spot \in Road /\ d.vehicle \in Vehicles
  BY DEF Sightings
<1>5. time \in Moments /\ time \in Nat
  BY DEF SpeedInv, SpeedTypes, Moments
<1>6. PICK t, track :
        /\ t \in SpeedTracks
        /\ follows' = [follows EXCEPT ![t] = track]
        /\ \/ track = Sighted(d, counts)
           \/ t \in InUse /\ track = Joined(follows[t], d, counts)
        /\ \E taken \in SUBSET SpeedTracks :
             inFrame' = [inFrame EXCEPT !.left = inFrame.left \ {d}, !.taken = taken]
  <2>1. CASE Joinable(d.spot) = {}
    <3>1. PICK t \in SpeedTracks \ InUse :
            /\ follows' = [follows EXCEPT ![t] = Sighted(d, counts)]
            /\ inFrame' = [inFrame EXCEPT !.left = inFrame.left \ {d}]
      BY <2>1 DEF FollowDetection
    <3>2. inFrame' = [inFrame EXCEPT !.left = inFrame.left \ {d}, !.taken = inFrame.taken]
      BY <1>2, <3>1 DEF TrapFrames
    <3> QED
      BY <1>3, <3>1, <3>2
  <2>2. CASE Joinable(d.spot) # {}
    <3>1. PICK t \in Joinable(d.spot) :
            /\ follows' = [follows EXCEPT ![t] = Joined(follows[t], d, counts)]
            /\ inFrame' = [inFrame EXCEPT !.left = inFrame.left \ {d},
                                          !.taken = inFrame.taken \cup {t}]
      BY <2>2 DEF FollowDetection
    <3>2. t \in InUse /\ t \in SpeedTracks
      BY <3>1 DEF Joinable, InUse
    <3>3. inFrame.taken \cup {t} \in SUBSET SpeedTracks
      BY <1>3, <3>2
    <3> QED
      BY <3>1, <3>2, <3>3
  <2> QED
    BY <2>1, <2>2
<1>7. inFrame' \in TrapFrames /\ inFrame'.camera = inFrame.camera
  BY <1>2, <1>6 DEF TrapFrames
<1>8. inFrame' # NoFrameHere
  BY <1>7, FramesAreFrames
<1>9. track \in SpeedRecords /\ TrackTimed(track)'
  <2>1. CASE track = Sighted(d, counts)
    <3>1. {d.vehicle} \subseteq Vehicles /\ {inFrame.camera} \subseteq TrapCameras
      BY <1>3, <1>4
    <3>2. NoPassage \in [entry : SUBSET Notes, last : SUBSET Notes]
      BY DEF NoPassage
    <3>3. track \in SpeedRecords
      BY <1>4, <1>5, <2>1, <3>1, <3>2 DEF Sighted, SpeedRecords
    <3>4. /\ track.seen = time /\ track.by = {inFrame.camera} /\ track.passage = NoPassage
      BY <2>1 DEF Sighted
    <3>5. TrackTimed(track)'
      BY <1>1, <1>5, <1>7, <1>8, <3>4 DEF TrackTimed, Pure, NoPassage
    <3> QED
      BY <3>3, <3>5
  <2>2. CASE t \in InUse /\ track = Joined(follows[t], d, counts)
    <3>1. follows[t] \in SpeedRecords /\ TrackTimed(follows[t])
      BY <2>2, TracksInUse DEF SpeedInv
    <3>2. follows[t].of \cup {d.vehicle} \subseteq Vehicles
          /\ follows[t].by \cup {inFrame.camera} \subseteq TrapCameras
      BY <1>3, <1>4, <3>1 DEF SpeedRecords
    <3>3. track \in SpeedRecords
      BY <1>4, <1>5, <2>2, <3>1, <3>2 DEF Joined, SpeedRecords
    <3>4. /\ track.seen = time /\ track.by = follows[t].by \cup {inFrame.camera}
          /\ track.passage = follows[t].passage
          /\ track.redrawn = follows[t].redrawn
      BY <2>2, <3>1 DEF Joined, SpeedRecords
    <3>5. Pure(track) => Pure(follows[t]) /\ inFrame.camera = TrapCamera
      BY <3>1, <3>4 DEF Pure, TrackTimed
    <3>6. TrackTimed(track)'
      BY <1>1, <1>5, <1>7, <1>8, <3>1, <3>4, <3>5 DEF TrackTimed, Pure
    <3> QED
      BY <3>3, <3>6
  <2> QED
    BY <1>6, <2>1, <2>2
<1>10. /\ follows' \in [SpeedTracks -> SpeedRecords \cup {FreeTrack}]
       /\ follows'[t] = track /\ \A u \in SpeedTracks \ {t} : follows'[u] = follows[u]
  BY <1>6, <1>9 DEF SpeedInv, SpeedTypes
<1>11. SpeedTypes'
  BY <1>1, <1>7, <1>10 DEF SpeedInv, SpeedTypes
<1>12. ASSUME NEW u \in InUse' PROVE TrackTimed(follows[u])'
  <2>1. CASE u = t
    BY <1>9, <1>10, <2>1 DEF TrackTimed, Pure
  <2>2. CASE u # t
    <3>1. u \in InUse /\ follows'[u] = follows[u]
      BY <1>10, <2>2 DEF InUse
    <3>2. TrackTimed(follows[u])
      BY <3>1 DEF SpeedInv
    <3> QED
      BY <1>1, <1>7, <1>8, <3>1, <3>2 DEF TrackTimed, Pure
  <2> QED
    BY <2>1, <2>2
<1>13. NeverTooFast'
  BY <1>1 DEF SpeedInv, NeverTooFast, MixedUp
<1> QED
  BY <1>11, <1>12, <1>13 DEF SpeedInv

\* The notes of a track that is compared with the zone.
LEMMA NextPassageTimed ==
  ASSUME SpeedInv, NEW t \in InUse, Compares(t)
  PROVE  /\ NextPassage(t) \in [entry : SUBSET Notes, last : SUBSET Notes]
         /\ \A n \in NextPassage(t).entry \cup NextPassage(t).last : n.seen <= n.ts
         /\ Pure(follows[t]) => \A e \in NextPassage(t).entry : e.ts = e.seen
         /\ follows[t].spot \in inside => NextPassage(t).entry # {}
<1>1. follows[t] \in SpeedRecords /\ TrackTimed(follows[t])
  BY TracksInUse DEF SpeedInv
<1>2. PICK note : note = Noted(t)
  OBVIOUS
<1>3. /\ note \in Notes /\ note.ts = time /\ note.seen = follows[t].seen
      /\ note.seen <= note.ts
  BY <1>1, <1>2 DEF Noted, Notes, SpeedRecords, SpeedInv, SpeedTypes, TrackTimed
<1>4. CASE InZone(t) /\ ~Passing(t)
  <2>1. NextPassage(t) = [entry |-> {note}, last |-> {note}]
    BY <1>2, <1>4 DEF NextPassage
  <2>2. Pure(follows[t]) => follows[t].seen = time
    BY <1>1, <1>4 DEF TrackTimed, InZone, Passing, Compares
  <2> QED
    BY <1>3, <2>1, <2>2
<1>5. CASE InZone(t) /\ Passing(t)
  <2>1. NextPassage(t) = [follows[t].passage EXCEPT !.last = {note}]
    BY <1>2, <1>5 DEF NextPassage
  <2>2. follows[t].passage \in [entry : SUBSET Notes, last : SUBSET Notes]
    BY <1>1 DEF SpeedRecords
  <2>3. NextPassage(t) \in [entry : SUBSET Notes, last : SUBSET Notes]
    BY <1>3, <2>1, <2>2
  <2>4. NextPassage(t).entry = follows[t].passage.entry /\ NextPassage(t).last = {note}
    BY <2>1, <2>2
  <2> QED
    BY <1>1, <1>3, <1>5, <2>3, <2>4 DEF TrackTimed, Passing
<1>6. CASE ~InZone(t)
  <2>1. NextPassage(t) = NoPassage
    BY <1>6 DEF NextPassage
  <2> QED
    BY <1>6, <2>1 DEF NoPassage, InZone
<1> QED
  BY <1>4, <1>5, <1>6

LEMMA HandleZonesKeeps == ASSUME SpeedInv, HandleZones PROVE SpeedInv'
<1>1. /\ inFrame # NoFrameHere /\ inFrame' = NoFrameHere
      /\ UNCHANGED <<inside, time, reshapes>>
  BY DEF HandleZones
<1>2. follows' = [t \in SpeedTracks |->
                    IF Compares(t) THEN [follows[t] EXCEPT !.passage = NextPassage(t)]
                                   ELSE follows[t]]
  BY DEF HandleZones
<1>3. ASSUME NEW t \in InUse
      PROVE  follows'[t] \in SpeedRecords /\ TrackTimed(follows[t])'
  <2>1. t \in SpeedTracks /\ follows[t] \in SpeedRecords /\ TrackTimed(follows[t])
    BY TracksInUse DEF SpeedInv
  <2>2. CASE Compares(t)
    <3>1. PICK next \in [entry : SUBSET Notes, last : SUBSET Notes] :
            /\ next = NextPassage(t)
            /\ \A n \in next.entry \cup next.last : n.seen <= n.ts
            /\ Pure(follows[t]) => \A e \in next.entry : e.ts = e.seen
            /\ follows[t].spot \in inside => next.entry # {}
      BY <2>2, NextPassageTimed
    <3>2. PICK track : track = [follows[t] EXCEPT !.passage = next]
      OBVIOUS
    <3>3. track \in SpeedRecords
      BY <2>1, <3>2 DEF SpeedRecords
    <3>4. /\ track.passage = next /\ track.seen = follows[t].seen
          /\ track.by = follows[t].by /\ track.spot = follows[t].spot
      BY <2>1, <3>2 DEF SpeedRecords
    <3>5. track.redrawn = follows[t].redrawn
      BY <2>1, <3>2 DEF SpeedRecords
    <3>6. follows'[t] = track
      BY <1>2, <2>1, <2>2, <3>1, <3>2
    <3>7. TrackTimed(track)'
      BY <1>1, <2>1, <3>1, <3>4, <3>5 DEF TrackTimed, Pure
    <3> QED
      BY <3>3, <3>6, <3>7 DEF TrackTimed, Pure
  <2>3. CASE ~Compares(t)
    <3>1. follows'[t] = follows[t]
      BY <1>2, <2>1, <2>3
    <3>2. ~(Pure(follows[t]) /\ follows[t].counts /\ follows[t].passage.entry = {}
            /\ follows[t].spot \in inside)
      BY <2>1, <2>3 DEF TrackTimed, Compares
    <3> QED
      BY <1>1, <2>1, <3>1, <3>2 DEF TrackTimed, Pure
  <2> QED
    BY <2>2, <2>3
<1>4. \A t \in SpeedTracks \ InUse : follows'[t] = FreeTrack
  BY <1>2 DEF InUse, Compares
<1>5. follows' \in [SpeedTracks -> SpeedRecords \cup {FreeTrack}]
  BY <1>2, <1>3, <1>4
<1>6. InUse' \subseteq InUse
  BY <1>4 DEF InUse
<1>7. ASSUME NEW m \in measured'
      PROVE  /\ m.from \in Notes /\ m.to \in Notes /\ m.track \in SpeedRecords
             /\ MixedUp(m) \/ m.to.ts - m.from.ts >= m.to.seen - m.from.seen
  <2>1. PICK t \in SpeedTracks : Compares(t) /\ m \in Measures(t)
    BY DEF HandleZones
  <2>2. follows[t] \in SpeedRecords /\ TrackTimed(follows[t])
    BY <2>1, TracksInUse DEF SpeedInv, Compares
  <2>3. PICK entry \in follows[t].passage.entry, last \in follows[t].passage.last :
          m = [track |-> follows[t], from |-> entry, to |-> last]
    BY <2>1 DEF Measures, ExitNote
  <2>4. entry \in Notes /\ last \in Notes
    BY <2>2, <2>3 DEF SpeedRecords
  <2>5. /\ entry.ts \in Nat /\ entry.seen \in Nat /\ last.ts \in Nat /\ last.seen \in Nat
    BY <2>4 DEF Notes, Moments
  <2>6. last.seen <= last.ts
    BY <2>2, <2>3 DEF TrackTimed
  <2>7. CASE Pure(follows[t])
    <3>1. entry.ts = entry.seen
      BY <2>2, <2>3, <2>7 DEF TrackTimed
    <3>2. last.ts - entry.ts >= last.seen - entry.seen
      BY <2>5, <2>6, <3>1
    <3> QED
      BY <2>2, <2>3, <2>4, <3>2
  <2>8. CASE ~Pure(follows[t])
    BY <2>2, <2>3, <2>4, <2>8 DEF MixedUp, Pure
  <2> QED
    BY <2>7, <2>8
<1>8. SpeedTypes'
  BY <1>1, <1>5, <1>7 DEF SpeedInv, SpeedTypes
<1>9. NeverTooFast'
  BY <1>7 DEF NeverTooFast, MixedUp
<1> QED
  BY <1>3, <1>6, <1>8, <1>9 DEF SpeedInv

LEMMA ReshapeKeeps ==
  ASSUME SpeedInv, NEW spots \in SUBSET Road, Reshape(spots)
  PROVE  SpeedInv'
<1>1. /\ inside' = spots /\ measured' = {} /\ reshapes' = reshapes + 1
      /\ reshapes < MaxReshapes /\ UNCHANGED <<inFrame, time>>
  BY DEF Reshape
<1>2. follows' = [t \in SpeedTracks |->
                    IF t \in InUse THEN [follows[t] EXCEPT !.redrawn = TRUE]
                                   ELSE follows[t]]
  BY DEF Reshape
<1>3. ASSUME NEW t \in InUse
      PROVE  follows'[t] \in SpeedRecords /\ TrackTimed(follows[t])'
  <2>1. t \in SpeedTracks /\ follows[t] \in SpeedRecords /\ TrackTimed(follows[t])
    BY TracksInUse DEF SpeedInv
  <2>2. PICK track : track = [follows[t] EXCEPT !.redrawn = TRUE]
    OBVIOUS
  <2>3. track \in SpeedRecords
    BY <2>1, <2>2 DEF SpeedRecords
  <2>4. /\ track.passage = follows[t].passage /\ track.seen = follows[t].seen
        /\ track.by = follows[t].by
    BY <2>1, <2>2 DEF SpeedRecords
  <2>5. track.redrawn
    BY <2>1, <2>2 DEF SpeedRecords
  <2>6. follows'[t] = track
    BY <1>2, <2>1, <2>2
  <2> QED
    BY <1>1, <2>1, <2>3, <2>4, <2>5, <2>6 DEF TrackTimed, Pure
<1>4. \A t \in SpeedTracks \ InUse : follows'[t] = FreeTrack
  BY <1>2 DEF InUse
<1>5. follows' \in [SpeedTracks -> SpeedRecords \cup {FreeTrack}]
  BY <1>2, <1>3, <1>4
<1>6. InUse' \subseteq InUse
  BY <1>4 DEF InUse
<1>7. reshapes' \in 0..MaxReshapes
  BY <1>1, SpeedNumbers DEF SpeedInv, SpeedTypes
<1>8. SpeedTypes'
  BY <1>1, <1>5, <1>7 DEF SpeedInv, SpeedTypes
<1> QED
  BY <1>1, <1>3, <1>6, <1>8 DEF SpeedInv, NeverTooFast

LEMMA SpeedStep == SpeedInv /\ [SpeedNext]_speedVars => SpeedInv'
<1> SUFFICES ASSUME SpeedInv, [SpeedNext]_speedVars PROVE SpeedInv'
  OBVIOUS
<1>1. ASSUME NEW c \in TrapCameras, NEW seen \in FramesShown,
             NEW after \in 1..(SpeedTtl + 1), TakeFrame(c, seen, after)
      PROVE  SpeedInv'
  <2>1. seen \in SUBSET Sightings
    BY DEF FramesShown, kSubset
  <2> QED
    BY <1>1, <2>1, TakeFrameKeeps
<1>2. ASSUME NEW k \in 0..(RoadEnd - 1), Reshape(1..k) PROVE SpeedInv'
  <2>1. 1..k \in SUBSET Road
    BY SpeedNumbers DEF Road
  <2> QED
    BY <1>2, <2>1, ReshapeKeeps
<1>3. CASE UNCHANGED speedVars
  BY <1>3 DEF speedVars, SpeedInv, SpeedTypes, InUse, TrackTimed, Pure, NeverTooFast,
              MixedUp
<1> QED
  BY <1>1, <1>2, <1>3, FollowDetectionKeeps, HandleZonesKeeps DEF SpeedNext

LEMMA SpeedInvAlways == SpeedSpec => []SpeedInv
<1>1. SpeedInit => SpeedInv
  BY SpeedStart
<1>2. SpeedInv /\ [SpeedNext]_speedVars => SpeedInv'
  BY SpeedStep
<1> QED
  BY <1>1, <1>2, PTL DEF SpeedSpec

\* The tracks, notes and measures of the speed trap are what they may be.
THEOREM SpeedTypeAlwaysOK == SpeedSpec => []SpeedTypeOK
<1>1. SpeedInv => SpeedTypeOK
  <2> SUFFICES ASSUME SpeedInv PROVE SpeedTypeOK
    OBVIOUS
  <2>1. \A track \in SpeedRecords : IsTrack(track)
    BY DEF SpeedRecords, IsTrack
  <2>2. /\ inFrame.camera \in TrapCameras \cup {NoTrap}
        /\ inFrame.left \subseteq Sightings /\ inFrame.taken \subseteq SpeedTracks
    BY DEF SpeedInv, SpeedTypes, TrapFrames, NoFrameHere
  <2>3. \A t \in InUse : IsTrack(follows[t])
    BY <2>1, TracksInUse DEF SpeedInv
  <2> QED
    BY <2>1, <2>2, <2>3 DEF SpeedInv, SpeedTypes, SpeedTypeOK
<1> QED
  BY <1>1, SpeedInvAlways, PTL

\* A track that nothing was mixed into is reported no faster than it was seen to go: its
\* entry is timed by the frame that showed it (SpeedPlugin._try_measure_speed).
THEOREM NeverEverTooFast == SpeedSpec => []NeverTooFast
<1>1. SpeedInv => NeverTooFast
  BY DEF SpeedInv
<1> QED
  BY <1>1, SpeedInvAlways, PTL

(***************************************************************************)
(* AlprIngest: no reading is lost. The inductive invariant says which      *)
(* reading holds the key of deduplication, and what a reading that was     *)
(* answered had become by then.                                            *)
(***************************************************************************)
AlprAnswers == {"none", "error"} \union Final
AlprPlaces == {"camera", "parse", "claim", "image", "publish", "commit", "link", "other"}

AlprTypes ==
  /\ route \in [Readings -> Routes] /\ kind \in [Readings -> ReadingKinds]
  /\ at \in [Readings -> AlprPlaces] /\ told \in [Readings -> AlprAnswers]
  /\ sends \in [Readings -> Nat] /\ plates \in [Readings -> Nat]
  /\ holder \in Readings \union {NoReading} /\ left \in 0..DedupTtl
  /\ dupOf \in [Readings -> Readings \union {NoReading}]
  /\ others \subseteq Readings /\ ledger \subseteq Readings
  /\ announced \subseteq Readings /\ broken \subseteq Readings

\* Once a reading has taken the key, it is stored, will be, or its request failed.
Kept(r) == Stored(r) \/ InWork(r) \/ r \in broken

\* What was answered for a reading, and how often it was stored, goes by what was done.
AnsweredTruly(r) ==
  /\ dupOf[r] # NoReading => Kept(dupOf[r])
  /\ dupOf[r] = NoReading /\ told[r] = "ok" /\ kind[r] = "plate" =>
       Stored(r) \/ r \in others
  /\ at[r] = "link" => Stored(r)

StoredOncePerTry(r) ==
  /\ plates[r] <= sends[r] /\ sends[r] <= MaxSends
  /\ at[r] \in {"parse", "claim", "image", "publish", "commit"} => plates[r] < sends[r]

\* The key is there as long as it has time left, and whoever set it is kept.
KeyTold ==
  /\ holder = NoReading <=> left = 0
  /\ holder # NoReading => Kept(holder)

\* The inductive invariant of readings and their events.
AlprInv ==
  /\ AlprTypes /\ KeyTold
  /\ \A r \in announced : Kept(r)
  /\ \A r \in Readings : AnsweredTruly(r) /\ StoredOncePerTry(r)

\* A step of the request of one reading.
ReadingStep(r) ==
  \/ SendReading(r) \/ ParseFails(r) \/ Unidentified(r) \/ StoreLedger(r) \/ NotAPlate(r)
  \/ TooWeak(r) \/ ClaimKey(r) \/ Duplicate(r) \/ InsertEvent(r) \/ PublishAlpr(r)
  \/ CommitAlpr(r) \/ LinkAndNotify(r) \/ ClaimRaises(r) \/ ClaimInDoubt(r)
  \/ IngestRaises(r) \/ StoreOther(r) \/ OtherFails(r) \/ RequestDies(r)

LEMMA AlprStart == AlprInit => AlprInv
<1> SUFFICES ASSUME AlprInit PROVE AlprInv
  OBVIOUS
<1>1. AlprTypes
  BY AlprAssumption DEF AlprInit, AlprTypes, AlprPlaces, AlprAnswers
<1>2. KeyTold /\ \A r \in announced : Kept(r)
  BY DEF AlprInit, KeyTold
<1>3. ASSUME NEW r \in Readings PROVE AnsweredTruly(r) /\ StoredOncePerTry(r)
  <2>1. at[r] = "camera" /\ told[r] = "none" /\ dupOf[r] = NoReading
    BY DEF AlprInit
  <2>2. plates[r] = 0 /\ sends[r] = 0 /\ MaxSends \in Nat
    BY AlprAssumption DEF AlprInit
  <2>3. AnsweredTruly(r)
    BY <2>1 DEF AnsweredTruly
  <2>4. StoredOncePerTry(r)
    BY <2>1, <2>2 DEF StoredOncePerTry
  <2> QED
    BY <2>3, <2>4
<1> QED
  BY <1>1, <1>2, <1>3 DEF AlprInv

\* A step changes what is known of its own reading only, and forgets no failure.
LEMMA ReadingFrame ==
  ASSUME AlprTypes, NEW r \in Readings, ReadingStep(r)
  PROVE  /\ UNCHANGED <<route, kind>>
         /\ \A q \in Readings \ {r} :
              /\ at'[q] = at[q] /\ told'[q] = told[q] /\ dupOf'[q] = dupOf[q]
              /\ plates'[q] = plates[q] /\ sends'[q] = sends[q]
         /\ \A q \in Readings \ {r} : q \in broken => q \in broken'
         /\ others \subseteq others'
         /\ announced \subseteq announced' /\ announced' \subseteq announced \cup {r}
<1>1. CASE SendReading(r) \/ ParseFails(r) \/ Unidentified(r) \/ StoreLedger(r)
           \/ NotAPlate(r)
  BY <1>1 DEF SendReading, ParseFails, Unidentified, StoreLedger, NotAPlate, AlprTypes,
              Moves, Answers
<1>2. CASE TooWeak(r) \/ ClaimKey(r) \/ Duplicate(r) \/ InsertEvent(r) \/ PublishAlpr(r)
  BY <1>2 DEF TooWeak, ClaimKey, Duplicate, InsertEvent, PublishAlpr, AlprTypes,
              Moves, Answers
<1>3. CASE CommitAlpr(r) \/ LinkAndNotify(r) \/ StoreOther(r) \/ OtherFails(r)
           \/ RequestDies(r)
  BY <1>3 DEF CommitAlpr, LinkAndNotify, StoreOther, OtherFails, RequestDies, AlprTypes,
              Moves, Answers
<1>4. CASE ClaimRaises(r) \/ ClaimInDoubt(r) \/ IngestRaises(r)
  BY <1>4 DEF ClaimRaises, ClaimInDoubt, IngestRaises, AfterException, AlprTypes, Moves,
              Answers
<1> QED
  BY <1>1, <1>2, <1>3, <1>4 DEF ReadingStep

LEMMA ReadingTypes ==
  ASSUME AlprInv, NEW r \in Readings, ReadingStep(r)
  PROVE  AlprTypes'
<1> USE DEF AlprInv, Moves, Answers, AlprAnswers, Final
<1>1. CASE SendReading(r)
  BY <1>1 DEF SendReading, AlprTypes, AlprPlaces
<1>2. CASE ParseFails(r) \/ Unidentified(r) \/ StoreLedger(r) \/ NotAPlate(r)
  BY <1>2 DEF ParseFails, Unidentified, StoreLedger, NotAPlate, AlprTypes, AlprPlaces
<1>3. CASE TooWeak(r) \/ Duplicate(r) \/ InsertEvent(r) \/ PublishAlpr(r)
  BY <1>3 DEF TooWeak, Duplicate, InsertEvent, PublishAlpr, AlprTypes, AlprPlaces
<1>4. CASE ClaimKey(r)
  BY <1>4, AlprAssumption DEF ClaimKey, AlprTypes, AlprPlaces
<1>5. CASE CommitAlpr(r)
  BY <1>5 DEF CommitAlpr, AlprTypes, AlprPlaces
<1>6. CASE LinkAndNotify(r) \/ StoreOther(r) \/ OtherFails(r) \/ RequestDies(r)
  BY <1>6 DEF LinkAndNotify, StoreOther, OtherFails, RequestDies, AlprTypes, AlprPlaces
<1>7. CASE ClaimRaises(r) \/ IngestRaises(r)
  BY <1>7 DEF ClaimRaises, IngestRaises, AfterException, AlprTypes, AlprPlaces
<1>8. CASE ClaimInDoubt(r)
  BY <1>8, AlprAssumption DEF ClaimInDoubt, AfterException, AlprTypes, AlprPlaces
<1> QED
  BY <1>1, <1>2, <1>3, <1>4, <1>5, <1>6, <1>7, <1>8 DEF ReadingStep

\* Whatever happens to the request of a reading that is kept, it stays kept.
LEMMA KeptStays ==
  ASSUME AlprInv, NEW r \in Readings, ReadingStep(r), NEW q \in Readings, Kept(q)
  PROVE  Kept(q)'
<1>1. CASE q # r
  BY <1>1, ReadingFrame DEF AlprInv, Kept, Stored, InWork
<1>2. CASE q = r /\ ~InWork(r)
  <2>1. plates'[r] >= plates[r] /\ plates[r] \in Nat /\ plates'[r] \in Nat
    <3>1. plates[r] \in Nat /\ plates'[r] \in {plates[r], plates[r] + 1}
      BY DEF AlprInv, AlprTypes, ReadingStep, SendReading, ParseFails, Unidentified,
             StoreLedger, NotAPlate, TooWeak, ClaimKey, Duplicate, InsertEvent,
             PublishAlpr, CommitAlpr, LinkAndNotify, ClaimRaises, ClaimInDoubt,
             IngestRaises, StoreOther, OtherFails, RequestDies
    <3> QED
      BY <3>1
  <2>2. r \in broken => r \in broken'
    BY <1>2
    DEF InWork, ReadingStep, SendReading, ParseFails, Unidentified, StoreLedger,
        NotAPlate, TooWeak, ClaimKey, Duplicate, InsertEvent, PublishAlpr, CommitAlpr,
        LinkAndNotify, ClaimRaises, ClaimInDoubt, IngestRaises, StoreOther, OtherFails,
        RequestDies
  <2> QED
    BY <1>2, <2>1, <2>2 DEF Kept, Stored
<1>3. CASE q = r /\ InWork(r)
  <2>1. \/ InsertEvent(r) \/ PublishAlpr(r) \/ CommitAlpr(r) \/ IngestRaises(r)
        \/ RequestDies(r)
    BY <1>3 DEF InWork, ReadingStep, SendReading, ParseFails, Unidentified, StoreLedger,
                NotAPlate, TooWeak, ClaimKey, Duplicate, LinkAndNotify, ClaimRaises,
                ClaimInDoubt, StoreOther, OtherFails
  <2>2. CASE InsertEvent(r) \/ PublishAlpr(r)
    BY <1>3, <2>2
    DEF AlprInv, AlprTypes, InsertEvent, PublishAlpr, Moves, Kept, InWork
  <2>3. CASE CommitAlpr(r)
    <3>1. plates'[r] = plates[r] + 1 /\ plates[r] \in Nat
      BY <2>3 DEF AlprInv, AlprTypes, CommitAlpr
    <3>2. Stored(r)'
      BY <3>1 DEF Stored
    <3> QED
      BY <1>3, <3>2 DEF Kept
  <2>4. CASE IngestRaises(r) \/ RequestDies(r)
    <3>1. Stored(r) => Stored(r)'
      BY <2>4 DEF IngestRaises, RequestDies, Stored
    <3> QED
      BY <1>3, <2>4, <3>1 DEF IngestRaises, RequestDies, Kept
  <2> QED
    BY <2>1, <2>2, <2>3, <2>4
<1> QED
  BY <1>1, <1>2, <1>3

LEMMA ReadingKeeps ==
  ASSUME AlprInv, NEW r \in Readings, ReadingStep(r)
  PROVE  AlprInv'
<1>1. AlprTypes'
  BY ReadingTypes
<1>2. \A q \in Readings : Kept(q) => Kept(q)'
  BY KeptStays
<1>3. KeyTold'
  <2>1. CASE ClaimKey(r)
    <3>1. holder' = r /\ left' = DedupTtl /\ at'[r] = "image"
      BY <2>1 DEF ClaimKey, Moves, AlprInv, AlprTypes
    <3>2. Kept(r)'
      BY <3>1 DEF Kept, InWork
    <3> QED
      BY <3>1, <3>2, AlprAssumption DEF KeyTold
  <2>2. CASE ClaimInDoubt(r)
    <3>1. /\ holder' = r /\ left' = DedupTtl /\ plates' = plates
          /\ ~Stored(r) => r \in broken'
      BY <2>2 DEF ClaimInDoubt
    <3>2. Kept(r)'
      BY <3>1 DEF Kept, Stored
    <3> QED
      BY <3>1, <3>2, AlprAssumption DEF KeyTold
  <2>3. CASE ~ClaimKey(r) /\ ~ClaimInDoubt(r)
    <3>1. UNCHANGED <<holder, left>>
      BY <2>3 DEF ReadingStep, SendReading, ParseFails, Unidentified, StoreLedger,
                  NotAPlate, TooWeak, Duplicate, InsertEvent, PublishAlpr, CommitAlpr,
                  LinkAndNotify, ClaimRaises, IngestRaises, StoreOther, OtherFails,
                  RequestDies
    <3>2. PICK h \in Readings \union {NoReading} : h = holder
      BY DEF AlprInv, AlprTypes
    <3>3. h # NoReading => Kept(h)
      BY <3>2 DEF AlprInv, KeyTold, Kept, Stored, InWork
    <3>4. h # NoReading => Kept(h)'
      BY <1>2, <3>2, <3>3
    <3>5. holder' # NoReading => Kept(holder)'
      BY <3>1, <3>2, <3>4 DEF Kept, Stored, InWork
    <3> QED
      BY <3>1, <3>5 DEF AlprInv, KeyTold
  <2> QED
    BY <2>1, <2>2, <2>3
<1>4. \A q \in announced' : Kept(q)'
  <2>1. ASSUME NEW q \in announced PROVE Kept(q)'
    BY <1>2 DEF AlprInv, AlprTypes
  <2>2. CASE PublishAlpr(r)
    <3>1. at'[r] = "commit" /\ announced' = announced \union {r}
      BY <2>2 DEF PublishAlpr, Moves, AlprInv, AlprTypes
    <3>2. Kept(r)'
      BY <3>1 DEF Kept, InWork
    <3> QED
      BY <2>1, <3>1, <3>2
  <2>3. CASE ~PublishAlpr(r)
    <3>1. announced' = announced
      BY <2>3 DEF ReadingStep, SendReading, ParseFails, Unidentified, StoreLedger,
                  NotAPlate, TooWeak, ClaimKey, Duplicate, InsertEvent, CommitAlpr,
                  LinkAndNotify, ClaimRaises, ClaimInDoubt, IngestRaises, StoreOther,
                  OtherFails, RequestDies
    <3> QED
      BY <2>1, <3>1
  <2> QED
    BY <2>2, <2>3
<1>5. ASSUME NEW q \in Readings PROVE (dupOf[q] # NoReading => Kept(dupOf[q]))'
  <2>1. CASE dupOf'[q] = dupOf[q]
    <3>1. PICK d \in Readings \union {NoReading} : d = dupOf[q]
      BY DEF AlprInv, AlprTypes
    <3>2. d # NoReading => Kept(d)
      BY <3>1 DEF AlprInv, AnsweredTruly, Kept, Stored, InWork
    <3>3. d # NoReading => Kept(d)'
      BY <1>2, <3>1, <3>2
    <3> QED
      BY <2>1, <3>1, <3>3 DEF Kept, Stored, InWork
  <2>2. CASE dupOf'[q] # dupOf[q]
    <3>1. q = r /\ Duplicate(r)
      BY <2>2, ReadingFrame
      DEF AlprInv, ReadingStep, SendReading, ParseFails, Unidentified, StoreLedger,
          NotAPlate, TooWeak, ClaimKey, InsertEvent, PublishAlpr, CommitAlpr,
          LinkAndNotify, ClaimRaises, ClaimInDoubt, IngestRaises, StoreOther, OtherFails,
          RequestDies
    <3>2. PICK h \in Readings \union {NoReading} : h = holder
      BY DEF AlprInv, AlprTypes
    <3>3. dupOf'[r] = h
      BY <3>1, <3>2 DEF Duplicate, AlprInv, AlprTypes
    <3>4. h # NoReading => Kept(h)
      BY <3>2 DEF AlprInv, KeyTold, Kept, Stored, InWork
    <3>5. h # NoReading => Kept(h)'
      BY <1>2, <3>2, <3>4
    <3> QED
      BY <3>1, <3>3, <3>5 DEF Kept, Stored, InWork
  <2> QED
    BY <2>1, <2>2
<1>6. ASSUME NEW q \in Readings PROVE AnsweredTruly(q)'
  <2>1. CASE q # r
    <3>1. AnsweredTruly(q)
      BY DEF AlprInv
    <3>2. /\ at'[q] = at[q] /\ told'[q] = told[q] /\ dupOf'[q] = dupOf[q]
          /\ plates'[q] = plates[q] /\ others \subseteq others' /\ kind' = kind
      BY <2>1, ReadingFrame DEF AlprInv
    <3> QED
      BY <1>5, <3>1, <3>2 DEF AnsweredTruly, Stored
  <2>2. CASE q = r
    <3>1. /\ AnsweredTruly(r) /\ plates[r] \in Nat /\ (holder # NoReading <=> left > 0)
          /\ told[r] \in AlprAnswers /\ at[r] \in AlprPlaces
          /\ kind[r] \in ReadingKinds
      BY DEF AlprInv, AlprTypes, KeyTold
    <3>2. CASE SendReading(r) \/ ParseFails(r) \/ Unidentified(r) \/ StoreLedger(r)
      BY <1>5, <2>2, <3>1, <3>2
      DEF SendReading, ParseFails, Unidentified, StoreLedger, Moves, Answers, AlprInv,
          AlprTypes, AnsweredTruly, Stored
    <3>3. CASE NotAPlate(r) \/ TooWeak(r) \/ InsertEvent(r) \/ PublishAlpr(r)
      BY <1>5, <2>2, <3>1, <3>3
      DEF NotAPlate, TooWeak, InsertEvent, PublishAlpr, Moves, Answers, AlprInv,
          AlprTypes, AnsweredTruly, Stored
    <3>4. CASE ClaimKey(r)
      BY <1>5, <2>2, <3>1, <3>4
      DEF ClaimKey, Moves, Answers, AlprInv, AlprTypes, AnsweredTruly, Stored
    <3>5. CASE Duplicate(r)
      BY <1>5, <2>2, <3>1, <3>5
      DEF Duplicate, Moves, Answers, AlprInv, AlprTypes, AnsweredTruly, Stored
    <3>6. CASE CommitAlpr(r)
      <4>1. plates'[r] = plates[r] + 1
        BY <3>6 DEF CommitAlpr, AlprInv, AlprTypes
      <4>2. Stored(r)'
        BY <3>1, <4>1 DEF Stored
      <4>3. at'[r] # "other"
        BY <3>6 DEF CommitAlpr, AlprInv, AlprTypes, Moves, Answers
      <4> QED
        BY <1>5, <2>2, <4>2, <4>3 DEF AnsweredTruly
    <3>7. CASE LinkAndNotify(r) \/ StoreOther(r)
      BY <1>5, <2>2, <3>1, <3>7
      DEF LinkAndNotify, StoreOther, Moves, Answers, AlprInv, AlprTypes, AnsweredTruly,
          Stored
    <3>8. CASE OtherFails(r) \/ RequestDies(r)
      BY <1>5, <2>2, <3>1, <3>8
      DEF OtherFails, RequestDies, Moves, Answers, AlprInv, AlprTypes, AnsweredTruly,
          Stored
    <3>9. CASE ClaimRaises(r) \/ ClaimInDoubt(r) \/ IngestRaises(r)
      BY <1>5, <2>2, <3>1, <3>9
      DEF ClaimRaises, ClaimInDoubt, IngestRaises, AfterException, Moves, Answers, AlprInv,
          AlprTypes, AnsweredTruly, Stored
    <3> QED
      BY <3>2, <3>3, <3>4, <3>5, <3>6, <3>7, <3>8, <3>9 DEF ReadingStep
  <2> QED
    BY <2>1, <2>2
<1>7. ASSUME NEW q \in Readings PROVE StoredOncePerTry(q)'
  <2>1. CASE q # r
    <3>1. /\ at'[q] = at[q] /\ sends'[q] = sends[q] /\ plates'[q] = plates[q]
          /\ StoredOncePerTry(q)
      BY <2>1, ReadingFrame DEF AlprInv
    <3> QED
      BY <3>1 DEF StoredOncePerTry
  <2>2. CASE q = r
    <3>1. /\ StoredOncePerTry(r) /\ plates[r] \in Nat /\ sends[r] \in Nat
          /\ MaxSends \in Nat
      BY AlprAssumption DEF AlprInv, AlprTypes
    <3>2. CASE SendReading(r)
      <4>1. sends[r] < MaxSends /\ sends'[r] = sends[r] + 1 /\ plates'[r] = plates[r]
        BY <3>2 DEF SendReading, AlprInv, AlprTypes
      <4> QED
        BY <2>2, <3>1, <4>1 DEF StoredOncePerTry
    <3>3. CASE CommitAlpr(r)
      <4>1. /\ at[r] = "commit" /\ plates'[r] = plates[r] + 1 /\ sends'[r] = sends[r]
            /\ at'[r] \in {"link", "camera"}
        BY <3>3 DEF CommitAlpr, AlprInv, AlprTypes, Moves, Answers
      <4> QED
        BY <2>2, <3>1, <4>1 DEF StoredOncePerTry
    <3>4. CASE ~SendReading(r) /\ ~CommitAlpr(r)
      <4>1. plates'[r] = plates[r] /\ sends'[r] = sends[r]
        BY <3>4
        DEF ReadingStep, ParseFails, Unidentified, StoreLedger, NotAPlate, TooWeak,
            ClaimKey, Duplicate, InsertEvent, PublishAlpr, LinkAndNotify, ClaimRaises,
            ClaimInDoubt, IngestRaises, StoreOther, OtherFails, RequestDies
      <4>2. at'[r] \in {"parse", "claim", "image", "publish", "commit"} =>
              at[r] \in {"parse", "claim", "image", "publish", "commit"}
        BY <3>4
        DEF ReadingStep, ParseFails, Unidentified, StoreLedger, NotAPlate, TooWeak,
            ClaimKey, Duplicate, InsertEvent, PublishAlpr, LinkAndNotify, ClaimRaises,
            ClaimInDoubt, IngestRaises, StoreOther, OtherFails, RequestDies,
            AfterException, InWork, Moves, Answers, AlprInv, AlprTypes
      <4> QED
        BY <2>2, <3>1, <4>1, <4>2 DEF StoredOncePerTry
    <3> QED
      BY <3>2, <3>3, <3>4
  <2> QED
    BY <2>1, <2>2
<1> QED
  BY <1>1, <1>3, <1>4, <1>6, <1>7 DEF AlprInv

LEMMA KeyAgesKeeps == ASSUME AlprInv, KeyAges PROVE AlprInv'
<1>1. AlprTypes'
  BY AlprAssumption DEF AlprInv, AlprTypes, KeyAges
<1>2. KeyTold'
  BY AlprAssumption DEF AlprInv, AlprTypes, KeyAges, KeyTold, Kept, Stored, InWork
<1>3. UNCHANGED <<kind, at, sends, told, dupOf, plates, others, announced,
                broken>>
  BY DEF KeyAges
<1> QED
  BY <1>1, <1>2, <1>3
  DEF AlprInv, AnsweredTruly, StoredOncePerTry, Kept, Stored, InWork

LEMMA AlprStep == AlprInv /\ [AlprNext]_alprVars => AlprInv'
<1> SUFFICES ASSUME AlprInv, [AlprNext]_alprVars PROVE AlprInv'
  OBVIOUS
<1>1. ASSUME NEW r \in Readings, ReadingStep(r) PROVE AlprInv'
  BY <1>1, ReadingKeeps
<1>2. CASE KeyAges
  BY <1>2, KeyAgesKeeps
<1>3. CASE UNCHANGED alprVars
  BY <1>3 DEF alprVars, AlprInv, AlprTypes, KeyTold, AnsweredTruly, StoredOncePerTry,
              Kept, Stored, InWork
<1> QED
  BY <1>1, <1>2, <1>3 DEF AlprNext, ReadingStep

LEMMA AlprInvAlways == AlprSpec => []AlprInv
<1>1. AlprInit => AlprInv
  BY AlprStart
<1>2. AlprInv /\ [AlprNext]_alprVars => AlprInv'
  BY AlprStep
<1> QED
  BY <1>1, <1>2, PTL DEF AlprSpec

\* The variables of the ingestion of plates hold what they may; no reading is stored
\* more often than it was sent.
THEOREM AlprTypeAlwaysOK == AlprSpec => []AlprTypeOK
<1>1. AlprInv => AlprTypeOK
  <2> SUFFICES ASSUME AlprInv PROVE AlprTypeOK
    OBVIOUS
  <2>1. ASSUME NEW r \in Readings
        PROVE  sends[r] \in 0..MaxSends /\ plates[r] \in 0..MaxSends
    <3>1. sends[r] \in Nat /\ plates[r] \in Nat /\ MaxSends \in Nat
      BY AlprAssumption DEF AlprInv, AlprTypes
    <3>2. plates[r] <= sends[r] /\ sends[r] <= MaxSends
      BY DEF AlprInv, StoredOncePerTry
    <3> QED
      BY <3>1, <3>2
  <2>2. sends \in [Readings -> 0..MaxSends] /\ plates \in [Readings -> 0..MaxSends]
    BY <2>1 DEF AlprInv, AlprTypes
  <2> QED
    BY <2>2 DEF AlprInv, AlprTypes, AlprPlaces, AlprAnswers, AlprTypeOK
<1> QED
  BY <1>1, AlprInvAlways, PTL

\* A plate whose reading was answered ok is stored as a reading or as another event,
\* by itself or by the one it was dropped for, or that one took the key in a request
\* that failed; so is what was announced or keeps others out (ingest_alpr,
\* webhooks_public).
THEOREM NoReadingIsLost == AlprSpec => []NoReadingLost
<1>1. AlprInv => NoReadingLost
  <2> SUFFICES ASSUME AlprInv PROVE NoReadingLost
    OBVIOUS
  <2>1. \A r \in announced \union ({holder} \ {NoReading}) :
          Stored(r) \/ InWork(r) \/ r \in broken
    BY DEF AlprInv, KeyTold, Kept
  <2>2. ASSUME NEW r \in Readings, told[r] = "ok", kind[r] = "plate"
        PROVE  LET kept == IF dupOf[r] = NoReading THEN r ELSE dupOf[r]
               IN  r \in others \/ Stored(kept) \/ InWork(kept) \/ kept \in broken
    <3>1. AnsweredTruly(r)
      BY DEF AlprInv
    <3>2. CASE dupOf[r] = NoReading
      BY <2>2, <3>1, <3>2 DEF AnsweredTruly
    <3>3. CASE dupOf[r] # NoReading
      BY <3>1, <3>3 DEF AnsweredTruly, Kept
    <3> QED
      BY <3>2, <3>3
  <2> QED
    BY <2>1, <2>2 DEF NoReadingLost
<1> QED
  BY <1>1, AlprInvAlways, PTL

(***************************************************************************)
(* Ptz: halts hold. The inductive invariant keeps the order in which the   *)
(* user was told of requests, and lets the camera look elsewhere only by a *)
(* request that overlapped the halt.                                       *)
(***************************************************************************)
PtzSteps == {"new", "context", "sent", "executed", "done", "failed"}
PtzRecords == [op : PtzOps \cup {"none"}, axes : SUBSET Axes, token : Tokens \cup {NoToken},
               step : PtzSteps, earlier : SUBSET PtzRequests]

\* Requests whose command the camera no longer has to read.
Settled == {r \in PtzRequests \ onWire : ptz[r].step \in {"executed", "done", "failed"}}

PtzTypes ==
  /\ ptz \in [PtzRequests -> PtzRecords] /\ onWire \subseteq PtzRequests
  /\ motion \in [Axes -> PtzRequests \cup {NoMove}] /\ looks \in Spots

\* Tokens are counted, and no more presets than requests have been settled.
PresetsCounted ==
  /\ \E k \in Nat : DOMAIN presets = 1..k /\ k <= Cardinality(Settled)
  /\ \A t \in DOMAIN presets : presets[t] \in Spots

\* A command under way has not been answered, unless given up; what came earlier was done.
OrderKept ==
  /\ \A r \in onWire : ptz[r].step \in {"sent", "failed"}
  /\ \A r \in PtzRequests : \A m \in ptz[r].earlier : ptz[m].step = "done"

\* From the moment the camera has executed it, a halt holds.
HaltsExecuted ==
  \A x \in Axes, r \in PtzRequests :
    Halts(r) /\ ptz[r].step \in {"executed", "done"} => motion[x] \notin ptz[r].earlier

\* The inductive invariant of the camera that turns.
PtzInv == PtzTypes /\ PresetsCounted /\ OrderKept /\ HaltsExecuted

\* What settles is a finite set, and it only grows when requests go on.
LEMMA SettledCounts ==
  ASSUME PtzTypes
  PROVE  /\ IsFiniteSet(Settled) /\ Settled \subseteq PtzRequests
         /\ Cardinality(Settled) \in Nat /\ Cardinality(PtzRequests) \in Nat
         /\ Cardinality(Settled) <= Cardinality(PtzRequests)
<1>1. Settled \subseteq PtzRequests
  BY DEF Settled
<1> QED
  BY <1>1, FS_Subset, FS_CardinalityType, PtzAssumption

LEMMA SettledGrows ==
  ASSUME PtzTypes, PtzTypes', Settled \subseteq Settled', UNCHANGED presets,
         PresetsCounted, looks' \in Spots
  PROVE  PresetsCounted'
<1>1. /\ IsFiniteSet(Settled) /\ IsFiniteSet(Settled')
      /\ Cardinality(Settled) \in Nat /\ Cardinality(Settled') \in Nat
  <2>1. IsFiniteSet(Settled) /\ Cardinality(Settled) \in Nat
    BY SettledCounts
  <2>2. Settled' \subseteq PtzRequests
    BY DEF Settled
  <2>3. IsFiniteSet(Settled')
    BY <2>2, FS_Subset, PtzAssumption
  <2> QED
    BY <2>1, <2>3, FS_CardinalityType
<1>2. Cardinality(Settled) <= Cardinality(Settled')
  BY <1>1, FS_Subset
<1>3. PICK k \in Nat : DOMAIN presets = 1..k /\ k <= Cardinality(Settled)
  BY DEF PresetsCounted
<1>4. k <= Cardinality(Settled')
  BY <1>1, <1>2, <1>3
<1> QED
  BY <1>3, <1>4 DEF PresetsCounted

LEMMA PtzStart == PtzInit => PtzInv
<1> SUFFICES ASSUME PtzInit PROVE PtzInv
  OBVIOUS
<1>1. NewPtz \in PtzRecords
  BY DEF NewPtz, PtzRecords, PtzSteps, Axes, PtzOps
<1>2. PtzTypes
  BY <1>1 DEF PtzInit, PtzTypes
<1>3. 0 <= Cardinality(Settled) /\ DOMAIN presets = 1..0
  BY <1>2, SettledCounts DEF PtzInit
<1>4. PresetsCounted
  BY <1>3 DEF PresetsCounted
<1>5. OrderKept /\ HaltsExecuted
  BY DEF PtzInit, OrderKept, HaltsExecuted, NewPtz, Halts
<1> QED
  BY <1>2, <1>4, <1>5 DEF PtzInv

LEMMA BeginPtzKeeps ==
  ASSUME PtzInv, NEW r \in PtzRequests, BeginPtz(r)
  PROVE  PtzInv'
<1> USE DEF PtzInv
<1>1. PICK op \in PtzOps, axes \in SUBSET Axes, t \in Tokens \cup {NoToken} :
        ptz' = [ptz EXCEPT ![r] = [op |-> op, axes |-> axes, token |-> t,
                                   step |-> "context", earlier |-> Answered]]
  BY DEF BeginPtz
<1>2. [op |-> op, axes |-> axes, token |-> t, step |-> "context", earlier |-> Answered]
        \in PtzRecords
  BY DEF PtzRecords, PtzSteps, Answered
<1>3. PtzTypes'
  BY <1>1, <1>2 DEF PtzTypes, BeginPtz
<1>4. ptz'[r].step = "context" /\ ptz'[r].earlier = Answered
  BY <1>1 DEF PtzTypes
<1>5. \A q \in PtzRequests \ {r} : ptz'[q] = ptz[q]
  BY <1>1 DEF PtzTypes
<1>6. ptz[r].step = "new" /\ UNCHANGED <<onWire, motion, presets, looks>>
  BY DEF BeginPtz, PtzAt
<1>7. PresetsCounted'
  <2>1. Settled \subseteq Settled'
    BY <1>5, <1>6 DEF Settled
  <2> QED
    BY <1>3, <1>6, <2>1, SettledGrows DEF PtzTypes
<1>8. OrderKept'
  BY <1>4, <1>5, <1>6 DEF OrderKept, PtzTypes, Answered, PtzAt, PtzRecords
<1>9. HaltsExecuted'
  BY <1>4, <1>5, <1>6 DEF HaltsExecuted, Halts
<1> QED
  BY <1>3, <1>7, <1>8, <1>9

\* A request that goes on, or ends, while the camera does nothing.
LEMMA RequestKeeps ==
  ASSUME PtzInv, NEW r \in PtzRequests, PostPtz(r) \/ PtzFails(r) \/ PtzAnswers(r)
  PROVE  PtzInv'
<1> USE DEF PtzInv
<1>1. PICK s \in {"sent", "failed", "done"} :
        /\ ptz' = [ptz EXCEPT ![r].step = s]
        /\ s = "sent" => ptz[r].step = "context" /\ onWire' = onWire \cup {r}
        /\ s # "sent" => UNCHANGED onWire
        /\ s = "failed" => ptz[r].step \in {"context", "sent", "executed"}
        /\ s = "done" => ptz[r].step = "executed"
  BY DEF PostPtz, PtzFails, PtzAnswers, PtzAt
<1>2. UNCHANGED <<motion, looks, presets>>
  BY DEF PostPtz, PtzFails, PtzAnswers
<1>3. ptz[r] \in PtzRecords
  BY DEF PtzTypes
<1>4. [ptz[r] EXCEPT !.step = s] \in PtzRecords
  BY <1>3 DEF PtzRecords, PtzSteps
<1>5. ptz' = [ptz EXCEPT ![r] = [ptz[r] EXCEPT !.step = s]]
  BY <1>1 DEF PtzTypes
<1>6. PtzTypes'
  BY <1>1, <1>2, <1>4, <1>5 DEF PtzTypes
<1>7. /\ ptz'[r].step = s /\ ptz'[r].earlier = ptz[r].earlier
      /\ ptz'[r].op = ptz[r].op /\ ptz'[r].axes = ptz[r].axes
  BY <1>3, <1>5 DEF PtzTypes, PtzRecords
<1>8. \A q \in PtzRequests \ {r} : ptz'[q] = ptz[q]
  BY <1>5 DEF PtzTypes
<1>9. ptz[r].step \in {"context", "sent", "executed"}
  BY <1>1
<1>10. PresetsCounted'
  <2>1. Settled \subseteq Settled'
    BY <1>1, <1>7, <1>8 DEF Settled
  <2> QED
    BY <1>2, <1>6, <2>1, SettledGrows DEF PtzTypes
<1>11. OrderKept'
  <2>1. \A q \in onWire' : ptz'[q].step \in {"sent", "failed"}
    BY <1>1, <1>7, <1>8 DEF OrderKept, PtzTypes
  <2>2. \A q \in PtzRequests : r \notin ptz[q].earlier
    BY <1>9 DEF OrderKept
  <2>3. \A q \in PtzRequests : ptz'[q].earlier = ptz[q].earlier
    BY <1>7, <1>8
  <2>4. \A q \in PtzRequests : ptz[q].earlier \subseteq PtzRequests
    BY DEF PtzTypes, PtzRecords
  <2>5. \A q \in PtzRequests : \A m \in ptz'[q].earlier : ptz'[m].step = "done"
    BY <1>8, <2>2, <2>3, <2>4 DEF OrderKept
  <2> QED
    BY <2>1, <2>5 DEF OrderKept
<1>12. HaltsExecuted'
  BY <1>1, <1>2, <1>7, <1>8 DEF HaltsExecuted, Halts
<1> QED
  BY <1>6, <1>10, <1>11, <1>12

\* The camera reads a command: what it does to the motion and to the presets.
LEMMA Executed ==
  ASSUME PtzInv, NEW r \in PtzRequests, CameraExecutes(r)
  PROVE  /\ motion' \in [Axes -> PtzRequests \cup {NoMove}] /\ looks' \in Spots
         /\ \A x \in Axes : motion'[x] \in {motion[x], r, NoMove}
         /\ Halts(r) => motion' = Still
         /\ \/ UNCHANGED presets
            \/ presets' = [t \in DOMAIN presets \cup {Cardinality(DOMAIN presets) + 1} |->
                             IF t \in DOMAIN presets THEN presets[t] ELSE looks]
<1> USE DEF PtzInv
<1>1. CASE ContinuousMove(r)
  BY <1>1 DEF ContinuousMove, PtzTypes, Halts, Still
<1>2. CASE StopMove(r)
  BY <1>2 DEF StopMove, PtzTypes, Halts, Still, StoppedAxes, Axes
<1>3. CASE GotoPreset(r)
  BY <1>3 DEF GotoPreset, PtzTypes, Halts, Still, PresetsCounted
<1>4. CASE SetPreset(r) \/ GetPresets(r)
  BY <1>4 DEF SetPreset, GetPresets, PtzTypes, Halts
<1> QED
  BY <1>1, <1>2, <1>3, <1>4 DEF CameraExecutes

\* The presets, when one more request is settled.
LEMMA OnePresetMore ==
  ASSUME PtzTypes, PtzTypes', PresetsCounted, NEW r \in onWire,
         r \in Settled', Settled \subseteq Settled',
         \/ UNCHANGED presets
         \/ presets' = [t \in DOMAIN presets \cup {Cardinality(DOMAIN presets) + 1} |->
                          IF t \in DOMAIN presets THEN presets[t] ELSE looks]
  PROVE  PresetsCounted'
<1>1. CASE UNCHANGED presets
  BY <1>1, SettledGrows DEF PtzTypes
<1>2. CASE presets' = [t \in DOMAIN presets \cup {Cardinality(DOMAIN presets) + 1} |->
                         IF t \in DOMAIN presets THEN presets[t] ELSE looks]
  <2>1. PICK k \in Nat : DOMAIN presets = 1..k /\ k <= Cardinality(Settled)
    BY DEF PresetsCounted
  <2>2. Cardinality(DOMAIN presets) = k
    BY <2>1, FS_Interval
  <2>3. DOMAIN presets' = 1..(k + 1)
    BY <1>2, <2>1, <2>2
  <2>4. Settled' \subseteq PtzRequests
    BY DEF Settled
  <2>5. IsFiniteSet(Settled') /\ Cardinality(Settled') \in Nat
    BY <2>4, FS_Subset, FS_CardinalityType, PtzAssumption
  <2>6. r \notin Settled /\ IsFiniteSet(Settled) /\ Cardinality(Settled) \in Nat
    BY SettledCounts DEF Settled
  <2>7. Cardinality(Settled \cup {r}) = Cardinality(Settled) + 1
    BY <2>6, FS_AddElement
  <2>8. Settled \cup {r} \subseteq Settled'
    OBVIOUS
  <2>9. Cardinality(Settled \cup {r}) <= Cardinality(Settled')
    BY <2>5, <2>8, FS_Subset
  <2>10. k + 1 \in Nat /\ k + 1 <= Cardinality(Settled')
    BY <2>1, <2>5, <2>6, <2>7, <2>9
  <2>11. \A t \in DOMAIN presets' : presets'[t] \in Spots
    BY <1>2 DEF PresetsCounted, PtzTypes
  <2> QED
    BY <2>3, <2>10, <2>11 DEF PresetsCounted
<1> QED
  BY <1>1, <1>2

LEMMA CameraReadsKeeps ==
  ASSUME PtzInv, NEW r \in PtzRequests, CameraExecutes(r) \/ CameraRefuses(r)
  PROVE  PtzInv'
<1> USE DEF PtzInv
<1>1. /\ r \in onWire /\ onWire' = onWire \ {r}
      /\ ptz[r].step \in {"sent", "failed"}
  BY DEF CameraExecutes, CameraRefuses, OrderKept
<1>2. PICK s \in {"executed", "failed"} :
        ptz' = [ptz EXCEPT ![r].step = s] /\ (CameraRefuses(r) /\ s = "executed" => ~Halts(r))
  BY <1>1 DEF CameraExecutes, CameraRefuses, Halts
<1>3. ptz[r] \in PtzRecords
  BY DEF PtzTypes
<1>4. [ptz[r] EXCEPT !.step = s] \in PtzRecords
  BY <1>3 DEF PtzRecords, PtzSteps
<1>5. ptz' = [ptz EXCEPT ![r] = [ptz[r] EXCEPT !.step = s]]
  BY <1>2 DEF PtzTypes
<1>6. /\ ptz'[r].step = s /\ ptz'[r].earlier = ptz[r].earlier
      /\ ptz'[r].op = ptz[r].op /\ ptz'[r].axes = ptz[r].axes
  BY <1>3, <1>5 DEF PtzTypes, PtzRecords
<1>7. \A q \in PtzRequests \ {r} : ptz'[q] = ptz[q]
  BY <1>5 DEF PtzTypes
<1>8. /\ motion' \in [Axes -> PtzRequests \cup {NoMove}] /\ looks' \in Spots
      /\ \A x \in Axes : motion'[x] \in {motion[x], r, NoMove}
      /\ s = "executed" /\ Halts(r) => motion' = Still
      /\ \/ UNCHANGED presets
         \/ presets' = [t \in DOMAIN presets \cup {Cardinality(DOMAIN presets) + 1} |->
                          IF t \in DOMAIN presets THEN presets[t] ELSE looks]
  <2>1. CASE CameraExecutes(r)
    BY <2>1, Executed
  <2>2. CASE CameraRefuses(r)
    BY <1>2, <2>2 DEF CameraRefuses, PtzTypes
  <2> QED
    BY <2>1, <2>2
<1>9. PtzTypes'
  BY <1>1, <1>4, <1>5, <1>8 DEF PtzTypes
<1>10. r \in Settled' /\ Settled \subseteq Settled'
  BY <1>1, <1>2, <1>6, <1>7 DEF Settled
<1>11. PresetsCounted'
  BY <1>1, <1>8, <1>9, <1>10, OnePresetMore
<1>12. \A q \in PtzRequests : ptz'[q].earlier = ptz[q].earlier /\ (Halts(q)' <=> Halts(q))
  BY <1>6, <1>7 DEF Halts
<1>13. \A q \in PtzRequests : r \notin ptz[q].earlier
  BY <1>1 DEF OrderKept
<1>14. \A q \in PtzRequests : ptz[q].earlier \subseteq PtzRequests
  BY DEF PtzTypes, PtzRecords
<1>15. OrderKept'
  BY <1>1, <1>6, <1>7, <1>12, <1>13, <1>14 DEF OrderKept, PtzTypes
<1>16. HaltsExecuted'
  <2> SUFFICES ASSUME NEW x \in Axes, NEW q \in PtzRequests, Halts(q)',
                      ptz'[q].step \in {"executed", "done"}
               PROVE  motion'[x] \notin ptz'[q].earlier
    BY DEF HaltsExecuted
  <2>1. NoMove \notin ptz[q].earlier
    BY <1>14, PtzAssumption
  <2>2. CASE q = r
    BY <1>6, <1>8, <1>12, <2>1, <2>2 DEF Still
  <2>3. CASE q # r
    <3>1. motion[x] \notin ptz[q].earlier
      BY <1>7, <1>12, <2>3 DEF HaltsExecuted
    <3> QED
      BY <1>8, <1>12, <1>13, <2>1, <3>1
  <2> QED
    BY <2>2, <2>3
<1> QED
  BY <1>9, <1>11, <1>15, <1>16

LEMMA PtzStep == PtzInv /\ [PtzNext]_ptzVars => PtzInv'
<1> SUFFICES ASSUME PtzInv, [PtzNext]_ptzVars PROVE PtzInv'
  OBVIOUS
<1>1. ASSUME NEW r \in PtzRequests,
             \/ BeginPtz(r) \/ PostPtz(r) \/ PtzFails(r) \/ PtzAnswers(r)
             \/ CameraExecutes(r) \/ CameraRefuses(r)
      PROVE  PtzInv'
  BY <1>1, BeginPtzKeeps, RequestKeeps, CameraReadsKeeps
<1>2. CASE CameraTurns
  BY <1>2
  DEF CameraTurns, PtzInv, PtzTypes, PresetsCounted, Settled, OrderKept, HaltsExecuted, Halts
<1>3. CASE UNCHANGED ptzVars
  BY <1>3
  DEF ptzVars, PtzInv, PtzTypes, PresetsCounted, Settled, OrderKept, HaltsExecuted, Halts
<1> QED
  BY <1>1, <1>2, <1>3 DEF PtzNext

LEMMA PtzInvAlways == PtzSpec => []PtzInv
<1>1. PtzInit => PtzInv
  BY PtzStart
<1>2. PtzInv /\ [PtzNext]_ptzVars => PtzInv'
  BY PtzStep
<1> QED
  BY <1>1, <1>2, PTL DEF PtzSpec

\* The variables of the requests and of the camera that turns hold what they may; its
\* tokens stay within the presets that the requests can have saved.
THEOREM PtzTypeAlwaysOK == PtzSpec => []PtzTypeOK
<1>1. PtzInv => PtzTypeOK
  <2> SUFFICES ASSUME PtzInv PROVE PtzTypeOK
    OBVIOUS
  <2>1. PICK k \in Nat : DOMAIN presets = 1..k /\ k <= Cardinality(Settled)
    BY DEF PtzInv, PresetsCounted
  <2>2. k <= Cardinality(PtzRequests) /\ Cardinality(PtzRequests) \in Nat
    BY <2>1, SettledCounts DEF PtzInv
  <2>3. DOMAIN presets \subseteq Tokens
    BY <2>1, <2>2 DEF Tokens
  <2> QED
    BY <2>3 DEF PtzInv, PtzTypes, PresetsCounted, PtzRecords, PtzSteps, PtzTypeOK
<1> QED
  BY <1>1, PtzInvAlways, PTL

\* A halt whose caller was told it was done is not undone by a move that was done before
\* (the commands of ptz_service go on connections of their own).
THEOREM HaltsAlwaysHold == PtzSpec => []HaltsHold
<1>1. PtzInv => HaltsHold
  BY DEF PtzInv, HaltsExecuted, HaltsHold, PtzAt
<1> QED
  BY <1>1, PtzInvAlways, PTL

(***************************************************************************)
(* All parts together: each part is a behaviour of its own specification,  *)
(* whichever part moves, so that what is proved of the parts holds of the  *)
(* whole.                                                                  *)
(***************************************************************************)

\* A part takes one of its steps, or rests.
LEMMA MonitoringSteps ==
  [MonitoringNext]_monitoringVars =>
    /\ [CameraNext]_cameraVars
    /\ [AlprNext]_alprVars
    /\ [OrchNext]_orchVars
    /\ [ZoneNext]_zoneVars
    /\ [FenceNext]_fenceVars
    /\ [RecordingsNext]_recVars
    /\ [SpeedNext]_speedVars
    /\ [SourceNext]_sourceVars
    /\ [PtzNext]_ptzVars
<1> SUFFICES ASSUME [MonitoringNext]_monitoringVars
             PROVE  /\ [CameraNext]_cameraVars
                    /\ [AlprNext]_alprVars
                    /\ [OrchNext]_orchVars
                    /\ [ZoneNext]_zoneVars
                    /\ [FenceNext]_fenceVars
                    /\ [RecordingsNext]_recVars
                    /\ [SpeedNext]_speedVars
                    /\ [SourceNext]_sourceVars
                    /\ [PtzNext]_ptzVars
  OBVIOUS
<1>1. [CameraNext]_cameraVars
  BY DEF MonitoringNext, Rests, monitoringVars
<1>2. [AlprNext]_alprVars
  BY DEF MonitoringNext, Rests, monitoringVars
<1>3. [OrchNext]_orchVars
  BY DEF MonitoringNext, Rests, monitoringVars
<1>4. [ZoneNext]_zoneVars
  BY DEF MonitoringNext, Rests, monitoringVars
<1>5. [FenceNext]_fenceVars
  BY DEF MonitoringNext, Rests, monitoringVars
<1>6. [RecordingsNext]_recVars
  BY DEF MonitoringNext, Rests, monitoringVars
<1>7. [SpeedNext]_speedVars
  BY DEF MonitoringNext, Rests, monitoringVars
<1>8. [SourceNext]_sourceVars
  BY DEF MonitoringNext, Rests, monitoringVars
<1>9. [PtzNext]_ptzVars
  BY DEF MonitoringNext, Rests, monitoringVars
<1> QED
  BY <1>1, <1>2, <1>3, <1>4, <1>5, <1>6, <1>7, <1>8, <1>9

LEMMA MonitoringStarts ==
  MonitoringInit =>
    /\ CameraInit
    /\ AlprInit
    /\ OrchInit
    /\ ZoneInit
    /\ FenceInit
    /\ RecordingsInit
    /\ SpeedInit
    /\ SourceInit
    /\ PtzInit
BY DEF MonitoringInit

\* Every behaviour of the whole is one of each part.
LEMMA PartsOfMonitoring ==
  MonitoringSpec =>
    /\ CameraSpec
    /\ AlprSpec
    /\ OrchSpec
    /\ ZoneSpec
    /\ FenceSpec
    /\ RecordingsSpec
    /\ SpeedSpec
    /\ SourceSpec
    /\ PtzSpec
<1>1. MonitoringSpec => CameraSpec
  BY MonitoringStarts, MonitoringSteps, PTL DEF MonitoringSpec, CameraSpec
<1>2. MonitoringSpec => AlprSpec
  BY MonitoringStarts, MonitoringSteps, PTL DEF MonitoringSpec, AlprSpec
<1>3. MonitoringSpec => OrchSpec
  BY MonitoringStarts, MonitoringSteps, PTL DEF MonitoringSpec, OrchSpec
<1>4. MonitoringSpec => ZoneSpec
  BY MonitoringStarts, MonitoringSteps, PTL DEF MonitoringSpec, ZoneSpec
<1>5. MonitoringSpec => FenceSpec
  BY MonitoringStarts, MonitoringSteps, PTL DEF MonitoringSpec, FenceSpec
<1>6. MonitoringSpec => RecordingsSpec
  BY MonitoringStarts, MonitoringSteps, PTL DEF MonitoringSpec, RecordingsSpec
<1>7. MonitoringSpec => SpeedSpec
  BY MonitoringStarts, MonitoringSteps, PTL DEF MonitoringSpec, SpeedSpec
<1>8. MonitoringSpec => SourceSpec
  BY MonitoringStarts, MonitoringSteps, PTL DEF MonitoringSpec, SourceSpec
<1>9. MonitoringSpec => PtzSpec
  BY MonitoringStarts, MonitoringSteps, PTL DEF MonitoringSpec, PtzSpec
<1> QED
  BY <1>1, <1>2, <1>3, <1>4, <1>5, <1>6, <1>7, <1>8, <1>9, PTL

LEMMA MonitoringPartNamed == MonitoringSpec => [](part \in Parts)
<1>1. MonitoringInit => part \in Parts
  BY DEF MonitoringInit
<1>2. part \in Parts /\ [MonitoringNext]_monitoringVars => (part \in Parts)'
  BY DEF MonitoringNext, monitoringVars
<1> QED
  BY <1>1, <1>2, PTL DEF MonitoringSpec

\* What the variables of the parts may hold, always, whichever of them moves.
THEOREM MonitoringTypeAlwaysOK == MonitoringSpec => []MonitoringTypeOK
<1>1. /\ part \in Parts
      /\ CameraTypeOK
      /\ AlprTypeOK
      /\ OrchTypeOK
      /\ ZoneTypeOK
      /\ FenceTypeOK
      /\ RecordingsTypeOK
      /\ SpeedTypeOK
      /\ SourceTypeOK
      /\ PtzTypeOK
      => MonitoringTypeOK
  BY DEF MonitoringTypeOK
<1> QED
  BY <1>1, MonitoringPartNamed, PartsOfMonitoring, CameraTypeAlwaysOK, AlprTypeAlwaysOK,
     OrchTypeAlwaysOK, ZoneTypeAlwaysOK, FenceTypeAlwaysOK, RecordingsTypeAlwaysOK,
     SpeedTypeAlwaysOK, SourceTypeAlwaysOK, PtzTypeAlwaysOK, PTL

\* From the path of the video to the alarm, what users are told is true in the
\* sense of each part, whatever the other parts do in between.
THEOREM WhatUsersAreToldHolds ==
  MonitoringSpec =>
    /\ []RowAndPathAgree
    /\ []NoReadingLost
    /\ []SeesItsOwnFrame
    /\ []ZonesAreRecent
    /\ []FalseAlarmsExplained
    /\ []TimelineIsTrue
    /\ []NeverTooFast
    /\ []FramesComeBack
    /\ []HaltsHold
BY PartsOfMonitoring, RowAndPathAlwaysAgree, NoReadingIsLost, AlwaysSeesItsOwnFrame,
   ZonesAreAlwaysRecent, FalseAlarmsAlwaysExplained, TimelineIsAlwaysTrue,
   NeverEverTooFast, FramesAlwaysComeBack, HaltsAlwaysHold, PTL
=============================================================================
