--------------------------- MODULE StreamManager ---------------------------
(***************************************************************************)
(* The edge agent's StreamManager: one ffmpeg process per camera, started, *)
(* stopped and relaunched by several asyncio tasks that share its _streams *)
(* dictionary.  A task runs undisturbed from one await to the next; the    *)
(* awaits are the spawning of a process (_launch) and the wait for a       *)
(* terminated one (_terminate).                                            *)
(*                                                                         *)
(* A StreamProcess object and an OS process each have an identity, because *)
(* an object can lose its place in _streams, and a process its object.     *)
(***************************************************************************)
EXTENDS Integers, FiniteSets

CONSTANTS Cameras, Urls,
          Objs,          \* bound: StreamProcess objects ever created
          Procs,         \* bound: ffmpeg processes ever spawned
          Tasks,         \* asyncio tasks that call the manager
          None,          \* no object, no process, no URL
          InitialDelay,  \* _INITIAL_RESTART_DELAY_SECONDS
          MaxDelay,      \* _MAX_RESTART_DELAY_SECONDS
          RestartCap,    \* the 6 of min(restart_count, 6)
          MaxDeaths,     \* bound: processes that die by themselves
          MaxFailures    \* bound: spawns that raise OSError

ASSUME ManagerAssumption ==
  /\ None \notin Cameras \union Urls \union Objs \union Procs
  /\ InitialDelay \in Nat /\ MaxDelay \in Nat /\ RestartCap \in Nat
  /\ \A k \in 0..RestartCap : InitialDelay * 2^k \in Nat
  /\ MaxDeaths \in Nat /\ MaxFailures \in Nat

VARIABLES streams,   \* _streams: camera -> object
          camera,    \* camera_id of an object, None while it does not exist
          url,       \* rtsp_url of an object
          process,   \* sp.process
          running,   \* sp._running
          restarts,  \* sp.restart_count
          retryIn,   \* time left until sp.next_retry_at
          owner,     \* object a process was spawned for, None: not spawned yet
          alive,     \* processes that are running
          signalled, \* processes that were sent SIGTERM
          at,        \* what each task is doing: see Labels
          held,      \* object a task is launching or terminating
          victim,    \* process whose exit a task awaits in _terminate
          toStop, toStart, \* cameras left in the task's loops
          target,    \* the desired map a task reconciles to
          seen,      \* objects left in the health check's snapshot
          strayed,   \* history: objects launched when not in _streams
          deaths, failures

objVars == <<camera, url, running, restarts, retryIn>>
procVars == <<process, owner, alive, signalled>>
localVars == <<toStop, toStart, target, seen>>
managerVars == <<streams, objVars, procVars, at, held, victim, localVars,
                 strayed, deaths, failures>>

Labels == {"idle", "fetched", "reconciling", "terminating", "launching",
           "checking", "relaunching"}

Tracked == {c \in Cameras : streams[c] # None}
Attached(o) == camera[o] # None /\ streams[camera[o]] = o

\* Only one task runs at a time, and it keeps its turn until its next await:
\* no other task is inside a loop of reconcile, stop_all or the health check.
HasTurn(t) == \A u \in Tasks \ {t} : at[u] \notin {"reconciling", "checking"}

\* is_running: it does not look at the process's return code.
IsRunning(o) == running[o] /\ process[o] # None

\* Identities are handed out in some fixed order and never reused.
Unborn == {o \in Objs : camera[o] = None}
Unspawned == {p \in Procs : owner[p] = None}
NewObj == CHOOSE o \in Unborn : TRUE
NewProc == CHOOSE p \in Unspawned : TRUE

Delay(k) ==
  LET d == InitialDelay * 2^(IF k < RestartCap THEN k ELSE RestartCap)
  IN  IF d < MaxDelay THEN d ELSE MaxDelay

Resume(t, label) ==
  /\ at' = [at EXCEPT ![t] = label]
  /\ held' = [held EXCEPT ![t] = None]
  /\ victim' = [victim EXCEPT ![t] = None]

ManagerInit ==
  /\ streams = [c \in Cameras |-> None]
  /\ camera = [o \in Objs |-> None]
  /\ url = [o \in Objs |-> None]
  /\ process = [o \in Objs |-> None]
  /\ running = [o \in Objs |-> FALSE]
  /\ restarts = [o \in Objs |-> 0]
  /\ retryIn = [o \in Objs |-> 0]
  /\ owner = [p \in Procs |-> None]
  /\ alive = {} /\ signalled = {} /\ strayed = {}
  /\ at = [t \in Tasks |-> "idle"]
  /\ held = [t \in Tasks |-> None]
  /\ victim = [t \in Tasks |-> None]
  /\ toStop = [t \in Tasks |-> {}]
  /\ toStart = [t \in Tasks |-> {}]
  /\ target = [t \in Tasks |-> [c \in Cameras |-> None]]
  /\ seen = {}
  /\ deaths = 0 /\ failures = 0

----------------------------------------------------------------------------
(* stop_stream and start_stream, one turn of the loops of reconcile and of *)
(* stop_all.  The loops' order is that of a set, so any.                   *)

\* Mutant of StopStream: the entry is popped, its process left running.
StopStreamPopsOnly(t, c) ==
  /\ at[t] = "reconciling" /\ c \in toStop[t]
  /\ toStop' = [toStop EXCEPT ![t] = @ \ {c}]
  /\ streams' = [streams EXCEPT ![c] = None]
  /\ UNCHANGED <<objVars, procVars, at, held, victim, toStart, target, seen,
                 strayed, deaths, failures>>

\* Mutant of StopStream: whatever the object holds is terminated, None too.
StopStreamUnguarded(t, c) ==
  LET o == streams[c] IN
  /\ at[t] = "reconciling" /\ c \in toStop[t]
  /\ toStop' = [toStop EXCEPT ![t] = @ \ {c}]
  /\ streams' = [streams EXCEPT ![c] = None]
  /\ IF o = None THEN UNCHANGED <<running, signalled, at, held, victim>>
     ELSE /\ running' = [running EXCEPT ![o] = FALSE]
          /\ signalled' = signalled \union {process[o]}
          /\ at' = [at EXCEPT ![t] = "terminating"]
          /\ held' = [held EXCEPT ![t] = o]
          /\ victim' = [victim EXCEPT ![t] = process[o]]
  /\ UNCHANGED <<camera, url, restarts, retryIn, process, owner, alive,
                 toStart, target, seen, strayed, deaths, failures>>

\* pop, then _terminate: nothing to wait for unless a process is running.
StopStream(t, c) ==
  LET o == streams[c] IN
  /\ at[t] = "reconciling" /\ c \in toStop[t]
  /\ toStop' = [toStop EXCEPT ![t] = @ \ {c}]
  /\ streams' = [streams EXCEPT ![c] = None]
  /\ IF o = None THEN UNCHANGED <<running, signalled, at, held, victim>>
     ELSE
       /\ running' = [running EXCEPT ![o] = FALSE]
       /\ IF process[o] \in alive
            THEN /\ signalled' = signalled \union {process[o]}
                 /\ at' = [at EXCEPT ![t] = "terminating"]
                 /\ held' = [held EXCEPT ![t] = o]
                 /\ victim' = [victim EXCEPT ![t] = process[o]]
            ELSE UNCHANGED <<signalled, at, held, victim>>
  /\ UNCHANGED <<camera, url, restarts, retryIn, process, owner, alive,
                 toStart, target, seen, strayed, deaths, failures>>

\* The wait ends with the exit of the process, or after 5 s with a SIGKILL to
\* whatever process the object holds by then.
Terminated(t) ==
  /\ at[t] = "terminating" /\ HasTurn(t)
  /\ \/ victim[t] \notin alive /\ UNCHANGED alive
     \/ victim[t] \in alive /\ alive' = alive \ {process[held[t]]}
  /\ Resume(t, "reconciling")
  /\ UNCHANGED <<streams, objVars, process, owner, signalled, localVars,
                 strayed, deaths, failures>>

\* A stream that already runs is left alone; otherwise a new object takes the
\* camera's place and its process is spawned.
StartStream(t, c) ==
  /\ at[t] = "reconciling" /\ toStop[t] = {} /\ c \in toStart[t]
  /\ toStart' = [toStart EXCEPT ![t] = @ \ {c}]
  /\ IF streams[c] # None /\ IsRunning(streams[c])
       THEN UNCHANGED <<streams, camera, url, at, held>>
       ELSE /\ Unborn # {}
            /\ camera' = [camera EXCEPT ![NewObj] = c]
            /\ url' = [url EXCEPT ![NewObj] = target[t][c]]
            /\ streams' = [streams EXCEPT ![c] = NewObj]
            /\ held' = [held EXCEPT ![t] = NewObj]
            /\ at' = [at EXCEPT ![t] = "launching"]
  /\ UNCHANGED <<running, restarts, retryIn, procVars, victim, toStop, target,
                 seen, strayed, deaths, failures>>

\* Mutant of Reconcile: streams that are no longer wanted are not stopped.
ReconcileOnlyStarts(t) ==
  LET desired == {c \in Cameras : target[t][c] # None} IN
  /\ at[t] = "fetched" /\ HasTurn(t)
  /\ toStop' = [toStop EXCEPT ![t] = {}]
  /\ toStart' = [toStart EXCEPT ![t] = desired \ Tracked]
  /\ at' = [at EXCEPT ![t] = "reconciling"]
  /\ UNCHANGED <<streams, objVars, procVars, held, victim, target, seen,
                 strayed, deaths, failures>>

\* reconcile: both loops range over differences taken once, at its start.
Reconcile(t) ==
  LET desired == {c \in Cameras : target[t][c] # None} IN
  /\ at[t] = "fetched" /\ HasTurn(t)
  /\ toStop' = [toStop EXCEPT ![t] = Tracked \ desired]
  /\ toStart' = [toStart EXCEPT ![t] = desired \ Tracked]
  /\ at' = [at EXCEPT ![t] = "reconciling"]
  /\ UNCHANGED <<streams, objVars, procVars, held, victim, target, seen,
                 strayed, deaths, failures>>

Reconciled(t) ==
  /\ at[t] = "reconciling" /\ toStop[t] = {} /\ toStart[t] = {}
  /\ at' = [at EXCEPT ![t] = "idle"]
  /\ target' = [target EXCEPT ![t] = [c \in Cameras |-> None]]
  /\ UNCHANGED <<streams, objVars, procVars, held, victim, toStop, toStart,
                 seen, strayed, deaths, failures>>

----------------------------------------------------------------------------
(* _launch, from the resumption of create_subprocess_exec.                 *)

AfterLaunch(t) == IF at[t] = "relaunching" THEN "checking" ELSE "reconciling"

Launched(t) ==
  LET o == held[t] IN
  /\ at[t] \in {"launching", "relaunching"} /\ HasTurn(t)
  /\ Unspawned # {}
  /\ owner' = [owner EXCEPT ![NewProc] = o]
  /\ alive' = alive \union {NewProc}
  /\ process' = [process EXCEPT ![o] = NewProc]
  /\ running' = [running EXCEPT ![o] = TRUE]
  /\ strayed' = IF Attached(o) THEN strayed ELSE strayed \union {o}
  /\ Resume(t, AfterLaunch(t))
  /\ UNCHANGED <<streams, camera, url, restarts, retryIn, signalled, localVars,
                 deaths, failures>>

\* No ffmpeg on the PATH, or OSError: logged, sp.process is left as it was.
LaunchFails(t) ==
  /\ at[t] \in {"launching", "relaunching"} /\ HasTurn(t)
  /\ failures < MaxFailures
  /\ failures' = failures + 1
  /\ running' = [running EXCEPT ![held[t]] = FALSE]
  /\ Resume(t, AfterLaunch(t))
  /\ UNCHANGED <<streams, camera, url, restarts, retryIn, procVars, localVars,
                 strayed, deaths>>

----------------------------------------------------------------------------
(* restart_dead_streams, run by the health checker's task.                 *)

CheckStarts(t) ==
  /\ at[t] = "idle" /\ HasTurn(t)
  /\ seen' = {streams[c] : c \in Tracked}
  /\ at' = [at EXCEPT ![t] = "checking"]
  /\ UNCHANGED <<streams, objVars, procVars, held, victim, toStop, toStart,
                 target, strayed, deaths, failures>>

CheckEnds(t) ==
  /\ at[t] = "checking" /\ seen = {}
  /\ at' = [at EXCEPT ![t] = "idle"]
  /\ UNCHANGED <<streams, objVars, procVars, held, victim, localVars, strayed,
                 deaths, failures>>

Inspect(t, o) ==
  /\ at[t] = "checking" /\ o \in seen
  /\ seen' = seen \ {o}

\* Never launched, running, or dead and still backing off.
LeaveAlone(t, o) ==
  /\ Inspect(t, o)
  /\ \/ process[o] = None
     \/ running[o] /\ process[o] \in alive
     \/ ~running[o] /\ retryIn[o] > 0
  /\ UNCHANGED <<streams, objVars, procVars, at, held, victim, toStop, toStart,
                 target, strayed, deaths, failures>>

NoticeDeath(t, o) ==
  /\ Inspect(t, o)
  /\ running[o] /\ process[o] # None /\ process[o] \notin alive
  /\ running' = [running EXCEPT ![o] = FALSE]
  /\ retryIn' = [retryIn EXCEPT ![o] = Delay(restarts[o])]
  /\ UNCHANGED <<streams, camera, url, restarts, procVars, at, held, victim,
                 toStop, toStart, target, strayed, deaths, failures>>

Relaunch(t, o) ==
  /\ Inspect(t, o)
  /\ ~running[o] /\ process[o] # None /\ retryIn[o] = 0
  /\ restarts' = [restarts EXCEPT ![o] = IF @ < RestartCap THEN @ + 1 ELSE @]
  /\ at' = [at EXCEPT ![t] = "relaunching"]
  /\ held' = [held EXCEPT ![t] = o]
  /\ UNCHANGED <<streams, camera, url, running, retryIn, procVars, victim,
                 toStop, toStart, target, strayed, deaths, failures>>

----------------------------------------------------------------------------
\* An ffmpeg exits: because it was told to, or by itself (a camera off line).
ProcessDies(p) ==
  /\ p \in alive
  /\ alive' = alive \ {p}
  /\ IF p \in signalled THEN UNCHANGED deaths
     ELSE deaths < MaxDeaths /\ deaths' = deaths + 1
  /\ UNCHANGED <<streams, objVars, process, owner, signalled, at, held, victim,
                 localVars, strayed, failures>>

RetryTick ==
  /\ \E o \in Objs : retryIn[o] > 0
  /\ retryIn' = [o \in Objs |-> IF retryIn[o] > 0 THEN retryIn[o] - 1 ELSE 0]
  /\ UNCHANGED <<streams, camera, url, running, restarts, procVars, at, held,
                 victim, localVars, strayed, deaths, failures>>

ManagerTypeOK ==
  /\ streams \in [Cameras -> Objs \union {None}]
  /\ camera \in [Objs -> Cameras \union {None}]
  /\ url \in [Objs -> Urls \union {None}]
  /\ process \in [Objs -> Procs \union {None}]
  /\ running \in [Objs -> BOOLEAN]
  /\ restarts \in [Objs -> 0..RestartCap]
  /\ retryIn \in [Objs -> 0..MaxDelay]
  /\ owner \in [Procs -> Objs \union {None}]
  /\ alive \subseteq Procs
  /\ signalled \subseteq Procs
  /\ at \in [Tasks -> Labels]
  /\ held \in [Tasks -> Objs \union {None}]
  /\ victim \in [Tasks -> Procs \union {None}]
  /\ toStop \in [Tasks -> SUBSET Cameras]
  /\ toStart \in [Tasks -> SUBSET Cameras]
  /\ target \in [Tasks -> [Cameras -> Urls \union {None}]]
  /\ seen \subseteq Objs
  /\ strayed \subseteq Objs
  /\ deaths \in Nat
  /\ failures \in Nat
=============================================================================
