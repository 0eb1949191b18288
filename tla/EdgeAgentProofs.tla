-------------------------- MODULE EdgeAgentProofs ---------------------------
(***************************************************************************)
(* The edge agent's processes, for any number of cameras, addresses,       *)
(* deaths, failed spawns and changes of the configuration: none is lost    *)
(* but by the one race that the property names, no stream is launched      *)
(* twice at once, and the shutdown leaves nothing running that it could    *)
(* have stopped.                                                           *)
(***************************************************************************)
EXTENDS EdgeAgent, TLAPS

Launching(t) == at[t] \in {"launching", "relaunching"}

\* What each of the agent's tasks may be doing: the health checker relaunches, the
\* main task stops streams and starts none.
LabelsOf(t) ==
  IF t = Health THEN {"idle", "checking", "relaunching"}
  ELSE IF t = Main THEN {"idle", "reconciling", "terminating"}
  ELSE {"idle", "fetched", "reconciling", "terminating", "launching"}

\* Who is still at work, by the phase of _main and by what outlived run().
TasksKnown ==
  /\ \A t \in Tasks : at[t] \in LabelsOf(t)
  /\ orphans # {} => Push \in orphans
  /\ phase # "running" /\ Push \notin orphans => \A t \in Syncers : at[t] = "idle"
  /\ phase \in {"stopping", "stopped"} => at[Health] = "idle"
  /\ phase # "stopping" => at[Main] = "idle"
  /\ toStart[Main] = {}

\* stop_all has every stream left on its list, or has stopped it, unless an orphan
\* starts streams behind it.
ShutsDown ==
  Push \notin orphans =>
    /\ phase = "stopping" => Tracked \subseteq toStop[Main]
    /\ phase = "stopped" => Tracked = {}

\* Entries, objects and processes name each other, and the entry of a process that
\* is alive knows that it runs.
EntriesBorn == \A c \in Cameras : streams[c] # None => camera[streams[c]] = c
UnbornEmpty == \A o \in Objs : camera[o] = None => process[o] = None /\ ~running[o]
HandlesOwned == \A o \in Objs : process[o] # None => owner[process[o]] = o
AliveOwned == \A p \in alive : owner[p] # None
RunsKnown == \A o \in Objs : Attached(o) /\ process[o] \in alive => running[o]
ObjectsSound == EntriesBorn /\ UnbornEmpty /\ HandlesOwned /\ AliveOwned /\ RunsKnown

\* What is launched is an object that does not run: a new one without a process, or
\* one whose process the health check has found dead.
LaunchSound(t) ==
  Launching(t) =>
    /\ held[t] \in Objs /\ camera[held[t]] # None /\ ~running[held[t]]
    /\ at[t] = "launching" => process[held[t]] = None
    /\ at[t] = "relaunching" => process[held[t]] # None
LaunchesSound == \A t \in Tasks : LaunchSound(t)

\* The inductive invariant of the agent.
AgentInv ==
  /\ TypeOK /\ TasksKnown /\ ShutsDown
  /\ ObjectsSound /\ LaunchesSound /\ ProcessesTracked

USE ManagerAssumption, AgentAssumption

LEMMA NewObjIsNew == Unborn # {} => NewObj \in Objs /\ camera[NewObj] = None
<1> SUFFICES ASSUME Unborn # {} PROVE NewObj \in Objs /\ camera[NewObj] = None
  OBVIOUS
<1>1. NewObj \in Unborn
  BY DEF NewObj
<1> QED BY <1>1 DEF Unborn

LEMMA NewProcIsNew == Unspawned # {} => NewProc \in Procs /\ owner[NewProc] = None
<1> SUFFICES ASSUME Unspawned # {} PROVE NewProc \in Procs /\ owner[NewProc] = None
  OBVIOUS
<1>1. NewProc \in Unspawned
  BY DEF NewProc
<1> QED BY <1>1 DEF Unspawned

LEMMA DelayIsTime == \A k \in 0..RestartCap : Delay(k) \in 0..MaxDelay
<1> SUFFICES ASSUME NEW k \in 0..RestartCap PROVE Delay(k) \in 0..MaxDelay
  OBVIOUS
<1> DEFINE m == IF k < RestartCap THEN k ELSE RestartCap
           d == InitialDelay * 2^m
<1>1. m \in 0..RestartCap
  OBVIOUS
<1>2. d \in Nat
  BY <1>1
<1>3. Delay(k) = IF d < MaxDelay THEN d ELSE MaxDelay
  BY DEF Delay
<1>4. MaxDelay \in Nat
  OBVIOUS
<1> HIDE DEF d
<1> QED BY <1>2, <1>3, <1>4

(***************************************************************************)
(* Types.                                                                  *)
(***************************************************************************)
LEMMA StopStreamTyped ==
  ASSUME TypeOK, NEW t \in Tasks, NEW c \in Cameras, StopStream(t, c), UNCHANGED agentVars
  PROVE  TypeOK'
<1> USE DEF TypeOK, ManagerTypeOK
<1>1. streams' \in [Cameras -> Objs \union {None}] /\ toStop' \in [Tasks -> SUBSET Cameras]
  BY DEF StopStream
<1>2. CASE streams[c] = None
  BY <1>1, <1>2 DEF StopStream, agentVars
<1>3. CASE streams[c] # None
  <2>1. streams[c] \in Objs
    BY <1>3
  <2>2. running' \in [Objs -> BOOLEAN]
    BY <1>3, <2>1 DEF StopStream
  <2>3. /\ signalled' \subseteq Procs /\ at' \in [Tasks -> Labels]
        /\ held' \in [Tasks -> Objs \union {None}]
        /\ victim' \in [Tasks -> Procs \union {None}]
    <3>1. CASE process[streams[c]] \in alive
      BY <1>3, <2>1, <3>1 DEF StopStream, Labels
    <3>2. CASE process[streams[c]] \notin alive
      BY <1>3, <2>1, <3>2 DEF StopStream
    <3> QED BY <3>1, <3>2
  <2> QED BY <1>1, <2>2, <2>3 DEF StopStream, agentVars
<1> QED BY <1>2, <1>3

LEMMA StartStreamTyped ==
  ASSUME TypeOK, NEW t \in Tasks, NEW c \in Cameras, StartStream(t, c), UNCHANGED agentVars
  PROVE  TypeOK'
<1> USE DEF TypeOK, ManagerTypeOK
<1>1. CASE streams[c] # None /\ IsRunning(streams[c])
  BY <1>1 DEF StartStream, agentVars, procVars
<1>2. CASE ~(streams[c] # None /\ IsRunning(streams[c]))
  <2>1. NewObj \in Objs
    BY <1>2, NewObjIsNew DEF StartStream
  <2>2. /\ camera' = [camera EXCEPT ![NewObj] = c]
        /\ url' = [url EXCEPT ![NewObj] = target[t][c]]
        /\ streams' = [streams EXCEPT ![c] = NewObj]
        /\ held' = [held EXCEPT ![t] = NewObj]
        /\ at' = [at EXCEPT ![t] = "launching"]
    BY <1>2 DEF StartStream
  <2>3. url' \in [Objs -> Urls \union {None}]
    BY <2>1, <2>2
  <2>4. at' \in [Tasks -> Labels]
    BY <2>2 DEF Labels
  <2> HIDE DEF NewObj
  <2> QED BY <2>1, <2>2, <2>3, <2>4 DEF StartStream, agentVars, procVars
<1> QED BY <1>1, <1>2

LEMMA LaunchTyped ==
  ASSUME TypeOK, NEW t \in Tasks, LaunchSound(t), Launched(t) \/ LaunchFails(t),
         UNCHANGED agentVars
  PROVE  TypeOK'
<1> USE DEF TypeOK, ManagerTypeOK
<1>1. AfterLaunch(t) \in Labels
  BY DEF AfterLaunch, Labels
<1>2. /\ at' \in [Tasks -> Labels] /\ held' \in [Tasks -> Objs \union {None}]
      /\ victim' \in [Tasks -> Procs \union {None}]
  <2>1. Resume(t, AfterLaunch(t))
    BY DEF Launched, LaunchFails
  <2>2. at \in [Tasks -> Labels] /\ held \in [Tasks -> Objs \union {None}]
        /\ victim \in [Tasks -> Procs \union {None}]
    OBVIOUS
  <2> HIDE DEF TypeOK, ManagerTypeOK
  <2> QED BY <1>1, <2>1, <2>2 DEF Resume
<1>3. running' \in [Objs -> BOOLEAN]
  BY DEF Launched, LaunchFails
<1>4. CASE Launched(t)
  <2>1. NewProc \in Procs
    BY <1>4, NewProcIsNew DEF Launched
  <2>2. /\ owner' = [owner EXCEPT ![NewProc] = held[t]] /\ alive' = alive \union {NewProc}
        /\ process' = [process EXCEPT ![held[t]] = NewProc]
    BY <1>4 DEF Launched
  <2>3. held[t] \in Objs
    BY <1>4 DEF LaunchSound, Launching, Launched
  <2>4. strayed' \subseteq Objs
    BY <1>4, <2>3 DEF Launched
  <2> HIDE DEF NewProc
  <2> QED BY <1>2, <1>3, <1>4, <2>1, <2>2, <2>3, <2>4 DEF Launched, agentVars, localVars
<1>5. CASE LaunchFails(t)
  BY <1>2, <1>3, <1>5 DEF LaunchFails, agentVars, localVars, procVars
<1> QED BY <1>4, <1>5

LEMMA ChecksTyped ==
  ASSUME TypeOK, UNCHANGED agentVars, NEW t \in Tasks,
         \/ CheckStarts(t) \/ CheckEnds(t)
         \/ \E o \in Objs : LeaveAlone(t, o) \/ NoticeDeath(t, o) \/ Relaunch(t, o)
  PROVE  TypeOK'
<1> USE DEF TypeOK, ManagerTypeOK, agentVars
<1>1. CASE CheckStarts(t)
  <2>1. seen' \subseteq Objs
    BY <1>1 DEF CheckStarts, Tracked
  <2>2. at' \in [Tasks -> Labels]
    BY <1>1 DEF CheckStarts, Labels
  <2> QED BY <1>1, <2>1, <2>2 DEF CheckStarts, objVars, procVars
<1>2. CASE CheckEnds(t)
  <2>1. at' \in [Tasks -> Labels]
    BY <1>2 DEF CheckEnds, Labels
  <2> QED BY <1>2, <2>1 DEF CheckEnds, objVars, procVars, localVars
<1>3. ASSUME NEW o \in Objs, LeaveAlone(t, o) PROVE TypeOK'
  BY <1>3 DEF LeaveAlone, Inspect, objVars, procVars
<1>4. ASSUME NEW o \in Objs, NoticeDeath(t, o) PROVE TypeOK'
  <2>1. Delay(restarts[o]) \in 0..MaxDelay
    BY DelayIsTime
  <2>2. running' \in [Objs -> BOOLEAN]
    BY <1>4 DEF NoticeDeath
  <2>3. retryIn' \in [Objs -> 0..MaxDelay]
    BY <1>4, <2>1 DEF NoticeDeath
  <2> QED BY <1>4, <2>2, <2>3 DEF NoticeDeath, Inspect, procVars
<1>5. ASSUME NEW o \in Objs, Relaunch(t, o) PROVE TypeOK'
  <2>1. restarts' \in [Objs -> 0..RestartCap]
    BY <1>5 DEF Relaunch
  <2>2. at' \in [Tasks -> Labels]
    BY <1>5 DEF Relaunch, Labels
  <2> QED BY <1>5, <2>1, <2>2 DEF Relaunch, Inspect, procVars
<1> QED BY <1>1, <1>2, <1>3, <1>4, <1>5

LEMMA ManagesTyped ==
  ASSUME TypeOK, NEW t \in Tasks, LaunchSound(t), Manages(t)
  PROVE  TypeOK'
<1> USE DEF TypeOK, ManagerTypeOK
<1>1. UNCHANGED agentVars
  BY DEF Manages
<1>2. ASSUME NEW c \in Cameras, StopStream(t, c) \/ StartStream(t, c) PROVE TypeOK'
  BY <1>1, <1>2, StopStreamTyped, StartStreamTyped
<1>3. CASE Reconcile(t)
  <2>1. at' \in [Tasks -> Labels]
    BY <1>3 DEF Reconcile, Labels
  <2>2. toStop' \in [Tasks -> SUBSET Cameras] /\ toStart' \in [Tasks -> SUBSET Cameras]
    BY <1>3 DEF Reconcile, Tracked
  <2> QED BY <1>1, <1>3, <2>1, <2>2 DEF Reconcile, agentVars, objVars, procVars
<1>4. CASE Terminated(t)
  <2>1. at' \in [Tasks -> Labels] /\ held' \in [Tasks -> Objs \union {None}]
        /\ victim' \in [Tasks -> Procs \union {None}]
    BY <1>4 DEF Terminated, Resume, Labels
  <2>2. alive' \subseteq alive
    BY <1>4 DEF Terminated
  <2> QED BY <1>1, <1>4, <2>1, <2>2 DEF Terminated, agentVars, objVars, localVars
<1>5. CASE Reconciled(t)
  <2>1. at' \in [Tasks -> Labels]
    BY <1>5 DEF Reconciled, Labels
  <2>2. target' \in [Tasks -> [Cameras -> Urls \union {None}]]
    BY <1>5 DEF Reconciled
  <2> QED BY <1>1, <1>5, <2>1, <2>2 DEF Reconciled, agentVars, objVars, procVars
<1>6. CASE Launched(t) \/ LaunchFails(t)
  BY <1>1, <1>6, LaunchTyped
<1> QED BY <1>2, <1>3, <1>4, <1>5, <1>6 DEF Manages

LEMMA CancelTyped ==
  ASSUME TypeOK, NEW S, Cancel(S)
  PROVE  /\ at' \in [Tasks -> Labels] /\ held' \in [Tasks -> Objs \union {None}]
         /\ victim' \in [Tasks -> Procs \union {None}]
         /\ toStop' \in [Tasks -> SUBSET Cameras] /\ toStart' \in [Tasks -> SUBSET Cameras]
         /\ target' \in [Tasks -> [Cameras -> Urls \union {None}]]
<1> USE DEF TypeOK, ManagerTypeOK, Cancel
<1>1. at' \in [Tasks -> Labels]
  BY DEF Labels
<1>2. target' \in [Tasks -> [Cameras -> Urls \union {None}]]
  OBVIOUS
<1>3. held' \in [Tasks -> Objs \union {None}] /\ victim' \in [Tasks -> Procs \union {None}]
  OBVIOUS
<1>4. toStop' \in [Tasks -> SUBSET Cameras] /\ toStart' \in [Tasks -> SUBSET Cameras]
  OBVIOUS
<1> QED BY <1>1, <1>2, <1>3, <1>4

LEMMA StepKeepsAgentTypes ==
  ASSUME TypeOK, LaunchesSound, [Next]_vars
  PROVE  TypeOK'
<1> USE DEF TypeOK, ManagerTypeOK
<1>1. ASSUME NEW c \in Cameras, ConfigChanges(c) PROVE TypeOK'
  <2>1. wanted' \in [Cameras -> Urls \union {None}] /\ changes' \in Nat
    BY <1>1 DEF ConfigChanges
  <2> QED BY <1>1, <2>1 DEF ConfigChanges, managerVars, objVars, procVars, localVars
<1>2. CASE CredentialRevoked
  BY <1>2 DEF CredentialRevoked, managerVars, objVars, procVars, localVars
<1>3. ASSUME NEW t \in Syncers, Fetch(t) PROVE TypeOK'
  <2>1. at' \in [Tasks -> Labels]
    BY <1>3 DEF Fetch, Labels
  <2>2. target' \in [Tasks -> [Cameras -> Urls \union {None}]]
    BY <1>3 DEF Fetch, GetAgentConfig
  <2>3. orphans' \subseteq Syncers
    BY <1>3 DEF Fetch
  <2> QED BY <1>3, <2>1, <2>2, <2>3 DEF Fetch, objVars, procVars
<1>4. ASSUME NEW t \in Syncers \union {Main}, Manages(t) PROVE TypeOK'
  <2>1. t \in Tasks
    OBVIOUS
  <2> QED BY <1>4, <2>1, ManagesTyped DEF LaunchesSound
<1>5. CASE ChecksHealth
  <2>1. Health \in Tasks /\ LaunchSound(Health)
    BY DEF LaunchesSound
  <2> QED BY <1>5, <2>1, ChecksTyped, LaunchTyped DEF ChecksHealth
<1>6. CASE HeartbeatRefused \/ HeartbeatRaises \/ Signalled
  <2>1. CASE HeartbeatRefused \/ Signalled
    BY <2>1, CancelTyped DEF HeartbeatRefused, Signalled, objVars, procVars
  <2>2. CASE HeartbeatRaises
    BY <2>2 DEF HeartbeatRaises, managerVars, objVars, procVars, localVars
  <2> QED BY <1>6, <2>1, <2>2
<1>7. CASE HealthStops
  <2>1. at' \in [Tasks -> Labels] /\ held' \in [Tasks -> Objs \union {None}]
    BY <1>7 DEF HealthStops, Labels
  <2>2. toStop' \in [Tasks -> SUBSET Cameras]
    BY <1>7 DEF HealthStops, Tracked
  <2> QED BY <1>7, <2>1, <2>2 DEF HealthStops, objVars, procVars
<1>8. CASE Stopped
  <2>1. at' \in [Tasks -> Labels]
    BY <1>8 DEF Stopped, Labels
  <2> QED BY <1>8, <2>1 DEF Stopped, objVars, procVars, localVars
<1>9. CASE Environment
  <2>1. CASE RetryTick
    <3>1. retryIn' \in [Objs -> 0..MaxDelay]
      BY <2>1 DEF RetryTick
    <3> QED BY <1>9, <2>1, <3>1 DEF Environment, RetryTick, agentVars, procVars, localVars
  <2>2. ASSUME NEW p \in Procs, ProcessDies(p) PROVE TypeOK'
    <3>1. alive' \subseteq Procs /\ deaths' \in Nat
      BY <2>2 DEF ProcessDies
    <3> QED BY <1>9, <2>2, <3>1 DEF Environment, ProcessDies, agentVars, objVars, localVars
  <2> QED BY <1>9, <2>1, <2>2 DEF Environment
<1>10. CASE UNCHANGED vars
  BY <1>10 DEF vars, managerVars, agentVars, objVars, procVars, localVars
<1> QED BY <1>1, <1>2, <1>3, <1>4, <1>5, <1>6, <1>7, <1>8, <1>9, <1>10 DEF Next

(***************************************************************************)
(* Who is at work, and what is left to stop.                               *)
(***************************************************************************)
LEMMA ManagesKeepsTasks ==
  ASSUME TypeOK, TasksKnown, NEW t \in Syncers \union {Main}, Manages(t)
  PROVE  TasksKnown'
<1> USE DEF TasksKnown, LabelsOf
<1>1. /\ at \in [Tasks -> Labels] /\ toStart \in [Tasks -> SUBSET Cameras]
      /\ t \in Tasks /\ t # Health /\ phase' = phase /\ orphans' = orphans
  BY DEF TypeOK, ManagerTypeOK, Manages, agentVars, Syncers
<1>2. ASSUME at[t] # "idle", NEW x \in LabelsOf(t), at' = [at EXCEPT ![t] = x] \/ at' = at,
             toStart'[Main] = toStart[Main]
      PROVE  TasksKnown'
  <2>1. t = Main => phase = "stopping"
    BY <1>2
  <2>2. t \in Syncers => phase = "running" \/ Push \in orphans
    BY <1>2
  <2> QED BY <1>1, <1>2, <2>1, <2>2
<1>3. ASSUME NEW c \in Cameras, StopStream(t, c) PROVE TasksKnown'
  <2>1. at[t] = "reconciling" /\ toStart' = toStart
    BY <1>3 DEF StopStream
  <2>2. at' = at \/ at' = [at EXCEPT ![t] = "terminating"]
    BY <1>3 DEF StopStream
  <2>3. "terminating" \in LabelsOf(t)
    BY <1>1
  <2> QED BY <1>2, <2>1, <2>2, <2>3
<1>4. ASSUME NEW c \in Cameras, StartStream(t, c) PROVE TasksKnown'
  <2>1. at[t] = "reconciling" /\ c \in toStart[t] /\ toStart' = [toStart EXCEPT ![t] = @ \ {c}]
    BY <1>4 DEF StartStream
  <2>2. t # Main
    BY <2>1
  <2>3. at' = at \/ at' = [at EXCEPT ![t] = "launching"]
    BY <1>4 DEF StartStream
  <2>4. "launching" \in LabelsOf(t)
    BY <1>1, <2>2
  <2> QED BY <1>1, <1>2, <2>1, <2>2, <2>3, <2>4
<1>5. CASE Reconcile(t)
  <2>1. at[t] = "fetched" /\ t # Main
    BY <1>1, <1>5 DEF Reconcile
  <2>2. at' = [at EXCEPT ![t] = "reconciling"] /\ toStart'[Main] = toStart[Main]
    BY <1>1, <1>5, <2>1 DEF Reconcile
  <2>3. "reconciling" \in LabelsOf(t)
    BY <1>1
  <2> QED BY <1>2, <2>1, <2>2, <2>3
<1>6. CASE Terminated(t)
  <2>1. at[t] = "terminating" /\ at' = [at EXCEPT ![t] = "reconciling"] /\ toStart' = toStart
    BY <1>6 DEF Terminated, Resume, localVars
  <2>2. "reconciling" \in LabelsOf(t)
    BY <1>1
  <2> QED BY <1>2, <2>1, <2>2
<1>7. CASE t \in Syncers /\ Reconciled(t)
  <2>1. at[t] = "reconciling" /\ at' = [at EXCEPT ![t] = "idle"] /\ toStart' = toStart
    BY <1>7 DEF Reconciled
  <2>2. "idle" \in LabelsOf(t)
    BY <1>1
  <2> QED BY <1>2, <2>1, <2>2
<1>8. CASE Launched(t) \/ LaunchFails(t)
  <2>1. at[t] \in {"launching", "relaunching"} /\ at' = [at EXCEPT ![t] = AfterLaunch(t)]
        /\ toStart' = toStart
    BY <1>8 DEF Launched, LaunchFails, Resume, localVars
  <2>2. at[t] = "launching"
    BY <1>1, <2>1
  <2>3. AfterLaunch(t) \in LabelsOf(t)
    BY <1>1, <2>2 DEF AfterLaunch
  <2> QED BY <1>2, <2>1, <2>3
<1> QED BY <1>3, <1>4, <1>5, <1>6, <1>7, <1>8 DEF Manages

LEMMA ChecksKeepTasks ==
  ASSUME TypeOK, TasksKnown, ChecksHealth
  PROVE  TasksKnown'
<1> USE DEF TasksKnown, LabelsOf
<1>1. /\ at \in [Tasks -> Labels] /\ Health \in Tasks
      /\ phase' = phase /\ orphans' = orphans
  BY DEF TypeOK, ManagerTypeOK, ChecksHealth, agentVars
<1>2. phase \notin {"stopping", "stopped"}
  <2>1. at[Health] # "idle" \/ phase \notin {"stopping", "stopped"}
    BY DEF ChecksHealth, CheckEnds, LeaveAlone, NoticeDeath, Relaunch, Inspect,
           Launched, LaunchFails
  <2> QED BY <2>1
<1>3. /\ toStart' = toStart
      /\ at' = at \/ \E x \in LabelsOf(Health) : at' = [at EXCEPT ![Health] = x]
  <2>1. CASE CheckStarts(Health)
    BY <2>1 DEF CheckStarts
  <2>2. CASE CheckEnds(Health)
    BY <2>2 DEF CheckEnds, localVars
  <2>3. ASSUME NEW o \in Objs, LeaveAlone(Health, o) PROVE at' = at /\ toStart' = toStart
    BY <2>3 DEF LeaveAlone
  <2>4. ASSUME NEW o \in Objs, NoticeDeath(Health, o) PROVE at' = at /\ toStart' = toStart
    BY <2>4 DEF NoticeDeath
  <2>5. ASSUME NEW o \in Objs, Relaunch(Health, o)
        PROVE  at' = [at EXCEPT ![Health] = "relaunching"] /\ toStart' = toStart
    BY <2>5 DEF Relaunch
  <2>6. CASE Launched(Health) \/ LaunchFails(Health)
    <3>1. /\ at[Health] \in {"launching", "relaunching"} /\ toStart' = toStart
          /\ at' = [at EXCEPT ![Health] = AfterLaunch(Health)]
      BY <2>6 DEF Launched, LaunchFails, Resume, localVars
    <3>2. AfterLaunch(Health) = "checking"
      BY <1>1, <3>1 DEF AfterLaunch
    <3> QED BY <3>1, <3>2
  <2> QED BY <2>1, <2>2, <2>3, <2>4, <2>5, <2>6 DEF ChecksHealth
<1> QED BY <1>1, <1>2, <1>3 DEF Syncers

LEMMA StepKeepsTasks ==
  ASSUME TypeOK, TasksKnown, [Next]_vars
  PROVE  TasksKnown'
<1> USE DEF TasksKnown, LabelsOf
<1>1. at \in [Tasks -> Labels] /\ toStart \in [Tasks -> SUBSET Cameras]
  BY DEF TypeOK, ManagerTypeOK
<1>2. ASSUME UNCHANGED <<at, phase, orphans, toStart>> PROVE TasksKnown'
  BY <1>2
<1>3. ASSUME NEW c \in Cameras, ConfigChanges(c) PROVE TasksKnown'
  BY <1>2, <1>3 DEF ConfigChanges, managerVars, localVars
<1>4. CASE CredentialRevoked
  BY <1>2, <1>4 DEF CredentialRevoked, managerVars, localVars
<1>5. ASSUME NEW t \in Syncers, Fetch(t) PROVE TasksKnown'
  <2>1. /\ phase' = phase /\ toStart' = toStart
        /\ at' = [at EXCEPT ![t] = "fetched"]
    BY <1>5 DEF Fetch
  <2>2. /\ phase = "running" \/ Push \in orphans
        /\ orphans' \subseteq orphans /\ (Push \in orphans' <=> Push \in orphans)
    BY <1>5 DEF Fetch
  <2>3. t \in Tasks /\ t # Health /\ t # Main
    BY DEF Syncers
  <2> QED BY <1>1, <2>1, <2>2, <2>3
<1>6. ASSUME NEW t \in Syncers \union {Main}, Manages(t) PROVE TasksKnown'
  BY <1>6, ManagesKeepsTasks
<1>7. CASE ChecksHealth
  BY <1>7, ChecksKeepTasks
<1>8. CASE HeartbeatRefused \/ HeartbeatRaises \/ Signalled
  <2>1. CASE HeartbeatRaises
    <3>1. phase = "running" /\ orphans' = Syncers /\ UNCHANGED <<at, phase, toStart>>
      BY <2>1 DEF HeartbeatRaises, managerVars, localVars
    <3> QED BY <3>1 DEF Syncers
  <2>2. CASE HeartbeatRefused \/ Signalled
    <3>1. /\ phase \in {"running", "revoked"} /\ phase' \in {"revoked", "shutdown"}
          /\ at' = [t \in Tasks |-> IF t \in Syncers \ orphans THEN "idle" ELSE at[t]]
          /\ toStart' = [t \in Tasks |-> IF t \in Syncers \ orphans THEN {} ELSE toStart[t]]
          /\ orphans' = orphans
      BY <2>2 DEF HeartbeatRefused, Signalled, Cancel
    <3>2. Main \in Tasks /\ Main \notin Syncers
      BY DEF Syncers
    <3>3. Push \notin orphans => \A t \in Syncers : at'[t] = "idle"
      BY <1>1, <3>1
    <3> QED BY <1>1, <3>1, <3>2, <3>3
  <2> QED BY <1>8, <2>1, <2>2
<1>9. CASE HealthStops
  <2>1. /\ phase = "shutdown" /\ phase' = "stopping" /\ UNCHANGED <<toStart, orphans>>
        /\ at' = [at EXCEPT ![Health] = "idle", ![Main] = "reconciling"]
    BY <1>9 DEF HealthStops
  <2> QED BY <1>1, <2>1 DEF Syncers
<1>10. CASE Stopped
  <2>1. /\ phase = "stopping" /\ phase' = "stopped" /\ UNCHANGED <<toStart, orphans>>
        /\ at' = [at EXCEPT ![Main] = "idle"]
    BY <1>10 DEF Stopped, localVars
  <2> QED BY <1>1, <2>1 DEF Syncers
<1>11. CASE Environment
  <2>1. UNCHANGED <<at, phase, orphans, toStart>>
    BY <1>11 DEF Environment, RetryTick, ProcessDies, agentVars, localVars
  <2> QED BY <1>2, <2>1
<1>12. CASE UNCHANGED vars
  BY <1>2, <1>12 DEF vars, managerVars, agentVars, localVars
<1> QED BY <1>3, <1>4, <1>5, <1>6, <1>7, <1>8, <1>9, <1>10, <1>11, <1>12 DEF Next

LEMMA StepKeepsShutdown ==
  ASSUME TypeOK, TasksKnown, ShutsDown, [Next]_vars
  PROVE  ShutsDown'
<1> USE DEF ShutsDown
<1>1. streams \in [Cameras -> Objs \union {None}] /\ toStop \in [Tasks -> SUBSET Cameras]
  BY DEF TypeOK, ManagerTypeOK
<1>2. ASSUME UNCHANGED <<streams, phase, orphans, toStop>> PROVE ShutsDown'
  BY <1>2 DEF Tracked
<1>3. ASSUME phase' \notin {"stopping", "stopped"} PROVE ShutsDown'
  BY <1>3
<1>4. ASSUME NEW c \in Cameras, ConfigChanges(c) PROVE ShutsDown'
  BY <1>2, <1>4 DEF ConfigChanges, managerVars, localVars
<1>5. CASE CredentialRevoked
  BY <1>2, <1>5 DEF CredentialRevoked, managerVars, localVars
<1>6. ASSUME NEW t \in Syncers, Fetch(t) PROVE ShutsDown'
  <2>1. /\ UNCHANGED <<streams, phase, toStop>>
        /\ (Push \in orphans' <=> Push \in orphans)
    BY <1>6 DEF Fetch
  <2> QED BY <2>1 DEF Tracked
<1>7. ASSUME NEW t \in Syncers \union {Main}, Manages(t) PROVE ShutsDown'
  <2>1. phase' = phase /\ orphans' = orphans
    BY <1>7 DEF Manages, agentVars
  <2>2. at[t] # "idle"
    BY <1>7 DEF Manages, StopStream, StartStream, Reconcile, Terminated, Reconciled,
                Launched, LaunchFails
  <2>3. SUFFICES ASSUME phase \in {"stopping", "stopped"}, Push \notin orphans
                 PROVE  ShutsDown'
    BY <1>3, <2>1
  <2>4. t = Main /\ phase = "stopping"
    BY <2>2, <2>3 DEF TasksKnown
  <2>5. at[t] \in {"reconciling", "terminating"} /\ Main \in Tasks /\ t \notin Syncers
    BY <2>2, <2>4 DEF TasksKnown, LabelsOf, Syncers
  <2>6. ASSUME NEW c \in Cameras, StopStream(t, c) PROVE ShutsDown'
    <3>1. /\ toStop' = [toStop EXCEPT ![Main] = @ \ {c}]
          /\ streams' = [streams EXCEPT ![c] = None]
      BY <2>4, <2>6 DEF StopStream
    <3>2. Tracked' \subseteq toStop'[Main]
      BY <1>1, <2>3, <2>4, <2>5, <3>1 DEF Tracked
    <3> QED BY <2>1, <2>4, <3>2
  <2>7. ASSUME NEW c \in Cameras, StartStream(t, c) PROVE FALSE
    BY <2>4, <2>7 DEF StartStream, TasksKnown
  <2>8. CASE Terminated(t)
    BY <1>2, <2>1, <2>8 DEF Terminated, localVars
  <2> QED BY <1>7, <2>5, <2>6, <2>7, <2>8 DEF Manages, Reconcile, Launched, LaunchFails
<1>8. CASE ChecksHealth
  BY <1>2, <1>8 DEF ChecksHealth, CheckStarts, CheckEnds, LeaveAlone, NoticeDeath,
                    Relaunch, Launched, LaunchFails, agentVars, localVars
<1>9. CASE HeartbeatRefused \/ HeartbeatRaises \/ Signalled
  BY <1>3, <1>9 DEF HeartbeatRefused, HeartbeatRaises, Signalled
<1>10. CASE HealthStops
  <2>1. /\ phase' = "stopping" /\ UNCHANGED <<streams, orphans>>
        /\ toStop' = [toStop EXCEPT ![Main] = Tracked]
    BY <1>10 DEF HealthStops
  <2>2. Main \in Tasks
    OBVIOUS
  <2> QED BY <1>1, <2>1, <2>2 DEF Tracked
<1>11. CASE Stopped
  <2>1. /\ phase = "stopping" /\ toStop[Main] = {} /\ phase' = "stopped"
        /\ UNCHANGED <<streams, orphans>>
    BY <1>11 DEF Stopped
  <2> QED BY <2>1 DEF Tracked
<1>12. CASE Environment
  BY <1>2, <1>12 DEF Environment, RetryTick, ProcessDies, agentVars, localVars
<1>13. CASE UNCHANGED vars
  BY <1>2, <1>13 DEF vars, managerVars, agentVars, localVars
<1> QED BY <1>4, <1>5, <1>6, <1>7, <1>8, <1>9, <1>10, <1>11, <1>12, <1>13 DEF Next

(***************************************************************************)
(* Entries, objects and processes.                                         *)
(***************************************************************************)
Sound == ObjectsSound /\ LaunchesSound /\ ProcessesTracked

\* Where entries, objects and owners stay as they are, processes may end and tasks may
\* stop launching.
LEMMA EntriesStay ==
  ASSUME Sound, UNCHANGED <<streams, camera, process, owner, strayed>>,
         \A o \in Objs : running'[o] <=> running[o],
         alive' \subseteq alive, signalled \subseteq signalled',
         \A t \in Tasks : Launching(t)' => at'[t] = at[t] /\ held'[t] = held[t]
  PROVE  Sound'
<1>1. \A o : Attached(o)' <=> Attached(o)
  BY DEF Attached
<1>2. EntriesBorn' /\ UnbornEmpty' /\ HandlesOwned' /\ AliveOwned'
  BY DEF Sound, ObjectsSound, EntriesBorn, UnbornEmpty, HandlesOwned, AliveOwned
<1>3. RunsKnown'
  BY <1>1 DEF Sound, ObjectsSound, RunsKnown
<1>4. LaunchesSound'
  <2> SUFFICES ASSUME NEW t \in Tasks, Launching(t)' PROVE LaunchSound(t)'
    BY DEF LaunchesSound, LaunchSound
  <2>1. at'[t] = at[t] /\ held'[t] = held[t] /\ Launching(t) /\ LaunchSound(t)
    BY DEF Launching, Sound, LaunchesSound
  <2> QED BY <2>1 DEF LaunchSound
<1>5. StraysOnlyByRace'
  <2> SUFFICES ASSUME NEW p \in alive'
               PROVE  \/ p \in signalled' \/ owner'[p] \in strayed'
                      \/ Attached(owner[p])' /\ process'[owner'[p]] = p
    BY DEF StraysOnlyByRace
  <2>1. \/ p \in signalled \/ owner[p] \in strayed
        \/ Attached(owner[p]) /\ process[owner[p]] = p
    BY DEF Sound, ProcessesTracked, StraysOnlyByRace
  <2> QED BY <2>1, <1>1
<1>6. OneLauncherPerObject'
  <2>1. \A t, u \in Tasks : Launching(t) /\ Launching(u) /\ held[t] = held[u] => t = u
    BY DEF Sound, ProcessesTracked, OneLauncherPerObject, Launching
  <2> QED BY <2>1 DEF OneLauncherPerObject, Launching
<1> QED BY <1>2, <1>3, <1>4, <1>5, <1>6 DEF Sound, ObjectsSound, ProcessesTracked

\* An entry is popped together with the signal to its process.
LEMMA StopStreamKeeps ==
  ASSUME TypeOK, Sound, NEW t \in Tasks, NEW c \in Cameras, StopStream(t, c)
  PROVE  Sound'
<1> DEFINE o == streams[c]
<1>1. /\ streams \in [Cameras -> Objs \union {None}] /\ running \in [Objs -> BOOLEAN]
      /\ at \in [Tasks -> Labels] /\ held \in [Tasks -> Objs \union {None}]
      /\ camera \in [Objs -> Cameras \union {None}]
      /\ owner \in [Procs -> Objs \union {None}] /\ alive \subseteq Procs
  BY DEF TypeOK, ManagerTypeOK
<1>2. /\ at[t] = "reconciling" /\ streams' = [streams EXCEPT ![c] = None]
      /\ UNCHANGED <<camera, process, owner, alive, strayed>>
  BY DEF StopStream
<1>3. CASE o = None
  <2>1. UNCHANGED <<running, signalled, at, held>> /\ streams' = streams
    BY <1>1, <1>2, <1>3 DEF StopStream
  <2> QED BY <1>2, <2>1, EntriesStay
<1>4. CASE o # None
  <2>1. /\ running' = [running EXCEPT ![o] = FALSE]
        /\ o \in Objs /\ camera[o] = c
    BY <1>1, <1>4 DEF StopStream, Sound, ObjectsSound, EntriesBorn
  <2>2. /\ signalled \subseteq signalled'
        /\ process[o] \in alive => process[o] \in signalled'
    BY <1>4 DEF StopStream
  <2>3. \A u \in Tasks : Launching(u)' => Launching(u) /\ at'[u] = at[u] /\ held'[u] = held[u]
    <3>1. CASE process[o] \in alive
      <4>1. at' = [at EXCEPT ![t] = "terminating"] /\ held' = [held EXCEPT ![t] = o]
        BY <1>4, <3>1 DEF StopStream
      <4> QED BY <1>1, <4>1 DEF Launching
    <3>2. CASE process[o] \notin alive
      BY <1>4, <3>2 DEF StopStream, Launching
    <3> QED BY <3>1, <3>2
  <2>4. \A x \in Objs : (Attached(x)' <=> Attached(x) /\ x # o) /\ (running'[x] <=> running[x] /\ x # o)
    <3> SUFFICES ASSUME NEW x \in Objs
                 PROVE  (Attached(x)' <=> Attached(x) /\ x # o) /\ (running'[x] <=> running[x] /\ x # o)
      OBVIOUS
    <3>1. running'[x] <=> running[x] /\ x # o
      BY <1>1, <2>1
    <3>2. Attached(x)' <=> Attached(x) /\ x # o
      BY <1>1, <1>2, <2>1 DEF Attached
    <3> QED BY <3>1, <3>2
  <2> HIDE DEF o
  <2>5. EntriesBorn' /\ HandlesOwned' /\ AliveOwned'
    BY <1>1, <1>2 DEF Sound, ObjectsSound, EntriesBorn, HandlesOwned, AliveOwned
  <2>6. UnbornEmpty' /\ RunsKnown'
    BY <1>2, <2>4 DEF Sound, ObjectsSound, UnbornEmpty, RunsKnown
  <2>7. LaunchesSound'
    <3> SUFFICES ASSUME NEW u \in Tasks, Launching(u)' PROVE LaunchSound(u)'
      BY DEF LaunchesSound, LaunchSound
    <3>1. at'[u] = at[u] /\ held'[u] = held[u] /\ Launching(u) /\ LaunchSound(u)
      BY <2>3 DEF Sound, LaunchesSound
    <3>2. ~running'[held[u]]
      BY <2>4, <3>1 DEF LaunchSound
    <3> QED BY <1>2, <3>1, <3>2 DEF LaunchSound
  <2>8. StraysOnlyByRace'
    <3> SUFFICES ASSUME NEW p \in alive
                 PROVE  \/ p \in signalled' \/ owner[p] \in strayed
                        \/ Attached(owner[p])' /\ process[owner[p]] = p
      BY <1>2 DEF StraysOnlyByRace
    <3>1. \/ p \in signalled \/ owner[p] \in strayed
          \/ Attached(owner[p]) /\ process[owner[p]] = p
      BY DEF Sound, ProcessesTracked, StraysOnlyByRace
    <3>2. owner[p] \in Objs
      BY <1>1 DEF Sound, ObjectsSound, AliveOwned
    <3>3. PICK x \in Objs : x = owner[p]
      BY <3>2
    <3>4. Attached(x)' <=> Attached(owner[p])'
      BY <1>2, <3>3 DEF Attached
    <3>5. Attached(x) <=> Attached(owner[p])
      BY <3>3
    <3>6. Attached(x)' <=> Attached(x) /\ x # o
      BY <2>4
    <3>7. CASE p \in signalled \/ owner[p] \in strayed
      BY <2>2, <3>7
    <3>8. CASE Attached(owner[p]) /\ process[owner[p]] = p /\ x = o
      <4>1. process[o] = p
        BY <3>3, <3>8
      <4> QED BY <2>2, <4>1
    <3>9. CASE Attached(owner[p]) /\ process[owner[p]] = p /\ x # o
      <4>1. Attached(x)
        BY <3>5, <3>9
      <4>2. Attached(x)'
        BY <3>6, <3>9, <4>1
      <4>3. Attached(owner[p])'
        BY <3>4, <4>2
      <4> QED BY <3>9, <4>3
    <3> QED BY <3>1, <3>7, <3>8, <3>9
  <2>9. OneLauncherPerObject'
    BY <2>3 DEF Sound, ProcessesTracked, OneLauncherPerObject, Launching
  <2> QED BY <2>5, <2>6, <2>7, <2>8, <2>9 DEF Sound, ObjectsSound, ProcessesTracked
<1> QED BY <1>3, <1>4

\* The object that loses its place to a new one has no process that runs.
LEMMA StartStreamKeeps ==
  ASSUME TypeOK, Sound, NEW t \in Tasks, NEW c \in Cameras, StartStream(t, c)
  PROVE  Sound'
<1>1. /\ streams \in [Cameras -> Objs \union {None}] /\ running \in [Objs -> BOOLEAN]
      /\ at \in [Tasks -> Labels] /\ held \in [Tasks -> Objs \union {None}]
      /\ camera \in [Objs -> Cameras \union {None}]
      /\ process \in [Objs -> Procs \union {None}]
      /\ owner \in [Procs -> Objs \union {None}] /\ alive \subseteq Procs
  BY DEF TypeOK, ManagerTypeOK
<1>2. at[t] = "reconciling" /\ UNCHANGED <<running, process, owner, alive, signalled, strayed>>
  BY DEF StartStream, procVars
<1>3. CASE streams[c] # None /\ IsRunning(streams[c])
  <2>1. UNCHANGED <<streams, camera, at, held>>
    BY <1>3 DEF StartStream
  <2> QED BY <1>2, <2>1, EntriesStay
<1>4. CASE ~(streams[c] # None /\ IsRunning(streams[c]))
  <2>1. NewObj \in Objs /\ camera[NewObj] = None
    BY <1>4, NewObjIsNew DEF StartStream
  <2>2. PICK n \in Objs :
          /\ camera[n] = None /\ camera' = [camera EXCEPT ![n] = c]
          /\ streams' = [streams EXCEPT ![c] = n]
          /\ held' = [held EXCEPT ![t] = n] /\ at' = [at EXCEPT ![t] = "launching"]
    BY <1>4, <2>1 DEF StartStream
  <2>3. process[n] = None /\ ~running[n]
    BY <2>2 DEF Sound, ObjectsSound, UnbornEmpty
  <2>4. \A x \in Objs \ {n} : Attached(x)' => Attached(x)
    BY <1>1, <2>2 DEF Attached
  <2>5. \A x \in Objs \ {n} : Attached(x) /\ process[x] \in alive => Attached(x)'
    <3> SUFFICES ASSUME NEW x \in Objs \ {n}, Attached(x), process[x] \in alive
                 PROVE  Attached(x)'
      OBVIOUS
    <3>1. running[x] /\ process[x] # None
      BY <1>1 DEF Sound, ObjectsSound, RunsKnown
    <3>2. streams[camera[x]] = x /\ camera[x] \in Cameras /\ x # None
      BY <1>1 DEF Attached
    <3>3. camera[x] # c
      BY <1>4, <3>1, <3>2 DEF IsRunning
    <3> QED BY <1>1, <2>2, <3>2, <3>3 DEF Attached
  <2>6. EntriesBorn'
    BY <1>1, <2>2 DEF Sound, ObjectsSound, EntriesBorn
  <2>7. UnbornEmpty'
    BY <1>1, <1>2, <2>2 DEF Sound, ObjectsSound, UnbornEmpty
  <2>8. HandlesOwned' /\ AliveOwned'
    BY <1>2 DEF Sound, ObjectsSound, HandlesOwned, AliveOwned
  <2>9. RunsKnown'
    BY <1>1, <1>2, <2>3, <2>4 DEF Sound, ObjectsSound, RunsKnown
  <2>10. \A u \in Tasks : Launching(u) => held[u] # n
    BY <2>2 DEF Sound, LaunchesSound, LaunchSound
  <2>11. \A u \in Tasks \ {t} : at'[u] = at[u] /\ held'[u] = held[u]
    BY <1>1, <2>2
  <2>12. at'[t] = "launching" /\ held'[t] = n
    BY <1>1, <2>2
  <2>13. LaunchesSound'
    <3> SUFFICES ASSUME NEW u \in Tasks, Launching(u)' PROVE LaunchSound(u)'
      BY DEF LaunchesSound, LaunchSound
    <3>1. CASE u = t
      <4>1. camera'[n] # None
        BY <1>1, <2>2
      <4> QED BY <1>2, <2>3, <2>12, <3>1, <4>1 DEF LaunchSound
    <3>2. CASE u # t
      <4>1. at'[u] = at[u] /\ held'[u] = held[u] /\ Launching(u)
        BY <2>11, <3>2 DEF Launching
      <4>2. LaunchSound(u) /\ held[u] # n
        BY <2>10, <4>1 DEF Sound, LaunchesSound
      <4>3. held[u] \in Objs /\ camera'[held[u]] = camera[held[u]]
        BY <1>1, <2>2, <4>1, <4>2 DEF LaunchSound
      <4> QED BY <1>2, <4>1, <4>2, <4>3 DEF LaunchSound
    <3> QED BY <3>1, <3>2
  <2>14. StraysOnlyByRace'
    <3> SUFFICES ASSUME NEW p \in alive
                 PROVE  \/ p \in signalled \/ owner[p] \in strayed
                        \/ Attached(owner[p])' /\ process[owner[p]] = p
      BY <1>2 DEF StraysOnlyByRace
    <3>1. \/ p \in signalled \/ owner[p] \in strayed
          \/ Attached(owner[p]) /\ process[owner[p]] = p
      BY DEF Sound, ProcessesTracked, StraysOnlyByRace
    <3>2. owner[p] \in Objs
      BY <1>1 DEF Sound, ObjectsSound, AliveOwned
    <3>3. PICK x \in Objs : x = owner[p]
      BY <3>2
    <3>4. Attached(x)' <=> Attached(owner[p])'
      BY <1>2, <3>3 DEF Attached
    <3>5. Attached(x) <=> Attached(owner[p])
      BY <3>3
    <3>6. Attached(x) => x # n
      BY <2>2 DEF Attached
    <3>7. Attached(x) /\ process[x] \in alive => Attached(x)'
      BY <2>5, <3>6
    <3> QED BY <3>1, <3>3, <3>4, <3>5, <3>7
  <2>15. OneLauncherPerObject'
    <3>1. \A u, v \in Tasks : Launching(u) /\ Launching(v) /\ held[u] = held[v] => u = v
      BY DEF Sound, ProcessesTracked, OneLauncherPerObject, Launching
    <3> SUFFICES ASSUME NEW u \in Tasks, NEW v \in Tasks, Launching(u)', Launching(v)',
                        held'[u] = held'[v]
                 PROVE  u = v
      BY DEF OneLauncherPerObject, Launching
    <3>2. \A w \in Tasks \ {t} : Launching(w)' => Launching(w)
      BY <2>11 DEF Launching
    <3> QED BY <2>10, <2>11, <2>12, <3>1, <3>2
  <2> QED BY <2>6, <2>7, <2>8, <2>9, <2>13, <2>14, <2>15
          DEF Sound, ObjectsSound, ProcessesTracked
<1> QED BY <1>3, <1>4

\* A process is new, and its object takes it over from one that is dead, or is strayed.
LEMMA LaunchedKeeps ==
  ASSUME TypeOK, Sound, NEW t \in Tasks, Launched(t)
  PROVE  Sound'
<1>1. /\ running \in [Objs -> BOOLEAN] /\ process \in [Objs -> Procs \union {None}]
      /\ at \in [Tasks -> Labels] /\ held \in [Tasks -> Objs \union {None}]
      /\ owner \in [Procs -> Objs \union {None}] /\ alive \subseteq Procs
  BY DEF TypeOK, ManagerTypeOK
<1>2. Launching(t) /\ LaunchSound(t)
  BY DEF Launched, Launching, Sound, LaunchesSound
<1>3. PICK o \in Objs : held[t] = o
  BY <1>2 DEF LaunchSound
<1>4. camera[o] # None /\ ~running[o]
  BY <1>2, <1>3 DEF LaunchSound
<1>5. NewProc \in Procs /\ owner[NewProc] = None
  BY NewProcIsNew DEF Launched
<1>6. PICK n \in Procs :
        /\ owner[n] = None /\ owner' = [owner EXCEPT ![n] = o]
        /\ alive' = alive \union {n} /\ process' = [process EXCEPT ![o] = n]
        /\ running' = [running EXCEPT ![o] = TRUE]
  BY <1>3, <1>5 DEF Launched
<1>7. /\ UNCHANGED <<streams, camera, signalled>>
      /\ strayed' = IF Attached(o) THEN strayed ELSE strayed \union {o}
  BY <1>3 DEF Launched
<1>8. n \notin alive /\ \A x \in Objs : process[x] # n
  BY <1>6 DEF Sound, ObjectsSound, AliveOwned, HandlesOwned
<1>9. \A u \in Tasks : Launching(u)' =>
        u # t /\ Launching(u) /\ at'[u] = at[u] /\ held'[u] = held[u]
  <2>1. AfterLaunch(t) \in {"checking", "reconciling"}
    BY DEF AfterLaunch
  <2>2. at' = [at EXCEPT ![t] = AfterLaunch(t)] /\ held' = [held EXCEPT ![t] = None]
    BY DEF Launched, Resume
  <2> QED BY <1>1, <2>1, <2>2 DEF Launching
<1>10. \A x : Attached(x)' <=> Attached(x)
  BY <1>7 DEF Attached
<1>11. \A x \in Objs \ {o} : process'[x] = process[x] /\ (running'[x] <=> running[x])
  BY <1>1, <1>6
<1>12. process'[o] = n /\ running'[o]
  BY <1>1, <1>6
<1>13. \A p \in Procs \ {n} : owner'[p] = owner[p]
  BY <1>1, <1>6
<1>14. owner'[n] = o /\ o # None
  BY <1>1, <1>6
<1>15. EntriesBorn' /\ UnbornEmpty'
  BY <1>4, <1>7, <1>11 DEF Sound, ObjectsSound, EntriesBorn, UnbornEmpty
<1>16. HandlesOwned'
  <2> SUFFICES ASSUME NEW x \in Objs, process'[x] # None PROVE owner'[process'[x]] = x
    BY DEF HandlesOwned
  <2>1. CASE x = o
    BY <1>12, <1>14, <2>1
  <2>2. CASE x # o
    BY <1>1, <1>8, <1>11, <1>13, <2>2 DEF Sound, ObjectsSound, HandlesOwned
  <2> QED BY <2>1, <2>2
<1>17. AliveOwned'
  BY <1>1, <1>6, <1>13, <1>14 DEF Sound, ObjectsSound, AliveOwned
<1>18. RunsKnown'
  <2> SUFFICES ASSUME NEW x \in Objs, Attached(x)', process'[x] \in alive' PROVE running'[x]
    BY DEF RunsKnown
  <2>1. CASE x = o
    BY <1>12, <2>1
  <2>2. CASE x # o
    BY <1>6, <1>8, <1>10, <1>11, <2>2 DEF Sound, ObjectsSound, RunsKnown
  <2> QED BY <2>1, <2>2
<1>19. LaunchesSound'
  <2> SUFFICES ASSUME NEW u \in Tasks, Launching(u)' PROVE LaunchSound(u)'
    BY DEF LaunchesSound, LaunchSound
  <2>1. u # t /\ Launching(u) /\ at'[u] = at[u] /\ held'[u] = held[u]
    BY <1>9
  <2>2. LaunchSound(u)
    BY DEF Sound, LaunchesSound
  <2>3. held[u] \in Objs /\ held[u] # o
    BY <1>2, <1>3, <2>1, <2>2
       DEF Sound, ProcessesTracked, OneLauncherPerObject, Launching, LaunchSound
  <2> QED BY <1>7, <1>11, <2>1, <2>2, <2>3 DEF LaunchSound
<1>20. StraysOnlyByRace'
  <2> SUFFICES ASSUME NEW p \in alive'
               PROVE  \/ p \in signalled' \/ owner'[p] \in strayed'
                      \/ Attached(owner[p])' /\ process'[owner'[p]] = p
    BY DEF StraysOnlyByRace
  <2>1. CASE p = n
    BY <1>7, <1>10, <1>12, <1>14, <2>1
  <2>2. CASE p # n
    <3>1. p \in alive /\ p \in Procs /\ owner'[p] = owner[p] /\ owner[p] \in Objs
      BY <1>1, <1>6, <1>13, <2>2 DEF Sound, ObjectsSound, AliveOwned
    <3>2. \/ p \in signalled \/ owner[p] \in strayed
          \/ Attached(owner[p]) /\ process[owner[p]] = p
      BY <3>1 DEF Sound, ProcessesTracked, StraysOnlyByRace
    <3>3. Attached(owner[p]) /\ process[owner[p]] = p => owner[p] # o
      BY <1>4, <3>1 DEF Sound, ObjectsSound, RunsKnown
    <3>4. strayed \subseteq strayed'
      BY <1>7
    <3> QED BY <1>7, <1>10, <1>11, <3>1, <3>2, <3>3, <3>4
  <2> QED BY <2>1, <2>2
<1>21. OneLauncherPerObject'
  BY <1>9 DEF Sound, ProcessesTracked, OneLauncherPerObject, Launching
<1> QED BY <1>15, <1>16, <1>17, <1>18, <1>19, <1>20, <1>21
        DEF Sound, ObjectsSound, ProcessesTracked

LEMMA LaunchFailsKeeps ==
  ASSUME TypeOK, Sound, NEW t \in Tasks, LaunchFails(t)
  PROVE  Sound'
<1>1. /\ running \in [Objs -> BOOLEAN] /\ at \in [Tasks -> Labels]
      /\ held \in [Tasks -> Objs \union {None}]
  BY DEF TypeOK, ManagerTypeOK
<1>2. held[t] \in Objs /\ ~running[held[t]]
  BY DEF LaunchFails, Launching, Sound, LaunchesSound, LaunchSound
<1>3. \A o \in Objs : running'[o] <=> running[o]
  <2> SUFFICES ASSUME NEW o \in Objs PROVE running'[o] <=> running[o]
    OBVIOUS
  <2>1. running' = [running EXCEPT ![held[t]] = FALSE]
    BY DEF LaunchFails
  <2>2. CASE o = held[t]
    BY <1>1, <1>2, <2>1, <2>2
  <2>3. CASE o # held[t]
    BY <1>1, <1>2, <2>1, <2>3
  <2> QED BY <2>2, <2>3
<1>4. \A u \in Tasks : Launching(u)' => at'[u] = at[u] /\ held'[u] = held[u]
  <2>1. AfterLaunch(t) \in {"checking", "reconciling"}
    BY DEF AfterLaunch
  <2>2. at' = [at EXCEPT ![t] = AfterLaunch(t)] /\ held' = [held EXCEPT ![t] = None]
    BY DEF LaunchFails, Resume
  <2> QED BY <1>1, <2>1, <2>2 DEF Launching
<1>5. UNCHANGED <<streams, camera, process, owner, strayed, alive, signalled>>
  BY DEF LaunchFails, procVars
<1> QED BY <1>3, <1>4, <1>5, EntriesStay

LEMMA NoticeDeathKeeps ==
  ASSUME TypeOK, Sound, NEW t \in Tasks, NEW o \in Objs, NoticeDeath(t, o)
  PROVE  Sound'
<1>1. running \in [Objs -> BOOLEAN]
  BY DEF TypeOK, ManagerTypeOK
<1>2. /\ process[o] # None /\ process[o] \notin alive
      /\ running' = [running EXCEPT ![o] = FALSE]
      /\ UNCHANGED <<streams, camera, process, owner, strayed, alive, signalled, at, held>>
  BY DEF NoticeDeath, procVars
<1>3. \A x \in Objs : running'[x] <=> running[x] /\ x # o
  BY <1>1, <1>2
<1>4. \A x : Attached(x)' <=> Attached(x)
  BY <1>2 DEF Attached
<1>5. EntriesBorn' /\ UnbornEmpty' /\ HandlesOwned' /\ AliveOwned'
  BY <1>2, <1>3
     DEF Sound, ObjectsSound, EntriesBorn, UnbornEmpty, HandlesOwned, AliveOwned
<1>6. RunsKnown'
  BY <1>2, <1>3, <1>4 DEF Sound, ObjectsSound, RunsKnown
<1>7. LaunchesSound'
  <2> SUFFICES ASSUME NEW u \in Tasks, Launching(u)' PROVE LaunchSound(u)'
    BY DEF LaunchesSound, LaunchSound
  <2>1. LaunchSound(u) /\ Launching(u)
    BY <1>2 DEF Sound, LaunchesSound, Launching
  <2>2. ~running'[held[u]]
    BY <1>3, <2>1 DEF LaunchSound
  <2> QED BY <1>2, <2>1, <2>2 DEF LaunchSound
<1>8. StraysOnlyByRace' /\ OneLauncherPerObject'
  BY <1>2, <1>4 DEF Sound, ProcessesTracked, StraysOnlyByRace, OneLauncherPerObject
<1> QED BY <1>5, <1>6, <1>7, <1>8 DEF Sound, ObjectsSound, ProcessesTracked

\* Nobody else is launching an object whose process was found dead: a new object has no
\* process before its launch ends.
LEMMA RelaunchKeeps ==
  ASSUME TypeOK, TasksKnown, Sound, NEW o \in Objs, Relaunch(Health, o)
  PROVE  Sound'
<1>1. /\ at \in [Tasks -> Labels] /\ held \in [Tasks -> Objs \union {None}]
      /\ Health \in Tasks
  BY DEF TypeOK, ManagerTypeOK
<1>2. /\ at[Health] = "checking" /\ ~running[o] /\ process[o] # None
      /\ at' = [at EXCEPT ![Health] = "relaunching"] /\ held' = [held EXCEPT ![Health] = o]
      /\ UNCHANGED <<streams, camera, process, running, owner, strayed, alive, signalled>>
  BY DEF Relaunch, Inspect, procVars
<1>3. \A u \in Tasks \ {Health} : at'[u] = at[u] /\ held'[u] = held[u]
  BY <1>1, <1>2
<1>4. at'[Health] = "relaunching" /\ held'[Health] = o
  BY <1>1, <1>2
<1>5. \A u \in Tasks : at[u] # "relaunching"
  BY <1>2 DEF TasksKnown, LabelsOf
<1>6. \A u \in Tasks : Launching(u) => held[u] # o
  BY <1>2, <1>5 DEF Sound, LaunchesSound, LaunchSound, Launching
<1>7. \A x : Attached(x)' <=> Attached(x)
  BY <1>2 DEF Attached
<1>8. EntriesBorn' /\ UnbornEmpty' /\ HandlesOwned' /\ AliveOwned'
  BY <1>2 DEF Sound, ObjectsSound, EntriesBorn, UnbornEmpty, HandlesOwned, AliveOwned
<1>9. RunsKnown' /\ StraysOnlyByRace'
  BY <1>2, <1>7 DEF Sound, ObjectsSound, RunsKnown, ProcessesTracked, StraysOnlyByRace
<1>10. LaunchesSound'
  <2> SUFFICES ASSUME NEW u \in Tasks, Launching(u)' PROVE LaunchSound(u)'
    BY DEF LaunchesSound, LaunchSound
  <2>1. CASE u = Health
    <3>1. camera[o] # None
      BY <1>2 DEF Sound, ObjectsSound, UnbornEmpty
    <3> QED BY <1>2, <1>4, <2>1, <3>1 DEF LaunchSound
  <2>2. CASE u # Health
    <3>1. at'[u] = at[u] /\ held'[u] = held[u] /\ Launching(u)
      BY <1>3, <2>2 DEF Launching
    <3>2. LaunchSound(u)
      BY DEF Sound, LaunchesSound
    <3> QED BY <1>2, <3>1, <3>2 DEF LaunchSound
  <2> QED BY <2>1, <2>2
<1>11. OneLauncherPerObject'
  <2>1. \A u, v \in Tasks : Launching(u) /\ Launching(v) /\ held[u] = held[v] => u = v
    BY DEF Sound, ProcessesTracked, OneLauncherPerObject, Launching
  <2> SUFFICES ASSUME NEW u \in Tasks, NEW v \in Tasks, Launching(u)', Launching(v)',
                      held'[u] = held'[v]
               PROVE  u = v
    BY DEF OneLauncherPerObject, Launching
  <2>2. \A w \in Tasks \ {Health} : Launching(w)' => Launching(w)
    BY <1>3 DEF Launching
  <2> QED BY <1>3, <1>4, <1>6, <2>1, <2>2
<1> QED BY <1>8, <1>9, <1>10, <1>11 DEF Sound, ObjectsSound, ProcessesTracked

LEMMA StepKeepsSound ==
  ASSUME TypeOK, TasksKnown, Sound, [Next]_vars
  PROVE  Sound'
<1>1. at \in [Tasks -> Labels] /\ held \in [Tasks -> Objs \union {None}]
  BY DEF TypeOK, ManagerTypeOK
<1>2. ASSUME UNCHANGED <<streams, camera, process, running, owner, strayed, signalled>>,
             alive' \subseteq alive,
             \A t \in Tasks : Launching(t)' => at'[t] = at[t] /\ held'[t] = held[t]
      PROVE  Sound'
  BY <1>2, EntriesStay
<1>3. ASSUME UNCHANGED <<streams, camera, process, running, owner, strayed, alive,
                         signalled, at, held>>
      PROVE  Sound'
  BY <1>2, <1>3
<1>4. ASSUME NEW c \in Cameras, ConfigChanges(c) PROVE Sound'
  BY <1>3, <1>4 DEF ConfigChanges, managerVars, objVars, procVars
<1>5. CASE CredentialRevoked
  BY <1>3, <1>5 DEF CredentialRevoked, managerVars, objVars, procVars
<1>6. ASSUME NEW t \in Tasks, NEW x \in {"idle", "fetched", "reconciling", "checking"},
             at' = [at EXCEPT ![t] = x], held' = held \/ held' = [held EXCEPT ![t] = None]
      PROVE  \A u \in Tasks : Launching(u)' => at'[u] = at[u] /\ held'[u] = held[u]
  BY <1>1, <1>6 DEF Launching
<1>7. ASSUME NEW t \in Syncers, Fetch(t) PROVE Sound'
  <2>1. /\ t \in Tasks /\ at' = [at EXCEPT ![t] = "fetched"] /\ held' = held
        /\ UNCHANGED <<streams, camera, process, running, owner, strayed, alive, signalled>>
    BY <1>7 DEF Fetch, objVars, procVars
  <2>2. \A u \in Tasks : Launching(u)' => at'[u] = at[u] /\ held'[u] = held[u]
    BY <1>6, <2>1
  <2> QED BY <1>2, <2>1, <2>2
<1>8. ASSUME NEW t \in Syncers \union {Main}, Manages(t) PROVE Sound'
  <2>1. t \in Tasks
    OBVIOUS
  <2>2. ASSUME NEW c \in Cameras, StopStream(t, c) \/ StartStream(t, c) PROVE Sound'
    BY <2>1, <2>2, StopStreamKeeps, StartStreamKeeps
  <2>3. CASE Reconcile(t)
    <3>1. /\ at' = [at EXCEPT ![t] = "reconciling"] /\ held' = held
          /\ UNCHANGED <<streams, camera, process, running, owner, strayed, alive, signalled>>
      BY <2>3 DEF Reconcile, objVars, procVars
    <3>2. \A u \in Tasks : Launching(u)' => at'[u] = at[u] /\ held'[u] = held[u]
      BY <1>6, <2>1, <3>1
    <3> QED BY <1>2, <3>1, <3>2
  <2>4. CASE Terminated(t)
    <3>1. /\ at' = [at EXCEPT ![t] = "reconciling"] /\ held' = [held EXCEPT ![t] = None]
          /\ UNCHANGED <<streams, camera, process, running, owner, strayed, signalled>>
          /\ alive' \subseteq alive
      BY <2>4 DEF Terminated, Resume, objVars
    <3>2. \A u \in Tasks : Launching(u)' => at'[u] = at[u] /\ held'[u] = held[u]
      BY <1>6, <2>1, <3>1
    <3> QED BY <1>2, <3>1, <3>2
  <2>5. CASE Reconciled(t)
    <3>1. /\ at' = [at EXCEPT ![t] = "idle"] /\ held' = held
          /\ UNCHANGED <<streams, camera, process, running, owner, strayed, alive, signalled>>
      BY <2>5 DEF Reconciled, objVars, procVars
    <3>2. \A u \in Tasks : Launching(u)' => at'[u] = at[u] /\ held'[u] = held[u]
      BY <1>6, <2>1, <3>1
    <3> QED BY <1>2, <3>1, <3>2
  <2>6. CASE Launched(t) \/ LaunchFails(t)
    BY <2>1, <2>6, LaunchedKeeps, LaunchFailsKeeps
  <2> QED BY <1>8, <2>2, <2>3, <2>4, <2>5, <2>6 DEF Manages
<1>9. CASE ChecksHealth
  <2>1. Health \in Tasks
    OBVIOUS
  <2>2. CASE CheckStarts(Health)
    <3>1. /\ at' = [at EXCEPT ![Health] = "checking"] /\ held' = held
          /\ UNCHANGED <<streams, camera, process, running, owner, strayed, alive, signalled>>
      BY <2>2 DEF CheckStarts, objVars, procVars
    <3>2. \A u \in Tasks : Launching(u)' => at'[u] = at[u] /\ held'[u] = held[u]
      BY <1>6, <2>1, <3>1
    <3> QED BY <1>2, <3>1, <3>2
  <2>3. CASE CheckEnds(Health)
    <3>1. /\ at' = [at EXCEPT ![Health] = "idle"] /\ held' = held
          /\ UNCHANGED <<streams, camera, process, running, owner, strayed, alive, signalled>>
      BY <2>3 DEF CheckEnds, objVars, procVars
    <3>2. \A u \in Tasks : Launching(u)' => at'[u] = at[u] /\ held'[u] = held[u]
      BY <1>6, <2>1, <3>1
    <3> QED BY <1>2, <3>1, <3>2
  <2>4. ASSUME NEW o \in Objs, LeaveAlone(Health, o) PROVE Sound'
    BY <1>3, <2>4 DEF LeaveAlone, objVars, procVars
  <2>5. ASSUME NEW o \in Objs, NoticeDeath(Health, o) \/ Relaunch(Health, o) PROVE Sound'
    BY <2>1, <2>5, NoticeDeathKeeps, RelaunchKeeps
  <2>6. CASE Launched(Health) \/ LaunchFails(Health)
    BY <2>1, <2>6, LaunchedKeeps, LaunchFailsKeeps
  <2> QED BY <1>9, <2>2, <2>3, <2>4, <2>5, <2>6 DEF ChecksHealth
<1>10. CASE HeartbeatRefused \/ HeartbeatRaises \/ Signalled
  <2>1. CASE HeartbeatRaises
    BY <1>3, <2>1 DEF HeartbeatRaises, managerVars, objVars, procVars
  <2>2. CASE HeartbeatRefused \/ Signalled
    <3>1. PICK S \in {Syncers, Syncers \ orphans} :
            /\ at' = [t \in Tasks |-> IF t \in S THEN "idle" ELSE at[t]]
            /\ held' = [t \in Tasks |-> IF t \in S THEN None ELSE held[t]]
            /\ UNCHANGED <<streams, camera, process, running, owner, strayed, alive,
                           signalled>>
      BY <2>2 DEF HeartbeatRefused, Signalled, Cancel, objVars, procVars
    <3>2. \A u \in Tasks : Launching(u)' => at'[u] = at[u] /\ held'[u] = held[u]
      BY <3>1 DEF Launching
    <3> QED BY <1>2, <3>1, <3>2
  <2> QED BY <1>10, <2>1, <2>2
<1>11. CASE HealthStops
  <2>1. /\ at' = [at EXCEPT ![Health] = "idle", ![Main] = "reconciling"]
        /\ held' = [held EXCEPT ![Health] = None]
        /\ UNCHANGED <<streams, camera, process, running, owner, strayed, alive, signalled>>
    BY <1>11 DEF HealthStops, objVars, procVars
  <2>2. \A u \in Tasks : Launching(u)' => at'[u] = at[u] /\ held'[u] = held[u]
    BY <1>1, <2>1 DEF Launching
  <2> QED BY <1>2, <2>1, <2>2
<1>12. CASE Stopped
  <2>1. /\ Main \in Tasks /\ at' = [at EXCEPT ![Main] = "idle"] /\ held' = held
        /\ UNCHANGED <<streams, camera, process, running, owner, strayed, alive, signalled>>
    BY <1>12 DEF Stopped, objVars, procVars
  <2>2. \A u \in Tasks : Launching(u)' => at'[u] = at[u] /\ held'[u] = held[u]
    BY <1>6, <2>1
  <2> QED BY <1>2, <2>1, <2>2
<1>13. CASE Environment
  <2>1. /\ UNCHANGED <<streams, camera, process, running, owner, strayed, signalled, at, held>>
        /\ alive' \subseteq alive
    BY <1>13 DEF Environment, RetryTick, ProcessDies, objVars, procVars
  <2> QED BY <1>2, <2>1
<1>14. CASE UNCHANGED vars
  BY <1>3, <1>14 DEF vars, managerVars, objVars, procVars
<1> QED BY <1>4, <1>5, <1>7, <1>8, <1>9, <1>10, <1>11, <1>12, <1>13, <1>14 DEF Next

(***************************************************************************)
(* The invariant, and what follows from it.                                *)
(***************************************************************************)
LEMMA AgentStart == Init => AgentInv
<1> SUFFICES ASSUME Init PROVE AgentInv
  OBVIOUS
<1> USE DEF Init, ManagerInit
<1>1. TypeOK
  <2>1. /\ restarts \in [Objs -> 0..RestartCap] /\ retryIn \in [Objs -> 0..MaxDelay]
        /\ running \in [Objs -> BOOLEAN] /\ at \in [Tasks -> Labels]
    BY DEF Labels
  <2> QED BY <2>1 DEF TypeOK, ManagerTypeOK
<1>2. TasksKnown /\ ShutsDown
  BY DEF TasksKnown, ShutsDown, LabelsOf, Syncers
<1>3. ObjectsSound
  BY DEF ObjectsSound, EntriesBorn, UnbornEmpty, HandlesOwned, AliveOwned, RunsKnown, Attached
<1>4. LaunchesSound /\ ProcessesTracked
  BY DEF LaunchesSound, LaunchSound, Launching, ProcessesTracked, StraysOnlyByRace,
         OneLauncherPerObject
<1> QED BY <1>1, <1>2, <1>3, <1>4 DEF AgentInv

LEMMA AgentStep == AgentInv /\ [Next]_vars => AgentInv'
<1> SUFFICES ASSUME AgentInv, [Next]_vars PROVE AgentInv'
  OBVIOUS
<1>1. TypeOK'
  BY StepKeepsAgentTypes DEF AgentInv
<1>2. TasksKnown' /\ ShutsDown'
  BY StepKeepsTasks, StepKeepsShutdown DEF AgentInv
<1>3. Sound'
  BY StepKeepsSound DEF AgentInv, Sound
<1> QED BY <1>1, <1>2, <1>3 DEF AgentInv, Sound

\* Entries, objects, processes and tasks keep their types.
THEOREM AgentTypeAlwaysOK == Spec => []TypeOK
<1>1. AgentInv => TypeOK
  BY DEF AgentInv
<1> QED BY AgentStart, AgentStep, <1>1, PTL DEF Spec

\* Every ffmpeg that runs is one that its camera's entry holds, or that was told to
\* stop, or the process of an object that was launched after it had lost its entry;
\* and no object is launched twice at once.
THEOREM ProcessesAlwaysTracked == Spec => []ProcessesTracked
<1>1. AgentInv => ProcessesTracked
  BY DEF AgentInv
<1> QED BY AgentStart, AgentStep, <1>1, PTL DEF Spec

\* When stop_all has returned there is no entry left, and what still runs was told to
\* stop or had strayed before; unless an exception of the heartbeat left the WebSocket
\* task behind run(), and then what else runs has its place in _streams.
THEOREM StopAlwaysLeavesNothing == Spec => []StopLeavesNothing
<1>1. AgentInv => StopLeavesNothing
  <2> SUFFICES ASSUME AgentInv, phase = "stopped"
               PROVE  /\ Tracked # {} => Push \in orphans
                      /\ \A p \in alive : \/ p \in signalled \/ owner[p] \in strayed
                                          \/ Push \in orphans /\ Attached(owner[p])
    BY DEF StopLeavesNothing
  <2>1. Tracked # {} => Push \in orphans
    BY DEF AgentInv, ShutsDown
  <2>2. ASSUME NEW p \in alive, p \notin signalled, owner[p] \notin strayed
        PROVE  Push \in orphans /\ Attached(owner[p])
    <3>1. owner[p] \in Objs
      BY DEF AgentInv, TypeOK, ManagerTypeOK, ObjectsSound, AliveOwned
    <3>2. Attached(owner[p])
      BY <2>2 DEF AgentInv, ProcessesTracked, StraysOnlyByRace
    <3>3. Tracked # {}
      BY <3>1, <3>2 DEF Attached, Tracked, AgentInv, TypeOK, ManagerTypeOK
    <3> QED BY <2>1, <3>2, <3>3
  <2> QED BY <2>1, <2>2
<1> QED BY AgentStart, AgentStep, <1>1, PTL DEF Spec

=============================================================================
