----------------------------- MODULE EdgeAgent -----------------------------
(***************************************************************************)
(* The edge agent's process: the tasks that drive the StreamManager, the   *)
(* configuration they fetch from the central server, the revocation of the *)
(* agent's credential and the shutdown.                                    *)
(*                                                                         *)
(* Poll stands for startup's first _sync_config and then for _poll_loop,   *)
(* Push for the WebSocket listener, whose messages call _sync_config too.  *)
(***************************************************************************)
EXTENDS StreamManager

CONSTANTS Poll, Push, Health, Main,
          MaxChanges,  \* bound: changes of the camera configuration
          MaxRaises    \* bound: heartbeats that end run() by an exception

Syncers == {Poll, Push}

ASSUME AgentAssumption ==
  /\ Tasks = Syncers \union {Health, Main}
  /\ Poll # Push /\ Poll # Health /\ Poll # Main
  /\ Push # Health /\ Push # Main /\ Health # Main
  /\ MaxChanges \in Nat /\ MaxRaises \in 0..1

VARIABLES phase,      \* where _main stands
          orphans,    \* syncing tasks that outlived run(), which held them
          wanted,     \* the server's configuration: camera -> rtsp_url
          credential, \* what the server thinks of the agent's API key
          changes

agentVars == <<phase, orphans, wanted, credential, changes>>
vars == <<managerVars, agentVars>>

Init ==
  /\ ManagerInit
  /\ phase = "running" /\ orphans = {}
  /\ wanted \in [Cameras -> Urls \union {None}]
  /\ credential = "valid"
  /\ changes = 0

----------------------------------------------------------------------------
(* The central server.                                                     *)

ConfigChanges(c) ==
  /\ changes < MaxChanges
  /\ changes' = changes + 1
  /\ \E u \in (Urls \union {None}) \ {wanted[c]} :
       wanted' = [wanted EXCEPT ![c] = u]
  /\ UNCHANGED <<managerVars, phase, orphans, credential>>

CredentialRevoked ==
  /\ credential = "valid"
  /\ credential' = "revoked"
  /\ UNCHANGED <<managerVars, phase, orphans, wanted, changes>>

----------------------------------------------------------------------------
(* _sync_config: get_config answers with the configuration of the moment,  *)
(* which may have changed when the task runs again.  When it fails, a 401  *)
(* included, the error is logged and nothing happens: no step.             *)

\* get_agent_config: what the server answers to the agent's key, if anything.
GetAgentConfig == IF credential = "valid" THEN {wanted} ELSE {}

\* An orphan goes on until the client is closed: Push for as long, Poll to the
\* end of the turn in which it finds _running false.
Fetch(t) ==
  /\ phase = "running" \/ (t \in orphans /\ phase # "stopped")
  /\ orphans' = IF phase = "running" \/ t = Push THEN orphans
                ELSE orphans \ {t}
  /\ at[t] = "idle" /\ HasTurn(t)
  /\ \E config \in GetAgentConfig : target' = [target EXCEPT ![t] = config]
  /\ at' = [at EXCEPT ![t] = "fetched"]
  /\ UNCHANGED <<streams, objVars, procVars, held, victim, toStop, toStart,
                 seen, strayed, deaths, failures, phase, wanted, credential,
                 changes>>

----------------------------------------------------------------------------
(* Ending.  A task that is cancelled forgets what it was doing; a spawn in *)
(* progress is undone, a process that got SIGTERM is left to itself.       *)

Cancel(S) ==
  /\ \A t \in Tasks : HasTurn(t)
  /\ at' = [t \in Tasks |-> IF t \in S THEN "idle" ELSE at[t]]
  /\ held' = [t \in Tasks |-> IF t \in S THEN None ELSE held[t]]
  /\ victim' = [t \in Tasks |-> IF t \in S THEN None ELSE victim[t]]
  /\ toStop' = [t \in Tasks |-> IF t \in S THEN {} ELSE toStop[t]]
  /\ toStart' = [t \in Tasks |-> IF t \in S THEN {} ELSE toStart[t]]
  /\ target' = [t \in Tasks |-> IF t \in S THEN [c \in Cameras |-> None]
                                ELSE target[t]]

\* The heartbeat meets a 401: run() cancels its tasks and returns, while
\* _main goes on waiting for a signal.
HeartbeatRefused ==
  /\ phase = "running" /\ credential = "revoked" /\ orphans = {}
  /\ phase' = "revoked"
  /\ Cancel(Syncers)
  /\ UNCHANGED <<streams, objVars, procVars, seen, strayed, deaths, failures,
                 orphans, wanted, credential, changes>>

\* The heartbeat's answer is no JSON, or agent.json cannot be written: run()
\* catches neither ValueError nor OSError and leaves its other tasks running.
HeartbeatRaises ==
  /\ phase = "running" /\ credential = "valid" /\ orphans = {}
  /\ MaxRaises > 0
  /\ orphans' = Syncers
  /\ UNCHANGED <<managerVars, phase, wanted, credential, changes>>

\* Mutant of Signalled: the syncing tasks are not cancelled.
SignalledUncancelled ==
  /\ phase \in {"running", "revoked"}
  /\ phase' = "shutdown"
  /\ UNCHANGED <<managerVars, orphans, wanted, credential, changes>>

\* SIGTERM or SIGINT: _main cancels run(), which cancels the tasks it still
\* holds, and calls shutdown().
Signalled ==
  /\ phase \in {"running", "revoked"}
  /\ phase' = "shutdown"
  /\ Cancel(Syncers \ orphans)
  /\ UNCHANGED <<streams, objVars, procVars, seen, strayed, deaths, failures,
                 orphans, wanted, credential, changes>>

\* shutdown: the health checker first, then stop_all.
HealthStops ==
  /\ phase = "shutdown"
  /\ phase' = "stopping"
  /\ \A t \in Tasks : HasTurn(t)
  /\ at' = [at EXCEPT ![Health] = "idle", ![Main] = "reconciling"]
  /\ held' = [held EXCEPT ![Health] = None]
  /\ seen' = {}
  /\ toStop' = [toStop EXCEPT ![Main] = Tracked]
  /\ UNCHANGED <<streams, objVars, procVars, victim, toStart, target, strayed,
                 deaths, failures, orphans, wanted, credential, changes>>

Stopped ==
  /\ phase = "stopping"
  /\ at[Main] = "reconciling" /\ toStop[Main] = {}
  /\ phase' = "stopped"
  /\ at' = [at EXCEPT ![Main] = "idle"]
  /\ UNCHANGED <<streams, objVars, procVars, held, victim, localVars, strayed,
                 deaths, failures, orphans, wanted, credential, changes>>

----------------------------------------------------------------------------
\* What a syncing task, or stop_all in the main one, does in the manager.
Manages(t) ==
  /\ \/ \E c \in Cameras : StopStream(t, c) \/ StartStream(t, c)
     \/ Reconcile(t) \/ Terminated(t)
     \/ t \in Syncers /\ Reconciled(t)
     \/ t # Health /\ (Launched(t) \/ LaunchFails(t))
  /\ UNCHANGED agentVars

ChecksHealth ==
  /\ \/ phase \notin {"stopping", "stopped"} /\ CheckStarts(Health)
     \/ CheckEnds(Health)
     \/ \E o \in Objs : \/ LeaveAlone(Health, o) \/ NoticeDeath(Health, o)
                        \/ Relaunch(Health, o)
     \/ Launched(Health) \/ LaunchFails(Health)
  /\ UNCHANGED agentVars

Environment ==
  /\ RetryTick \/ \E p \in Procs : ProcessDies(p)
  /\ UNCHANGED agentVars

Next ==
  \/ \E c \in Cameras : ConfigChanges(c)
  \/ CredentialRevoked
  \/ \E t \in Syncers : Fetch(t)
  \/ \E t \in Syncers \union {Main} : Manages(t)
  \/ ChecksHealth
  \/ HeartbeatRefused \/ HeartbeatRaises \/ Signalled \/ HealthStops \/ Stopped
  \/ Environment

Spec == Init /\ [][Next]_vars

\* asyncio's ready queue is first in, first out: a task that is ready again and
\* again gets its turn again and again, hence strong fairness for what needs
\* the turn.  The poll loop keeps polling and the heartbeat beating.  Nothing
\* is assumed of the WebSocket, of signals or of ffmpeg.
Fairness ==
  /\ SF_vars(Fetch(Poll))
  /\ \A t \in Syncers \union {Main} : SF_vars(Manages(t))
  /\ SF_vars(ChecksHealth)
  /\ SF_vars(HeartbeatRefused) /\ SF_vars(HealthStops)
  /\ WF_vars(Stopped)
  /\ WF_vars(RetryTick /\ UNCHANGED agentVars)

FairSpec == Spec /\ Fairness

----------------------------------------------------------------------------
TypeOK ==
  /\ ManagerTypeOK
  /\ phase \in {"running", "revoked", "shutdown", "stopping", "stopped"}
  /\ orphans \subseteq Syncers
  /\ wanted \in [Cameras -> Urls \union {None}]
  /\ credential \in {"valid", "revoked"}
  /\ changes \in Nat

\* An ffmpeg that runs is one somebody will stop: the one its camera's entry in
\* _streams holds, or one that was sent SIGTERM.  The only way to lose one is
\* to launch an object that lost its place in _streams during an await.
StraysOnlyByRace ==
  \A p \in alive : \/ p \in signalled
                   \/ owner[p] \in strayed
                   \/ Attached(owner[p]) /\ process[owner[p]] = p

\* No object is launched by two tasks at once, whatever runs concurrently: the
\* second launch would overwrite the process handle of the first.
OneLauncherPerObject ==
  \A t, u \in Tasks :
    /\ at[t] \in {"launching", "relaunching"}
    /\ at[u] \in {"launching", "relaunching"}
    /\ held[t] = held[u]
    => t = u

\* Every process and every launch has one owner.
ProcessesTracked == StraysOnlyByRace /\ OneLauncherPerObject

\* After shutdown nothing runs but what was told to stop or had strayed: no
\* task that survived its cancellation starts a stream behind stop_all.  The one
\* exception: an exception in the heartbeat, which run() does not catch, left
\* orphans that nobody cancels, and a stream is in the place one gave it.
StopLeavesNothing ==
  phase = "stopped" =>
    /\ Tracked # {} => Push \in orphans
    /\ \A p \in alive : \/ p \in signalled \/ owner[p] \in strayed
                        \/ Push \in orphans /\ Attached(owner[p])

\* Once the configuration is stable and the agent stays up, the cameras with a
\* stream are the wanted ones, for good, and each has a running process.
Converges ==
  <>[](phase = "running" /\ credential = "valid") =>
    <>[]\A c \in Cameras :
          /\ (wanted[c] # None) <=> (streams[c] # None)
          /\ streams[c] # None => process[streams[c]] \in alive

\* "Cada camera ativa tem um processo ffmpeg": never two that nobody told to
\* stop.
OneProcessPerCamera ==
  \A p, q \in alive \ signalled : camera[owner[p]] = camera[owner[q]] => p = q

\* "nunca desiste de vez": a camera that stays wanted gets its stream.
NeverGivesUp ==
  \A c \in Cameras :
    <>[](phase = "running" /\ credential = "valid" /\ wanted[c] # None) =>
      []<>(streams[c] # None /\ process[streams[c]] \in alive)

\* reconcile brings the streams to the desired map of URLs.
UrlsConverge ==
  <>[](phase = "running" /\ credential = "valid") =>
    <>[]\A c \in Cameras : streams[c] # None => url[streams[c]] = wanted[c]

\* "Encerra em vez de reconectar": a revoked agent ends up without streams.
RevokedAgentStops == credential = "revoked" ~> Tracked = {}
=============================================================================
