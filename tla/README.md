# Next-Sec: specifications

TLA+ specifications of Next-Sec, a multi-tenant video monitoring system: what its
concurrent and fallible parts promise, model-checked with TLC on small instances
and, where it matters most, proved with TLAPS for every instance.

Every definition follows the Python source at the lines `PROJECT.json` ("map")
names. Where the code and what its documentation says of it disagree, the model
follows the code, and a run shows the disagreement ("findings").

## The system

Next-Sec runs on two sides. On the customer's site an **edge agent** pushes each
camera's video to the central server with one ffmpeg process per camera, and an
**analytics worker** runs detectors over the video and reports events. The
**central server** (VPS) is a FastAPI application with PostgreSQL, Redis, ARQ
workers and MediaMTX; a Go gateway (Arcanum) sends WhatsApp messages, and a
WireGuard hub connects agents behind CGNAT.

| Component | State | Operations | Talks to |
| --- | --- | --- | --- |
| Retry queue (`analytics/core/outbox.py`) | SQLite table `pending_events`, discard counter in memory | enqueue (insert, then prune), list_due, remove, reschedule, defer_all, drain_dropped_count | threads of `asyncio.to_thread` |
| Event delivery (`analytics/core/vms_client.py`, `run_retry_loop`) | coroutines at an await, the pass of the retry loop | ingest_event, one pass of the loop, close and start | queue, HTTP to the VPS, local ARQ |
| Orchestrator and inference (`orchestrator.py`, `shared_inference.py`, `detection_cache.py`, `frame_source.py`) | camera tasks, futures, batches, caches, captures | discovery, reading, batching, timeouts, reconnection | detectors, plugins, RTSP |
| Plugins (`plugins/intrusion`, `plugins/speed`) | tracks, notes of entry and exit | one frame at a time | orchestrator, VMSClient |
| Stream manager (`edge_agent/agent/stream_manager.py`, `health_checker.py`) | `_streams`, StreamProcess objects, OS processes | start, stop, stop_all, reconcile, restart_dead_streams | shared by the poll, push, health and main tasks |
| Agent life cycle (`main.py`, `cloud_client.py`, `activation.py`, `cli.py`) | configuration, credentials in `agent.json`, phase of `_main` | config sync, heartbeat and policy, activation, revocation, shutdown | VPS over HTTP and WebSocket |
| Edge gateway (`api/vms/edge`, `billing`) | licences, agents, API keys, token bucket in Redis | activate, unbind, events:batch, snapshot and clip upload | PostgreSQL, Redis, ARQ |
| Event clips (`api/vms/event_clips`) | clip rows, object storage | render, stage, upload, retention | ARQ, ffmpeg, storage |
| Cameras (`api/vms/cameras`) | camera rows, MediaMTX paths, agents, tunnels | provisioning, watchdog, boot, webhooks, agent commands, PTZ | MediaMTX, WireGuard hub, agents over WebSocket |
| Recordings (`api/vms/recordings`) | coverage windows | segment webhook, pruning, edits of the camera | MediaMTX |
| Zones (`api/vms/analytics`, `plugins/roi_cache.py`) | ROIs, schedules, one cache per process | edits, invalidation, refresh | orchestrator |
| ALPR events (`api/vms/events`, `webhooks_public`) | ledger, deduplication keys in Redis, events | webhooks, dedup, store, publish | cameras, Redis, PostgreSQL |
| Notifications (`api/vms/notifications`, `contacts`) | rules, contacts, logs | dispatch job | ARQ, Arcanum, webhooks |
| Live events (`api/vms/sse`, `infrastructure/messaging`) | SSE streams, Redis connections | publish, subscribe, deliver | browsers |
| Accounts and sessions (`api/vms/iam`, `admin`, `audit`) | tenants, users, tokens, audit trail | login, renewal, edits, impersonation, video tokens | browsers, nginx |
| Face recognition (`api/vms/lgpd`, `watchlist`) | consents, the tenant's gate, profiles, photos | grant, withdraw, create, delete | storage |
| Reports (`api/vms/reports`) | report rows, a counter in Redis | request, generate, monthly job | ARQ |
| WireGuard hub (`infra/wireguard`) | peers of `wg0` | add, remove, boot and resync | api |
| Arcanum (Go) | WhatsApp sessions | reconnect, rate limit, webhooks | WhatsApp |

The frontend, the installers and the migrations have no protocol of their own.
`PROJECT.json` lists every component with its status.

What is hard in this code: coroutines, threads and processes that interleave at
every `await` while they share a table, a dictionary or a file; requests under
READ COMMITTED that read first and write later without a lock; requests, replies
and webhooks that are lost, late or repeated; calls to MediaMTX, Redis, the object
store or the hub in the middle of a transaction that does not cover them; a worker
that may die between any two of its commits; caches, tokens and rows that are old
when they are used; time-outs, back-off, expiry; cancellation and shutdown.
`PROJECT.json` ("hazards") lists each place with the properties that watch it.

## Modules

    EventOutbox ----------- VMSClient ------- EventDelivery (abstract)

    StreamManager --------- EdgeAgent

    MCCentral    = Licensing, IngestQuota, EdgeIngest, EventClips, EdgeCredentials,
                   AgentTunnels, AgentCommands, Sessions, Accounts, FaceConsent,
                   Notifications, Reports, LiveEvents
    MCMonitoring = CameraPath, Recordings, Ptz, AlprIngest, FrameSource,
                   Orchestrator, ZoneSync, VirtualFence, SpeedTrap

    VMSClientProofs    (EventOutbox, VMSClient)
    EdgeAgentProofs    (StreamManager, EdgeAgent)
    LicensingProofs    (Licensing, EdgeCredentials)
    EdgeIngestProofs   (IngestQuota, EdgeIngest, EventClips)
    AccountsProofs     (Sessions, Accounts, FaceConsent, Reports, Notifications)
    ConnectionsProofs  (AgentCommands, AgentTunnels, LiveEvents)
    CentralProofs      (MCCentral, from the four above it)
    MonitoringProofs   (the nine parts of MCMonitoring, and MCMonitoring)

`MCEventOutbox`, `MCVMSClient` and `MCEdgeAgent` only add symmetry sets for TLC.
`MCCentral` and `MCMonitoring` hold one instance each of modules that share no
variable: a behaviour of all of them is an interleaving of behaviours of each, and
a property that speaks of one module's variables holds of the whole when it holds
of its part. So a behaviour of these two lets one part move, the one the constant
variable `part` names, from every initial state of that part, with the others at
rest in one initial state; that checks each part fully without multiplying them.
What parts have to do with each other is in the environment of each: Licensing
decides which key is accepted, and EdgeCredentials numbers the keys; CameraPath
and Recordings both follow the path of a camera.

### EventOutbox

One variable per column of the table (`rowId`, `attempts`, `wait`, `age`), the set
`rows` of events that have a row. One action per method, except `enqueue`, which is two transactions in the code and two actions here (`Insert`,
`Prune`): other threads run between them. `wait` is `next_attempt_at` minus now
and `age` is now minus `created_at`, cut off where the code stops telling values
apart, so no clock grows. `created_at` is read before the insert, which may wait
for SQLite's lock; `MaxLag` bounds the delay. A row stands for one event, since
`ingest_event` enqueues an event once. An SQLite error (`EnqueueFails`) or the end
of the process (`OutboxRestart`) may fall between the two transactions; the history
`interrupted` counts these until the next `Prune` that commits, so that `SizeCapped`
can say that what they leave over the cap does not add up.

The module takes an SQLite transaction as atomic and ids as increasing
(AUTOINCREMENT). The counter of discards (`_dropped`, `drain_dropped_count`) is left
out: nothing but tests and a log line reads it.

### VMSClient

Every event has its own `ingest_event` coroutine (`pc`), the retry loop has
`loopPc`, its snapshot `batch` and its current row `cur`. Each await is a step
boundary: a coroutine that posts waits on `wire`, one that calls an outbox method
through `asyncio.to_thread` does so in one action per transaction. The network
and the server are the environment: a request is committed, refused (a 4xx, for
the events of `Poison`), answered 429, or fails; it may time out before or after
it was committed, and may still arrive later (`late`). `Restart` ends the process
anywhere. What restarts, timeouts and SQLite errors may do together is bounded by
`MaxFaults`.

The plugin endpoint has no quota of its own; the client is written and tested for
429s (the batch endpoint sends them), so the environment may send one.

### EventDelivery

The abstract promise: an accepted event is delivered, in custody or discarded on
record, and custody ends only with delivery or a recorded discard. `VMSClient`
maps `custody` to the rows, `delivered` to the events the server committed and
`accepted` to those whose plugin was told True.

### StreamManager and EdgeAgent

StreamProcess objects and OS processes have identities of their own, because an
object can lose its place in `_streams` during an await and a process its object.
asyncio runs one task at a time: a task inside a loop of `reconcile`, `stop_all`
or `restart_dead_streams` has the turn (`HasTurn`) until it awaits a spawn
(`launching`, `relaunching`) or the exit of a process (`terminating`). `reconcile`
computes its two differences once, as in the code. `EdgeAgent` adds the tasks: the
config poll (which also stands for the first synchronisation of `startup`), the
WebSocket push, the health checker and `_main`, with revocation, cancellation and
shutdown. A spawn cut short by a cancellation is undone, as asyncio's
`subprocess_exec` does; a process that was sent SIGTERM is left to itself.
`run()` catches a revoked credential and its own cancellation only: an answer that is
no JSON, or an `agent.json` that cannot be written, takes it out of `gather`
(`HeartbeatRaises`) and leaves the poll and the WebSocket task as `orphans`, which the
cancellation of `_main` no longer reaches. The poll ends with the turn in which it
finds `_running` false; the WebSocket task goes on beside `stop_all`.

`restart_dead_streams` reads the clock once per pass; the model compares with the
current time, which can only relaunch earlier within the same pass. Delays are in
units of the model.

### Licensing, EdgeCredentials, IngestQuota, EdgeIngest, EventClips

`Licensing` is one licence: the account it is sold to, the machine and the agent it
is bound to, the keys. Activation, unbinding, removal of an agent and the
customer's claim each read, issue keys, and commit later (`Read`,
`IssueAgentCredentials`, `CommitActivation`, ...), and the commit writes only the
columns that differ from what was read, as SQLAlchemy does. `overlapped` records
that two transactions were open at once; the properties say what survives that.

`EdgeCredentials` is `agent.json` at the installation. `write_text` is two steps,
`OpensFile` (the file is empty) and `SaveCredentials`; the service and the command
line may be between them at once, and each may die. Keys are numbered, the last
one is accepted. File permissions are left out.

`IngestQuota` is the Lua script with a unit of time in which one token is refilled.
Life and capacity of the Redis key follow the cost of the call. Two variables are
the model's own: `credit`, a bucket that never expires and pays for the same calls,
and `promise`, the `Retry-After` a refused caller was told. A licence may have any
rate (`admin/router.py:300`) and a batch up to 100 events: where a batch costs more
than three minutes of the rate, an expired key gives the excess away (`Forgiven`). `EdgeIngest` has the client's requests, the unique index on
`client_event_id`, the notifications queued after the commit and the crash between
the two. `EventClips` has a row and an object per clip and a worker per try; the
storage quota is read before the upload it admits, and three clips on a quota of one
are the fewest of which two workers overrun it.

### AgentTunnels, AgentCommands

`AgentTunnels` has the rows of agents and tunnels, the hub's peers, the call to the
hub in the middle of the transaction and the hub's boot, which reads rows.
`AgentCommands` has one future per request in the process that serves it, the
WebSocket with a queue each way, and an agent that executes one message at a time;
what a camera makes of the calls of an ONVIF probe is data (`ProbeReport`).

### Sessions, Accounts, FaceConsent

A request reads and answers or commits later; what was read may be old by then.
`Sessions` gives tokens an age and remembers how long ago each user was last active
in each role (`lastHeld`); tokens for video are handed out under an access token and
verified without the user. `Accounts` has the unique keys a transaction holds and
the audit row that shares its session; `FaceConsent` the gate, profiles and photos,
which are objects no transaction covers. A photo is uploaded by a request that read the
gate earlier, so that what can be promised is what the gate was worth then
(`GatheredOnConsent`); `PhotosGoWithProfiles` names for each step that may fail what it
may leave behind.

### Notifications, Reports, LiveEvents

`Notifications` is the dispatch job for one event: rules, contacts one by one, all
messages at once, logs one by one, and ARQ's second run after a shutdown or a
crash. The gateway sends a photo before it answers; for a text it answers 202 and
tries to send it later, up to three times, from memory (`GatewaySends`,
`GatewayRestarts`). So `taken`, what a receiver has answered for, and `sent`, what was
delivered, are two variables, and the log of a text knows of the first only.
`severed` holds the runs of the job that something cut short. `Reports` has the Redis semaphore command by command. `LiveEvents` has the
handlers that publish before or after their commit, and the SSE streams with their
pool of connections.

### CameraPath, Recordings, Ptz

`CameraPath` has a task (a request, the watchdog, the boot) at each HTTP call of
`add_path`, MediaMTX with its path and stream, and the webhooks. A body that names the
URL provisions the path whether or not it differs, of a deleted camera too: the row
stays, `is_active` is all that a deletion changes. `crossed` holds the tasks under way
while another one changed path or row: only when one of these acts on what it had read
is their overlap a cause for path and row to be `apart`, so that overlaps that do no
harm are checked. `stale` is the like for row and stream, and `calm` says that in this
period no path was lost, no call failed and no request committed.
`Recordings` adds the video itself, which MediaMTX deletes by the retention its path
was given, to the index that a job prunes by the row's, for deleted cameras too. `Ptz` has requests whose
context and command travel on connections of their own.

### AlprIngest, FrameSource, Orchestrator, ZoneSync, VirtualFence, SpeedTrap

`AlprIngest` follows readings of one plate from the camera's webhook through the
ledger, the Redis key, the announcement and the commit. What follows an exception
depends on the route (`AfterException`), and what was answered says more than that it
was 200: `told` is "unknown" for no camera identified and "raised" for an exception the
Intelbras handler answers as ok. `FrameSource` is the capture
and its throttled reconnection. `Orchestrator` has discovery, one task per camera,
the batch loop and the futures between them; a frame is its camera, its number and
whether something is to be seen, so that a result that counts for another frame
shows. The cache takes note of a result before the plugins are told one by one, and the
task may be cancelled in between: `behind` are the plugins that were not told. `ZoneSync` takes an edit through the caches of the API's processes to the
task that analyses a camera. `VirtualFence` and `SpeedTrap` are the two plugins that
carry state from frame to frame; the geometry is a few places with a relation
`Close`, and which of several close tracks matches best is left open.

## What the runs check

| Run | Instance | Shows |
| --- | --- | --- |
| `outbox` | 4 events, cap 2, age limit 2, lag 1 | `DiscardsOldest`, `SizeCapped` under every interleaving of the methods, with failed enqueues and restarts |
| `client` | 2 events (1 refused by the server), cap 1, 2 faults | `AcceptedNotLost`, `CopiesExplained`, `ClipsHaveEvents`, and the refinement `DeliverySpec` |
| `backlog` | 3 queued events (1 refused), 1 fault, fairness | `PostsOnlyDueRows`, `OnlyTheClockHastens`, `QueueDrains` |
| `stale_batch` | 2 events | violates `PostsOnlyDueRows` once `ingest_event` meets a 429 itself |
| `agent` | 2 cameras, 3 objects, 3 processes, 1 death, 1 failed spawn, 1 config change, 1 exception of the heartbeat | `ProcessesTracked` (that is `StraysOnlyByRace` and `OneLauncherPerObject`), `StopLeavesNothing` |
| `central` | the modules of `MCCentral`, instances below | one property per module, below |
| `monitoring` | the modules of `MCMonitoring`, instances below | one property per module, below |
| `agent_converges` | 1 camera, 5 objects, 6 processes, no failed spawns, fairness | `Converges` |
| `twins` | 2 cameras, 4 objects | violates `OneProcessPerCamera` |
| `gives_up` | 1 camera, 1 failed spawn, fairness | violates `NeverGivesUp` |
| `urls` | 1 camera, 2 addresses, fairness | violates `UrlsConverge` |
| `revoked` | 1 camera, fairness | violates `RevokedAgentStops` |

The properties of `central`:

| Property | Of | Says | Instance |
| --- | --- | --- | --- |
| `LicenceIsHeld` | Licensing (`OneInstallation`) | machine and agent of a licence come from one installation, however transactions interleave; without overlap one key, that machine's, authenticates | 3 transactions, 2 machines, 2 accounts |
| | EdgeCredentials (`CredentialsKept`) | `agent.json` is readable and names the last key unless a program died or two crossed, and its limits are those the service works with | 3 keys, 2 policies, 1 crash |
| `OnlyOwnerOrAdminRevokes` | Licensing | an activation never revokes another machine's key | as above |
| `QuotaHolds` | IngestQuota | no burst beyond capacity and refill, but for `Forgiven` at an expiry (`NeverOverspends`), and a caller that waits as told is admitted (`RetryAfterSuffices`) | 2 tokens a minute, costs to 8 |
| `EventsKept` | EdgeIngest | each event stored once and not given up unstored, silent only after a fault | 2 events, 2 requests |
| `ClipsKept` | EventClips | live clips can be played, the quota is overrun by what is in flight only, clips end lost only after a fault | 3 events, 2 workers, room for 1, 1 crash |
| `PeersAreTunnels` | AgentTunnels | the hub's peers are the agents' tunnels, each with its address, but for named causes | 2 agents, 2 requests, 5 calls |
| `AnswersMatch` | AgentCommands | an answer is for its request, from its agent, executed once at most | 2 commands, 2 links, 2 processes |
| `AccessIsRecent` | Sessions | what a token allows was held no longer ago than tokens live | 1 user, 2 roles |
| `TrailIsTrue` | Accounts | the audit trail tells what was committed; no slug or e-mail twice | 2 requests, 2 slugs |
| `FaceDataKept` | FaceConsent | a withdrawal that overlapped no grant closes the gate (`WithdrawalHolds`), photos are stored only by requests that read it open on a consent in force (`GatheredOnConsent`), and go with their profiles but for what a failed step leaves (`PhotosGoWithProfiles`) | 3 consents, 1 profile, 2 deletions |
| `MessagesAreLogged` | Notifications | logs tell the truth, and each message that was taken has one in a run that nothing cut short | 2 rules, 2 runs, 2 tries of the gateway |
| `FewPdfs` | Reports | the semaphore bounds the renderings whatever dies | 2 jobs, limit 1, 1 death |
| `StreamsAreTrue` | LiveEvents | streams tell their channel's messages in order without a gap; counter and pool agree with the streams | 2 streams, 2 events |

The properties of `monitoring`:

| Property | Of | Says | Instance |
| --- | --- | --- | --- |
| `RowAndPathAgree` | CameraPath | once nothing runs MediaMTX serves what rows say (`PathFollowsRow`), an active camera gets a lost path back (`PathComesBack`), status follows the stream (`StatusCatchesUp`), but for named causes | 1 camera, 2 requests, 2 edits of 1 field |
| `NoReadingLost` | AlprIngest | a reading that was answered ok, announced or keeps others out is stored, or hidden by one whose request failed with the key | 2 readings, 2 sends |
| `SeesItsOwnFrame` | Orchestrator | plugins see of a camera what its own last frame showed, but for those not told when a task was cancelled | 2 cameras, 2 plugins, 3 frames, 2 changes, 1 mishap |
| `ZonesAreRecent` | ZoneSync | the zones analysed are at most a bounded time old | 1 zone, 2 cameras, 2 processes |
| `FalseAlarmsExplained` | VirtualFence | a crossing was witnessed, or its track was shared by cameras or the zone redrawn | 2 cameras, 3 places |
| `TimelineIsTrue` | Recordings | what can be played is shown, what is gone is shown for a bounded time | 2 segments, 7 ticks, 1 edit |
| `NeverTooFast` | SpeedTrap | no speed above what was seen | 2 vehicles, 4 frames, 1 change of the zone |
| `FramesComeBack` | FrameSource | after any losses, a stream that is up gives frames again in bounded time | 2 failed tries, 5 turns |
| `HaltsHold` | Ptz | a halt that was confirmed is not undone by a move confirmed before it | 2 requests |

Why the bounds are enough. In `outbox` four events with a cap of two give two
discards by size while an older and a newer row are alive, and the age limit lets
rows expire between an insert and its prune. In `client` two events and a cap of
one make every second insert discard, two faults combine (a lost reply, then a
restart), and the refused event is what a mistaken deletion would lose. Three
backlog rows are the fewest for which a pass has a row before and one after the
one that is refused. In `agent` three objects and processes are a stream, its
replacement, and one more for the other camera; the bound ends a behaviour, so
these runs do not check deadlock (and the agent may stop).

In `central` and `monitoring` two of each actor are the fewest that race; a third
transaction lets an unbinding come between two activations, and a third consent
is a bystander. Clocks go as far as the longest wait and one tick more
(`HeldBound`, `Long`, `StaleBound`), so that "too long" is a state. Each fault can
happen once next to a race. Nothing ends on its own in these models but by a bound,
so deadlock is not checked there. All their properties are of safety: "in the end"
is stated as "within so many ticks" where the code has timers (`StatusCatchesUp`,
`ZonesAreRecent`, `GoneSoon`, `FramesComeBack`), which assumes no fairness but that
a tick waits for what the named timers start.

Fairness. `VMSClient` assumes that the event loop runs every coroutine that can
run, that every request is resolved (httpx has a 10 s timeout) and that time
passes; nothing of detections, faults or the server's availability. `EdgeAgent`
assumes strong fairness of each task's steps: asyncio's ready queue is first in,
first out, and a task that becomes ready again and again gets its turn; the poll
loop polls and the heartbeat beats for as long as the agent runs. Nothing is
assumed of the WebSocket, of signals or of ffmpeg.

## Where code and documentation disagree

- `stale_batch`: the loop posts rows that a 429 has deferred since it listed them.
  By the same race a `reschedule` can shorten such a deferral
  (`OnlyTheClockHastens` holds only while the loop alone meets 429s).
- `twins`: the poll and the WebSocket task start the same camera; the second finds an
  entry that does not run yet, because the first still awaits its spawn, and replaces
  it. The camera gets two ffmpeg processes, and the one that lost its entry outlives
  `stop_all` (see `StraysOnlyByRace` and the exception in `StopLeavesNothing`).
- `gives_up`: a stream whose first spawn fails is never tried again.
- `urls`: a changed RTSP address of a running camera is not noticed.
- `revoked`: an agent whose credential is revoked stops synchronising, but `_main`
  waits for a signal and the streams go on.

Without a run, read in the code while modelling it:

*Analytics.*
- `drain_dropped_count` has no caller outside the tests, although `outbox.py:181` and
  `docs/DEPLOY_EDGE.md:134` say the heartbeat reports it.
- A camera task that has returned or raised stays in `_camera_tasks`: a camera not
  readable when first opened is never analysed, although `orchestrator.py:348` says
  the loop picks up cameras that come online later. One failed batch ends up to eight
  camera tasks; an error of `_fetch_zones_config` ends the discovery loop.
- `VirtualFence` shares tracks between cameras, and a redrawn zone under a track
  raises an alarm. `SpeedTrap`'s `last_ts` moves on for tracks a frame does not show, so
  speeds come out low; a track that expires inside a zone is never measured.
- `FileFrameSource.read` does not count sampled frames, so it is not one in N.
  `FrameSource` grabs at most 20 frames a second and lags behind faster streams.
- `FrameSource.open` and `read` are synchronous calls of OpenCV in the event loop
  (orchestrator.py:533, :600): one that blocks holds up all cameras. The ticks of
  `FrameSource` are longer than the longest of these calls, so `FramesComeBack` is a
  bound in such ticks and not in seconds.

*Edge agent.* `agent.json` is written in place: after a crash in a write, and without
`LICENSE_KEY`, `ensure_activated` raises at every start and names the installer as the
remedy, whose `activate` without `--force` finds the file there and does nothing, while
the docstring of `load` (`activation.py:148`) calls this recoverable. A failed write of
a policy, or an answer to the heartbeat that is no JSON, ends `run()` and the heartbeats
while its other tasks go on (`main.py:132-145`); the `run_task.cancel()` of line 352 is
then of no effect, and they may start streams behind `stop_all` (`StopLeavesNothing`).

*Cameras.* `add_path` leaves a live path with its old URL. A `PATCH` that repeats the URL of
a deleted camera gives it a path again, which nothing takes away. Paths of push cameras are
not provisioned again by the watchdog. The watchdog's docstring calls a camera without
a path offline, the code waits 90 s. `update_camera` writes the whole old row; moving
a camera to an agent or switching it off leaves its path. `Agent.mark_offline` is never
called. The tunnels' address sequence is never reclaimed. `PtzCommand.speed` is not used,
and saving a preset ignores the token of its URL. `cameras/router.py:24` says there is
one process, `api/Dockerfile:41` starts four: an answer that arrives at another one is
dropped. `mediamtx.yml` authorises by `/streaming/publish-auth`, which no router serves,
so nothing verifies viewer tokens.

*Recordings.* `get_open_window` looks for NULL, every window is inserted closed: one
window per segment, where the domain says otherwise. `live/` paths are never indexed.
With recording switched off nothing deletes the old video or prunes its windows; a camera
that is deleted while it records keeps its video for ever, and the job goes on pruning the
windows that lead to it. A
webhook that fails is answered ok. `verify_playback_token` does not compare the interval
its docstring promises.

*Events.* `alpr_exact_dedup_ttl_seconds` is not a setting, so the 24 h key of
`events/service.py:55` does not exist. `_lookup_by_ip` matches substrings across tenants.
Plates and camera status are published before or without the commit the bus's rule
(`APÓS commit`) asks for. `start_listening` is never called. The SSE limit is per process.

*Licences and edge ingest.* Two concurrent first activations both succeed and the
later takes the binding (`billing/models.py:32`). An activation whose client gave up
revokes the key its machine holds (`edge/service.py:71` says idempotent). A
suspended tenant's API keys go on working. An alert is lost when the process dies between
the commit of a batch and the enqueue. For a cost above three minutes' worth of tokens
the key's TTL lets the bucket be overspent (`Forgiven`), and Redis runs with
`allkeys-lru`, which may evict any bucket.

*Clips.* A try after a crash finds the row of the crashed one and is answered 200;
a failed upload is answered 200 and the edge deletes its file; cleanup goes by the
longest retention.

*Notifications.* A text is logged as a success when the gateway has queued it
(`channel_adapter.py:85`, `handler_message.go:66`); what its three tries come to is in the
gateway's own log only. `create_rule` asks for `dest_url` and a secret, the code checks the URL
only; one webhook without a secret, or one log that fails, loses the other logs of the event. No job reaches the dead
letter queue.

*Zones.* Schedules that cross midnight with a `day_of_week` stop at midnight. Two
concurrent `create_roi` can install a plugin twice, after which reading raises.
`POST /analytics/install` reads a field its body does not have; uninstalling compares a
string with a UUID and answers 404.

*Faces and LGPD.* A withdrawal that overlaps a grant can be lost; a request that has read
the gate stores its photo after a withdrawal; `search_faces` does not look at the gate;
`analytic_events` has no migration in `api/migrations`, so what uses it fails; anonymising without ids does nothing although it says it takes all expired events.

*Accounts and audit.* Audit rows of failures are rolled back with the request they tell
of; an audit flush that fails takes the audited operation with it. `RequireOnboarding`
reads a claim nothing sets. The first user of an e-mail is taken across tenants.

*Reports.* No report leaves `pending`; the slot of a dead worker is renewed by whoever is
refused, although `tasks.py:18` says it frees itself; a key that expires between INCR and
EXPIRE leaves -1 and an extra slot.

## What is proved

Each theorem holds for every value of the constants that the named assumptions of
the module admit: any finite set of events, any number of threads, requests,
machines, customers and users, any limits and lifetimes, any number of faults.

- **Queue.** `OutboxInv` strengthens `DiscardsOldest` to an inductive invariant:
  ids are distinct and grow in the order of insertion (`IdsInOrder`), and a row is
  at most `MaxLag` younger than an older id would have it (`AgesFollowIds`).
  Without the second, one prune by age could take a newer row than one that stays.
  Each operation has a lemma (`InsertKeeps`, `PruneKeeps`, ...), which the proofs
  about the client cite for its actions. `SizeCappedAlways` and
  `ClientSizeCapped` need that no enqueue counts both as running and as ended, and
  rest on the cardinality lemmas of the library.
- **Client.** `ClientInv` adds where a coroutine must stand for a request of its
  own to be outstanding (`ControlInv`); `CustodyInv` follows an event from the
  moment it may be accepted; `CopiesInv` counts, for each event, committed copies,
  requests under way and whatever may still lead to a second send (`Pending`),
  against the tries that ended in doubt; `ClipsInv` bounds the render jobs.
  `ImplementsDelivery` shows that every step of the client is a step or a stutter
  of `EventDelivery` under the mapping above.
- **Backlog.** From the state after an outage (`BacklogInit`), `BacklogInv` adds that no
  ingest call is under way and that every row of the pass is due (`OnlyTheLoopWorks`): a
  reschedule takes its row out of the pass, a deferral ends it. `PostsAlwaysDueRows` and
  `OnlyTheClockEverHastens` are the two action properties for any backlog. The run
  `stale_batch` shows that both need this start.
- **Edge agent.** `AgentInv`: entries, objects and processes name each other, and the entry
  of a process that is alive knows that it runs (`ObjectsSound`); what a task launches is an
  object that does not run, without a process if it is new, with a dead one if the health
  check relaunches it (`LaunchSound`), so that two tasks never hold the same one; each task
  is at one of its own labels, by the phase of `_main` (`TasksKnown`); `stop_all` has every
  entry that is left on its list unless an orphan of `run()` starts streams behind it
  (`ShutsDown`). `ProcessesAlwaysTracked` and
  `StopAlwaysLeavesNothing` follow, for any number of cameras, deaths and failed spawns.
  `ManagerAssumption`: what stands for nothing is no camera, object or process;
  `AgentAssumption`: the four tasks are four.

- **Quota.** `QuotaInv` adds to `QuotaHolds` what an expiry gives away: a key lives at
  least three minutes after a call, and takes at most three minutes of refill and
  `Forgiven` to be full (`ForgottenLate`): nothing for a licence of 34 events a minute or
  more, with batches of 100. `CreditCovers` keeps the bucket that is never forgotten ahead
  of the one in Redis. `QuotaAssumption`: a rate and a batch are at least one.
  `PromiseCovered` keeps the wait that a refusal announced equal
  to what is still missing.
- **Licences.** `LicInv` names who may hold what (`Named`: agents and keys that are
  committed come from activations that are over), pairs machine and agent in what is
  committed and in what any open transaction has read (`Installed`: this needs no
  order and survives every overlap), and says what only holds without overlap
  (`Sequential`: one open transaction, whose reads are still true and whose marks are all
  the keys of the agent it takes leave of). `OneInstallation` is the Licensing half of
  `LicenceIsHeld`.
- **Credentials.** `CredentialsInv` follows a key from the server's answer to the file:
  a program that changes the file holds what it will write (`DraftsHeld`), unless the two
  crossed only one of them does (`Alone`), the draft has the last key before the file has
  it (`LastKeyHeld`), and the key that `cli.py` is about to write is nobody else's
  (`KeysApart`, without which `TermsAgree`, the limits in the file and those in use, is not
  inductive). `CredentialsAssumption`: the absent file is no content of a file.
- **Ingest.** `IngestInv` follows each item of a batch from the read to the commit
  (`BatchSound`), lets one request only insert an event (`OneInserts`, which is the
  unique index) and counts the jobs of an event with and without a snapshot against its
  repetitions (`SnapshotSound`, `PlainSound`).
- **Clips.** `ClipsInv` gives each row under way the one worker that makes it
  (`MakersHold`, `MakersAlone`), keeps the cleanup to old rows (`DoomedOld`) and counts
  clips together with the workers that the storage quota has let in (`RoomCounted`): each of
  them may add one to what the last of them saw. `ClipsAssumption`: finitely many workers,
  and among the retention times a longest.
- **Sessions.** `SessionsInv` adds to `AccessIsRecent` what a request in progress has read
  and how long ago (`AskedRecent`), and that a role which a user has counts as held now.
- **Accounts.** `AccountsInv`: the audit row that a request brings to its commit is its own
  (`RowsAreOwn`), what is committed is in the tables (`DeedsDone`), and a unique key held by
  an open transaction is in no table and in no other transaction (`KeysHeld`).
- **Faces.** `FaceInv`: an open gate stands on a grant that no withdrawal knew which could
  close it or saw it closed (`GateStands`), so does a creation that was let through, on what
  was withdrawn when it read the gate (`Entitled`), a row is there from the commit of its
  creation to that of a deletion (`RowsSound`), and the photo of a profile is where the steps
  of both say (`PhotoFollows`).
- **Notifications.** `NotifyInv` relates, for each rule and run, what was sent and what the
  gateway may still try to what was taken (`SendsCounted`), and calls, successes and logs to
  the runs of the job (`CallsCounted`); it says what a run that nothing has cut short has
  still to log (`Undisturbed`). `NotificationsAssumption`: contact rules are rules, and at
  least one run and one try.
- **Reports.** `ReportsInv`: the counter in Redis is the jobs that were counted and the
  slots that dead workers leaked; a key that expires takes jobs out of the count, and those
  (`cut`) are all that may exceed the limit (`SlotsCounted`).
- **Commands.** `CommandsInv`: a command is nowhere, or once in one queue, or in execution,
  or executed once (`OnceOnly`), an agent is on the connection that carries its commands
  (`LinksSound`), and a reply was worked out by an execution of the command it names
  (`WorkedOut`). `LanAssumption`: cameras found on the network are cameras.
- **Tunnels.** `TunnelsInv`: no address belongs to two agents, wherever it is met, in a row,
  a peer, the list the hub boots with or a call in progress (`HostsApart`); the hub agrees
  with the rows of the agents no call is about (`HubAgrees`), and what a request is about to
  commit is what the hub was told (`AboutToWrite`).
- **Live events.** `LiveInv`: what a stream has told and what waits in its queue is a gapless
  piece of what its tenant's channel carried, from where it subscribed (`Heard`); the counter
  is the number of open streams, and their connections and the lost ones fit the pool.
- **Central server.** `CentralProofs` shows that a behaviour of the composition is one of
  each of its thirteen parts (`PartsOfCentral`), so that all of the above hold of it
  together (`LicenceIsAlwaysHeld`, `CentralPromisesHold`, `CentralTypeAlwaysOK`).
- **Camera paths.** `CamInv` says how far a task that nobody has crossed has brought the path
  to the row (`StepOK`, `Underway`), and that one that was crossed has yet to act and will
  then be excused (`Doomed`): path and row have met, or one of the two is there (`OnTheWay`).
  It says when the watchdog has yet to add a path that is gone (`ComesBack`), and what the row, every draft and the watchdog know of the
  stream by its age: no draft has seen a stream that went down later than it did
  (`SeenBefore`), the list of a poll is true of a stream that is down (`PollIsTrue`), and a
  stream that stays down or up is shown so (`DarkIsShown`, `BrightIsShown`).
  `CameraAssumption`: no path is no path, and no request is the watchdog or the boot.
- **Recordings.** `RecInv` bounds by the clock when a webhook comes (`HooksTimely`), how long
  a window is (`WindowsTimely`) and when the pruning job last ran; it ties video to the
  retention of the path and windows to that of the row since the two last differed
  (`PathKept`, `WindowsPruned`). `RecordingsAssumption`: there are a shortest and a
  longest retention.
- **Pan, tilt and zoom.** `PtzInv`: what a request knew to be done before it was done, and
  from the moment the camera executed it a halt holds (`HaltsExecuted`). `PtzAssumption`:
  finitely many requests.
- **Readings.** `AlprInv`: whoever set the deduplication key, or was announced, is stored,
  will be, or its request failed (`KeyTold`, `Kept`), and an answer goes by what was done
  for the reading or for the one it repeats (`AnsweredTruly`).
- **Frames.** `SourceInv` bounds how long a stream that is up may be lost, before and after
  the read of this tick (`LostBriefly`, `GoodFeeds`). `SourceAssumption`: the reconnection
  interval is not 0.
- **Orchestrator.** `OrchInv` follows a frame through task, queue, batch and future: what is
  in them for a camera is that camera's own, by number (`OwnFrames`), and the plugins that were
  told of what the cache noted last think of the scene as the cache does (`TaskSees`).
- **Zones.** `ZoneInv` bounds by ages how late a cache, an answer under way and what is in
  use are (`CachesRecent`, `AnswerRecent`, `UseRecent`). The sum is `StaleBound`: a TTL, two
  delays less a tick, and the interval of the refresh, or a delay where an answer takes longer
  than the interval; the proof showed that the bound with the interval alone is too small
  then. `ZoneSyncAssumption`: there are zones and processes.
- **Fence and speed trap.** `FenceInv` keeps for a track that one camera alone has moved why
  it is noted on the side of a zone (`TrackTrue`). `SpeedInv` dates the notes of a passage: a
  pure track inside the zone whose entry is not noted is of the frame that is handled now
  (`TrackTimed`). `SpeedAssumption`: the mark for no trap is no camera.
- **Monitoring.** `WhatUsersAreToldHolds` and `MonitoringTypeAlwaysOK` state all nine parts of
  the composition together, as for the central server.

Only model-checked: liveness (`QueueDrains`, `Converges`), which TLAPS 1.4 does not
reason about. Every invariant and every action property of the passing runs is proved.
What a violated run shows is a counterexample and needs no proof.

## Not modelled, and the plan

- Arcanum, the Go gateway for WhatsApp: its session is a state machine of a library
  outside the repository. Read, not modelled: `handleConnect` of a connected instance
  leaves its status at "connecting", a failed redial ends the chain of reconnections,
  and a deleted instance is back after a restart.
- The frontend, installers, deployment and migrations; queries, dashboards, exports and
  CRUD that one transaction covers (branding, contacts, LGPD policies).
- What detectors compute, ONVIF and SOAP envelopes, ffmpeg and PDF rendering.
- The other analytics plugins, which report from one frame at a time or are switched off;
  `FileFrameSource`, which nothing uses; the webhook relay of the agent, off by default.
- The read-only caches of `VMSClient`, stderr draining, log levels, wording.
- The wall clock set back (`outbox.py:165`), the discard counter lost with its process,
  `restart_count`, which is never reset, and a `defer_all` that fails half-way: each is
  one statement with one outcome, and no property would say more than the code.

Next, in this order:

1. Abstract specifications of more components, each with a refinement like that of
   `EventDelivery`: what the agent promises of a camera's process, and what the ingest
   promises of an event.
2. The safety half of the two liveness properties: what a step towards an empty queue, or
   towards the wanted streams, never undoes.
