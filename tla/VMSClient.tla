----------------------------- MODULE VMSClient -----------------------------
(***************************************************************************)
(* Delivery of analytics events to the central VMS: one ingest_event       *)
(* coroutine per detected event, the background retry loop, the outbox     *)
(* they share, the HTTP requests between them and the central server, and  *)
(* the restart of the worker's process.                                    *)
(*                                                                         *)
(* Every await is a step boundary.  A request may be lost, its reply may   *)
(* be lost, and the server may process it after the client has given up.   *)
(***************************************************************************)
EXTENDS EventOutbox

CONSTANTS Loop,       \* the retry loop, as a sender of requests
          Poison,     \* events the server answers with a 4xx other than 429
          MaxFaults   \* bound: restarts, timeouts and SQLite errors together

ASSUME ClientAssumption ==
  /\ Loop \notin Events
  /\ Poison \subseteq Events
  /\ MaxFaults \in Nat

Senders == Events \union {Loop}

VARIABLES pc,        \* where each event's ingest_event coroutine stands
          loopPc,    \* where run_retry_loop stands
          batch,     \* rows of the current pass still to be tried
          cur,       \* row being tried, Loop when there is none
          hold,      \* Retry-After each sender was last answered, 0: none
          wire,      \* state of each sender's outstanding request
          vps,       \* what the central server does with a request now
          late,      \* requests whose sender gave up, still on their way
          stored,    \* times each event was committed by the server
          clips,     \* render jobs enqueued for each event
          ambiguous, \* history: tries of an event that ended in doubt
          faults     \* faults so far

clientVars == <<pc, loopPc, batch, cur, hold, wire, clips>>
serverVars == <<vps, late, stored>>
vars == <<outboxVars, clientVars, serverVars, ambiguous, faults>>

Init ==
  /\ OutboxInit
  /\ pc = [e \in Events |-> "new"]
  /\ loopPc = "asleep"
  /\ batch = {}
  /\ cur = Loop
  /\ hold = [s \in Senders |-> 0]
  /\ wire = [s \in Senders |-> "none"]
  /\ vps = "up"
  /\ late = [e \in Events |-> 0]
  /\ stored = [e \in Events |-> 0]
  /\ clips = [e \in Events |-> 0]
  /\ ambiguous = [e \in Events |-> 0]
  /\ faults = 0

EventOf(s) == IF s = Loop THEN cur ELSE s

Goto(e, label) == pc' = [pc EXCEPT ![e] = label]
Answered(s) == wire' = [wire EXCEPT ![s] = "none"]
Fault == faults < MaxFaults /\ faults' = faults + 1

----------------------------------------------------------------------------
(* The central server and the network, as the client meets them.  The      *)
(* endpoint has no quota of its own: a 429 comes from what stands before   *)
(* it, and the client is written and tested for it.                        *)

VpsChanges ==
  /\ vps' \in {"up", "down", "throttling"} \ {vps}
  /\ UNCHANGED <<outboxVars, clientVars, late, stored, ambiguous, faults>>

VpsReceives(s) ==
  /\ wire[s] = "request"
  /\ \/ /\ vps = "up" /\ EventOf(s) \notin Poison
        /\ stored' = [stored EXCEPT ![EventOf(s)] = @ + 1]
        /\ wire' = [wire EXCEPT ![s] = "created"]
     \/ /\ vps = "up" /\ EventOf(s) \in Poison
        /\ wire' = [wire EXCEPT ![s] = "refused"]
        /\ UNCHANGED stored
     \/ /\ vps = "throttling"
        /\ wire' = [wire EXCEPT ![s] = "throttled"]
        /\ UNCHANGED stored
  /\ UNCHANGED <<outboxVars, pc, loopPc, batch, cur, hold, clips, vps, late,
                 ambiguous, faults>>

\* No route to the server, or a 5xx from a proxy: nothing was stored.
Unreachable(s) ==
  /\ wire[s] = "request" /\ vps = "down"
  /\ wire' = [wire EXCEPT ![s] = "failed"]
  /\ UNCHANGED <<outboxVars, pc, loopPc, batch, cur, hold, clips, serverVars,
                 ambiguous, faults>>

\* httpx gives up after 10 s: the request may still arrive, or it had arrived
\* and its reply is the one that is lost.
TimesOut(s) ==
  /\ wire[s] \in {"request", "created"}
  /\ Fault
  /\ late' = [late EXCEPT ![EventOf(s)] =
                IF wire[s] = "request" THEN @ + 1 ELSE @]
  /\ wire' = [wire EXCEPT ![s] = "failed"]
  /\ ambiguous' = [ambiguous EXCEPT ![EventOf(s)] = @ + 1]
  /\ UNCHANGED <<outboxVars, pc, loopPc, batch, cur, hold, clips, vps, stored>>

VpsReceivesLate(e) ==
  /\ late[e] > 0 /\ vps = "up"
  /\ late' = [late EXCEPT ![e] = @ - 1]
  /\ stored' = [stored EXCEPT ![e] = IF e \in Poison THEN @ ELSE @ + 1]
  /\ UNCHANGED <<outboxVars, clientVars, vps, ambiguous, faults>>

\* _enqueue_local_clip_task: best effort, a failure is only logged.
EnqueueClip(e) ==
  \/ clips' = [clips EXCEPT ![e] = @ + 1]
  \/ UNCHANGED clips

----------------------------------------------------------------------------
(* ingest_event(e)                                                         *)

IngestPosts(e) ==
  /\ pc[e] = "new"
  /\ Goto(e, "posting")
  /\ wire' = [wire EXCEPT ![e] = "request"]
  /\ UNCHANGED <<outboxVars, loopPc, batch, cur, hold, clips, serverVars,
                 ambiguous, faults>>

IngestDelivered(e) ==
  /\ wire[e] = "created"
  /\ Answered(e) /\ Goto(e, "true") /\ EnqueueClip(e)
  /\ UNCHANGED <<outboxVars, loopPc, batch, cur, hold, serverVars, ambiguous,
                 faults>>

\* HTTPStatusError: the content is at fault, the event is given up.
IngestRefused(e) ==
  /\ wire[e] = "refused"
  /\ Answered(e) /\ Goto(e, "false")
  /\ UNCHANGED <<outboxVars, loopPc, batch, cur, hold, clips, serverVars,
                 ambiguous, faults>>

\* Mutant of IngestRetryable: Retry-After is not clamped.
IngestRetryableUnclamped(e) ==
  /\ \/ /\ wire[e] = "failed"
        /\ UNCHANGED hold
     \/ /\ wire[e] = "throttled"
        /\ \E r \in 1..(MaxRetryAfter + 1) : hold' = [hold EXCEPT ![e] = r]
  /\ Answered(e) /\ Goto(e, "insert")
  /\ UNCHANGED <<outboxVars, loopPc, batch, cur, clips, serverVars, ambiguous,
                 faults>>

\* _RetryableError, or its subclass _ThrottledError with a Retry-After.
IngestRetryable(e) ==
  /\ \/ /\ wire[e] = "failed"
        /\ UNCHANGED hold
     \/ /\ wire[e] = "throttled"
        /\ \E r \in 1..MaxRetryAfter : hold' = [hold EXCEPT ![e] = r]
  /\ Answered(e) /\ Goto(e, "insert")
  /\ UNCHANGED <<outboxVars, loopPc, batch, cur, clips, serverVars, ambiguous,
                 faults>>

IngestInserts(e) ==
  /\ pc[e] = "insert"
  /\ Insert(e)
  /\ Goto(e, "prune")
  /\ UNCHANGED <<loopPc, batch, cur, hold, wire, clips, serverVars, ambiguous,
                 faults>>

IngestPrunes(e) ==
  /\ pc[e] = "prune"
  /\ Prune(e)
  /\ Goto(e, IF hold[e] > 0 THEN "defer" ELSE "true")
  /\ UNCHANGED <<loopPc, batch, cur, hold, wire, clips, serverVars, ambiguous,
                 faults>>

IngestDefers(e) ==
  /\ pc[e] = "defer"
  /\ DeferAll(hold[e])
  /\ hold' = [hold EXCEPT ![e] = 0]
  /\ Goto(e, "true")
  /\ UNCHANGED <<loopPc, batch, cur, wire, clips, serverVars, ambiguous,
                 faults>>

\* Mutant of IngestDbError: the error is logged and True returned.
IngestDbErrorHidden(e) ==
  /\ pc[e] \in {"insert", "prune", "defer"}
  /\ Fault
  /\ Goto(e, "true")
  /\ EnqueueFails(e)
  /\ hold' = [hold EXCEPT ![e] = 0]
  /\ UNCHANGED <<loopPc, batch, cur, wire, clips, serverVars, ambiguous>>

\* SQLite locked or the disk full: ingest_event logs it and returns False,
\* although the insert may already be committed.
IngestDbError(e) ==
  /\ pc[e] \in {"insert", "prune", "defer"}
  /\ Fault
  /\ Goto(e, "false")
  /\ EnqueueFails(e)
  /\ hold' = [hold EXCEPT ![e] = 0]
  /\ UNCHANGED <<loopPc, batch, cur, wire, clips, serverVars, ambiguous>>

----------------------------------------------------------------------------
(* run_retry_loop with _post_event_payload as its sender.  The for loop    *)
(* walks the snapshot list_due took, in id order; poll_interval is only    *)
(* the delay of the next LoopLists.                                        *)

LoopLists ==
  /\ loopPc = "asleep"
  /\ batch' = Due
  /\ loopPc' = "next"
  /\ UNCHANGED <<outboxVars, pc, cur, hold, wire, clips, serverVars, ambiguous,
                 faults>>

LoopPosts(e) ==
  /\ loopPc = "next"
  /\ e \in batch /\ \A f \in batch : rowId[e] <= rowId[f]
  /\ cur' = e
  /\ batch' = batch \ {e}
  /\ wire' = [wire EXCEPT ![Loop] = "request"]
  /\ loopPc' = "posting"
  /\ UNCHANGED <<outboxVars, pc, hold, clips, serverVars, ambiguous, faults>>

LoopDelivered ==
  /\ wire[Loop] = "created"
  /\ Answered(Loop) /\ loopPc' = "remove" /\ EnqueueClip(cur)
  /\ UNCHANGED <<outboxVars, pc, batch, cur, hold, serverVars, ambiguous,
                 faults>>

\* Mutant of LoopStillFailing: the clip is enqueued whatever the outcome.
LoopStillFailingClips ==
  /\ wire[Loop] \in {"failed", "refused"}
  /\ Answered(Loop) /\ loopPc' = "reschedule" /\ EnqueueClip(cur)
  /\ UNCHANGED <<outboxVars, pc, batch, cur, hold, serverVars, ambiguous,
                 faults>>

\* Mutant of LoopStillFailing: a refused row is deleted like a delivered one.
LoopStillFailingDeletes ==
  /\ wire[Loop] \in {"failed", "refused"}
  /\ Answered(Loop)
  /\ loopPc' = IF wire[Loop] = "refused" THEN "remove" ELSE "reschedule"
  /\ UNCHANGED <<outboxVars, pc, batch, cur, hold, clips, serverVars,
                 ambiguous, faults>>

\* Mutant of LoopStillFailing: the row is tried again on the spot.
LoopStillFailingInsists ==
  /\ wire[Loop] \in {"failed", "refused"}
  /\ wire' = [wire EXCEPT ![Loop] = "request"]
  /\ UNCHANGED <<outboxVars, pc, loopPc, batch, cur, hold, clips, serverVars,
                 ambiguous, faults>>

\* Any other outcome than delivered or throttled counts as "still failing",
\* a 4xx included.
LoopStillFailing ==
  /\ wire[Loop] \in {"failed", "refused"}
  /\ Answered(Loop) /\ loopPc' = "reschedule"
  /\ UNCHANGED <<outboxVars, pc, batch, cur, hold, clips, serverVars,
                 ambiguous, faults>>

LoopThrottled ==
  /\ wire[Loop] = "throttled"
  /\ Answered(Loop) /\ loopPc' = "defer"
  /\ \E r \in 1..MaxRetryAfter : hold' = [hold EXCEPT ![Loop] = r]
  /\ UNCHANGED <<outboxVars, pc, batch, cur, clips, serverVars, ambiguous,
                 faults>>

\* Mutant of LoopRemoves: the delivered row is rescheduled.
LoopRemovesNothing ==
  /\ loopPc = "remove"
  /\ Reschedule(cur)
  /\ cur' = Loop
  /\ loopPc' = "next"
  /\ UNCHANGED <<pc, batch, hold, wire, clips, serverVars, ambiguous, faults>>

LoopRemoves ==
  /\ loopPc = "remove"
  /\ Remove(cur)
  /\ cur' = Loop
  /\ loopPc' = "next"
  /\ UNCHANGED <<pc, batch, hold, wire, clips, serverVars, ambiguous, faults>>

LoopReschedules ==
  /\ loopPc = "reschedule"
  /\ Reschedule(cur)
  /\ cur' = Loop
  /\ loopPc' = "next"
  /\ UNCHANGED <<pc, batch, hold, wire, clips, serverVars, ambiguous, faults>>

\* What ends a pass: batch and cur are locals of it.
PassEnds ==
  /\ loopPc' = "asleep"
  /\ batch' = {}
  /\ cur' = Loop

\* Mutant of LoopDefers: the break is missing.
LoopDefersGoesOn ==
  /\ loopPc = "defer"
  /\ DeferAll(hold[Loop])
  /\ hold' = [hold EXCEPT ![Loop] = 0]
  /\ cur' = Loop
  /\ loopPc' = "next"
  /\ UNCHANGED <<pc, batch, wire, clips, serverVars, ambiguous, faults>>

LoopDefers ==
  /\ loopPc = "defer"
  /\ DeferAll(hold[Loop])
  /\ hold' = [hold EXCEPT ![Loop] = 0]
  /\ PassEnds
  /\ UNCHANGED <<pc, wire, clips, serverVars, ambiguous, faults>>

LoopSleeps ==
  /\ loopPc = "next" /\ batch = {}
  /\ PassEnds
  /\ UNCHANGED <<outboxVars, pc, hold, wire, clips, serverVars, ambiguous,
                 faults>>

\* An exception out of an outbox method is logged and ends the pass; a row
\* whose delivery was confirmed stays when it was remove that failed.
LoopDbError ==
  /\ loopPc \in {"remove", "reschedule", "defer"}
  /\ Fault
  /\ ambiguous' = IF loopPc = "remove"
                    THEN [ambiguous EXCEPT ![cur] = @ + 1] ELSE ambiguous
  /\ hold' = [hold EXCEPT ![Loop] = 0]
  /\ PassEnds
  /\ UNCHANGED <<outboxVars, pc, wire, clips, serverVars>>

----------------------------------------------------------------------------
\* Requests under way when the process dies may still arrive.
Orphans(e) == Cardinality({s \in Senders : EventOf(s) = e /\ wire[s] = "request"})

\* The worker's process dies and is started again: the coroutines are gone,
\* the outbox is where the last transaction left it.
Restart ==
  /\ Fault
  /\ OutboxRestart
  /\ late' = [e \in Events |-> late[e] + Orphans(e)]
  /\ ambiguous' = IF \/ wire[Loop] \in {"request", "created"}
                     \/ loopPc = "remove"
                    THEN [ambiguous EXCEPT ![cur] = @ + 1] ELSE ambiguous
  /\ pc' = [e \in Events |-> IF pc[e] \in {"new", "true", "false"}
                               THEN pc[e] ELSE "gone"]
  /\ hold' = [s \in Senders |-> 0]
  /\ wire' = [s \in Senders |-> "none"]
  /\ PassEnds
  /\ UNCHANGED <<clips, vps, stored>>

Tick ==
  /\ OutboxTick
  /\ UNCHANGED <<clientVars, serverVars, ambiguous, faults>>

Resolves(s) == VpsReceives(s) \/ Unreachable(s)

Ingest(e) ==
  \/ IngestDelivered(e) \/ IngestRefused(e) \/ IngestRetryable(e)
  \/ IngestInserts(e) \/ IngestPrunes(e) \/ IngestDefers(e)

RetryLoop ==
  \/ LoopLists
  \/ \E e \in Events : LoopPosts(e)
  \/ LoopDelivered \/ LoopStillFailing \/ LoopThrottled
  \/ LoopRemoves \/ LoopReschedules \/ LoopDefers \/ LoopSleeps

Faulty ==
  \/ \E s \in Senders : TimesOut(s)
  \/ \E e \in Events : IngestDbError(e)
  \/ LoopDbError
  \/ Restart

Next ==
  \/ \E s \in Senders : Resolves(s)
  \/ \E e \in Events : VpsReceivesLate(e)
  \/ \E e \in Events : IngestPosts(e) \/ Ingest(e)
  \/ RetryLoop
  \/ Faulty
  \/ VpsChanges
  \/ Tick

Spec == Init /\ [][Next]_vars

\* The event loop runs every coroutine that can run, the network resolves
\* every request (httpx has a timeout) and time passes.  Nothing is assumed of
\* detections, of faults or of the server's availability.
Fairness ==
  /\ \A s \in Senders : WF_vars(Resolves(s))
  /\ \A e \in Events : WF_vars(Ingest(e))
  /\ WF_vars(RetryLoop)
  /\ WF_vars(Tick)

FairSpec == Spec /\ Fairness

----------------------------------------------------------------------------
TypeOK ==
  /\ OutboxTypeOK
  /\ pc \in [Events -> {"new", "posting", "insert", "prune", "defer", "true",
                        "false", "gone"}]
  /\ loopPc \in {"asleep", "next", "posting", "remove", "reschedule", "defer"}
  /\ batch \subseteq Events
  /\ cur \in Events \union {Loop}
  /\ hold \in [Senders -> 0..MaxRetryAfter]
  /\ wire \in [Senders -> {"none", "request", "created", "refused",
                           "throttled", "failed"}]
  /\ vps \in {"up", "down", "throttling"}
  /\ late \in [Events -> Nat]
  /\ stored \in [Events -> Nat]
  /\ clips \in [Events -> Nat]
  /\ ambiguous \in [Events -> Nat]
  /\ faults \in Nat

\* ingest_event answers True when the event "esta a caminho": from then on,
\* through outages, lost replies, restarts and failed transactions, the event
\* is committed at the server, or is still queued, or was discarded by the cap.
AcceptedNotLost ==
  \A e \in Events :
    pc[e] = "true" => stored[e] > 0 \/ e \in rows \/ e \in discarded

\* POST /plugins/events has no idempotency key, so every second send is a
\* second event.  A surplus copy exists only for a try that ended in doubt: a
\* timeout, a restart or a failed remove between the commit at the server and
\* the deletion of the row.  Nothing else in the client sends an event twice.
CopiesExplained ==
  \A e \in Events : stored[e] + late[e] <= 1 + ambiguous[e]

\* A render job names the id the server answered with: no event has more jobs
\* than committed copies.
ClipsHaveEvents == \A e \in Events : clips[e] <= stored[e]

\* Once the server is up for good, every queued event whose content it accepts
\* leaves the queue, whatever poisoned rows stand before it in id order.
QueueDrains ==
  <>[](vps = "up") => \A e \in Events \ Poison : [](e \in rows => <>(e \notin rows))

\* "Adia TODA a fila": the loop posts no row whose next attempt lies ahead.
\* Kept while the loop alone meets 429s, broken by one that ingest_event meets
\* after the loop took the snapshot of its pass.
PostsOnlyDueRows ==
  [][\A e \in rows : LoopPosts(e) => wait[e] = 0]_vars

\* "evento enfileirado e fila adiada": nothing but the clock brings the next
\* attempt of a queued row closer.  Kept while the loop alone meets 429s; the
\* reschedule of a row that ingest_event's 429 deferred meanwhile breaks it.
OnlyTheClockHastens ==
  [][\A e \in rows \intersect rows' : wait'[e] < wait[e] => OutboxTick]_vars

----------------------------------------------------------------------------
(* The same system right after an outage that queued every event: all      *)
(* ingest_event calls have returned and the loop works the backlog off.    *)

BacklogInit ==
  /\ unpruned = {} /\ interrupted = {} /\ discarded = {}
  /\ rows = Events
  /\ rowId \in {id \in [Events -> 1..Cardinality(Events)] :
                  \A e, f \in Events : id[e] = id[f] => e = f}
  /\ attempts = [e \in Events |-> 0]
  /\ wait = [e \in Events |-> 0]
  /\ age = [e \in Events |-> 0]
  /\ pc = [e \in Events |-> "true"]
  /\ loopPc = "asleep" /\ batch = {} /\ cur = Loop
  /\ hold = [s \in Senders |-> 0]
  /\ wire = [s \in Senders |-> "none"]
  /\ vps = "down"
  /\ late = [e \in Events |-> 0]
  /\ stored = [e \in Events |-> 0]
  /\ clips = [e \in Events |-> 0]
  /\ ambiguous = [e \in Events |-> 0]
  /\ faults = 0

BacklogSpec == BacklogInit /\ [][Next]_vars /\ Fairness

----------------------------------------------------------------------------
\* Implements the at-least-once delivery that EventDelivery specifies.
Delivery == INSTANCE EventDelivery WITH
  custody <- rows,
  delivered <- {e \in Events : stored[e] > 0},
  accepted <- {e \in Events : pc[e] = "true"}

DeliverySpec == Delivery!Spec
=============================================================================
