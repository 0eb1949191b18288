----------------------------- MODULE EdgeIngest -----------------------------
(***************************************************************************)
(* POST /edge/events:batch and PUT /edge/events/{id}/snapshot for one      *)
(* tenant.  Requests that time out at the client may still be running when *)
(* it sends the same events again: the handler reads which events it knows *)
(* and inserts the others later, under a unique index, and queues their    *)
(* notifications after the commit.                                         *)
(***************************************************************************)
EXTENDS Integers

CONSTANTS IngestEvents,       \* client_event_ids
          WithSnapshot, \* events that announce has_snapshot
          IngestRequests,     \* bound: batches ever sent
          MaxPuts       \* bound: snapshot uploads of an event whose reply is lost

ASSUME EdgeIngestAssumption == WithSnapshot \subseteq IngestEvents /\ MaxPuts \in Nat

Positions == {1, 2}  \* a batch may hold an event twice
NoBatch == [stage |-> "unsent"]

VARIABLES rows,    \* event -> its rows in vms_events
          images,  \* events with an image_path
          jobs,    \* event -> notification jobs ever queued
          gone,    \* events whose camera is not, or no longer, the tenant's
          request, \* request -> NoBatch, or its stage, batch and verdicts
          outbox,  \* events the client still has to send
          uploads, \* events whose snapshot the client still has to send
          saved,   \* events whose snapshot a running PUT has committed
          resent,  \* event -> snapshot uploads whose reply was lost
          ingestFaults   \* history: events a crash or a failed enqueue_job touched

ingestVars == <<rows, images, jobs, gone, request, outbox, uploads, saved, resent, ingestFaults>>

Verdicts == {"accepted", "duplicate", "rejected"}
Batches == [Positions -> IngestEvents]
InProgress(r) == request[r].stage \in {"read", "stored"}

IngestInit ==
  /\ rows = [e \in IngestEvents |-> 0] /\ images = {}
  /\ jobs = [e \in IngestEvents |-> 0]
  /\ gone \in SUBSET IngestEvents
  /\ request = [r \in IngestRequests |-> NoBatch]
  /\ outbox = IngestEvents /\ uploads = {} /\ saved = {}
  /\ resent = [e \in IngestEvents |-> 0] /\ ingestFaults = {}

\* The client sends what has no verdict yet; it may have given up on others.
SendBatch(r) ==
  /\ request[r] = NoBatch
  /\ \E b \in [Positions -> outbox] :
       request' = [request EXCEPT ![r] = [stage |-> "sent", batch |-> b,
                     verdict |-> [i \in Positions |-> "rejected"]]]
  /\ UNCHANGED <<rows, images, jobs, gone, outbox, uploads, saved, resent, ingestFaults>>

\* EdgeBatchItemResult of each item: known, seen in this batch, of no camera, new.
VerdictOf(b, i) ==
  CASE rows[b[i]] > 0 -> "duplicate"
    [] b[i] \in gone -> "rejected"
    [] \E j \in Positions : j < i /\ b[j] = b[i] -> "duplicate"
    [] OTHER -> "accepted"

Inserts(r) == {request[r].batch[i] : i \in {j \in Positions : request[r].verdict[j] = "accepted"}}

\* The two SELECTs and the loop over the items.
ReadBatch(r) ==
  /\ request[r].stage = "sent"
  /\ request' = [request EXCEPT ![r].stage = "read",
                   ![r].verdict = [i \in Positions |-> VerdictOf(request[r].batch, i)]]
  /\ UNCHANGED <<rows, images, jobs, gone, outbox, uploads, saved, resent, ingestFaults>>

\* Mutant of Violates: no unique index.
ViolatesNoIndex(es) == \E e \in es : e \in gone

\* The unique index on (tenant, client_event_id) and the key of the camera.
Violates(es) == \E e \in es : rows[e] > 0 \/ e \in gone

CommitBatch(r) ==
  /\ request[r].stage = "read" /\ ~Violates(Inserts(r))
  /\ rows' = [e \in IngestEvents |-> rows[e] + (IF e \in Inserts(r) THEN 1 ELSE 0)]
  /\ request' = [request EXCEPT ![r].stage = "stored"]
  /\ UNCHANGED <<images, jobs, gone, outbox, uploads, saved, resent, ingestFaults>>

\* IntegrityError: the whole batch is rolled back and answered 500.
BatchFails(r) ==
  /\ request[r].stage = "read" /\ Violates(Inserts(r))
  /\ request' = [request EXCEPT ![r].stage = "over"]
  /\ UNCHANGED <<rows, images, jobs, gone, outbox, uploads, saved, resent, ingestFaults>>

\* _publish_batch_side_effects, then the reply, which the client may not get.
\* What enqueue_job raises is logged and forgotten.
Notified(r) == Inserts(r) \ WithSnapshot

AnswerBatch(r, failed, arrives) ==
  /\ request[r].stage = "stored"
  /\ failed \subseteq Notified(r)
  /\ jobs' = [e \in IngestEvents |-> jobs[e] + (IF e \in Notified(r) \ failed THEN 1 ELSE 0)]
  /\ ingestFaults' = ingestFaults \union failed
  /\ request' = [request EXCEPT ![r].stage = "over"]
  /\ LET known == {request[r].batch[i] : i \in Positions}
     IN  IF arrives
         THEN /\ outbox' = outbox \ known
              /\ uploads' = uploads \union
                   {e \in known \intersect outbox : e \in WithSnapshot /\ rows[e] > 0}
         ELSE UNCHANGED <<outbox, uploads>>
  /\ UNCHANGED <<rows, images, gone, saved, resent>>

\* The API dies: what was not committed is gone, and so are the side effects.
BatchCrashes(r) ==
  /\ InProgress(r)
  /\ ingestFaults' = IF request[r].stage = "stored" THEN ingestFaults \union Notified(r) ELSE ingestFaults
  /\ request' = [request EXCEPT ![r].stage = "over"]
  /\ UNCHANGED <<rows, images, jobs, gone, outbox, uploads, saved, resent>>

\* The snapshot is written and committed before its job is queued.
PutSnapshot(e) ==
  /\ e \in uploads \ saved /\ rows[e] > 0
  /\ images' = images \union {e} /\ saved' = saved \union {e}
  /\ UNCHANGED <<rows, jobs, gone, request, outbox, uploads, resent, ingestFaults>>

PutQueues(e, fails, arrives) ==
  /\ e \in saved /\ saved' = saved \ {e}
  /\ jobs' = IF fails THEN jobs ELSE [jobs EXCEPT ![e] = @ + 1]
  /\ ingestFaults' = IF fails THEN ingestFaults \union {e} ELSE ingestFaults
  /\ \/ arrives /\ uploads' = uploads \ {e} /\ UNCHANGED resent
     \/ /\ ~arrives /\ resent[e] < MaxPuts
        /\ resent' = [resent EXCEPT ![e] = @ + 1] /\ UNCHANGED uploads
  /\ UNCHANGED <<rows, images, gone, request, outbox>>

PutCrashes(e) ==
  /\ e \in saved /\ saved' = saved \ {e}
  /\ UNCHANGED <<rows, images, jobs, gone, request, outbox, uploads, resent, ingestFaults>>

\* ON DELETE SET NULL keeps the events of a deleted camera.
CameraDeleted(e) ==
  /\ e \notin gone /\ gone' = gone \union {e}
  /\ UNCHANGED <<rows, images, jobs, request, outbox, uploads, saved, resent, ingestFaults>>

IngestNext ==
  \/ \E r \in IngestRequests :
       \/ SendBatch(r) \/ ReadBatch(r) \/ CommitBatch(r) \/ BatchFails(r) \/ BatchCrashes(r)
       \/ \E failed \in SUBSET IngestEvents, arrives \in BOOLEAN : AnswerBatch(r, failed, arrives)
  \/ \E e \in IngestEvents :
       \/ PutSnapshot(e) \/ PutCrashes(e) \/ CameraDeleted(e)
       \/ \E fails, arrives \in BOOLEAN : PutQueues(e, fails, arrives)

IngestSpec == IngestInit /\ [][IngestNext]_ingestVars

(***************************************************************************)
(* Properties                                                              *)
(***************************************************************************)
\* What every variable may hold.
IngestTypeOK ==
  /\ rows \in [IngestEvents -> Nat] /\ jobs \in [IngestEvents -> Nat]
  /\ \A s \in {images, gone, outbox, uploads, saved, ingestFaults} : s \subseteq IngestEvents
  /\ request \in [IngestRequests -> {NoBatch} \union
       [stage : {"sent", "read", "stored", "over"}, batch : Batches,
        verdict : [Positions -> Verdicts]]]
  /\ resent \in [IngestEvents -> 0..MaxPuts]

\* However often and however late a batch arrives, an event is stored at most
\* once, and one that leaves the client's queue is stored unless its camera is
\* not the tenant's.
StoredOnceAndKept ==
  \A e \in IngestEvents :
    /\ rows[e] <= 1
    /\ e \notin outbox => rows[e] = 1 \/ e \in gone

\* Every event is announced once per upload of its snapshot that was answered
\* or repeated, and an event the client is done with is announced at least once
\* unless a crash or a failed enqueue_job came between its commit and its job.
SilentOnlyByFault ==
  \A e \in IngestEvents :
    /\ jobs[e] <= 1 + resent[e]
    /\ e \notin outbox \union uploads /\ rows[e] = 1 /\ jobs[e] = 0 =>
         \/ e \in ingestFaults
         \/ \E r \in IngestRequests : request[r].stage = "stored" /\ e \in Inserts(r)

\* What an installation hands over is kept, and what is kept is announced.
EventsKept == StoredOnceAndKept /\ SilentOnlyByFault
=============================================================================
