-------------------------- MODULE EdgeIngestProofs --------------------------
(***************************************************************************)
(* What an installation hands over is kept: quota, batches and clips, for  *)
(* any rates, costs, numbers of events, requests and workers.              *)
(***************************************************************************)
EXTENDS IngestQuota, EdgeIngest, EventClips, FiniteSetTheorems, TLAPS

(***************************************************************************)
(* IngestQuota: the quota holds for any rate and any costs.                *)
(***************************************************************************)
\* From the last call to the expiry of the key three minutes of tokens flow in,
\* and what no capacity exceeds is those and what is forgiven.
ForgottenLate ==
  /\ key => life >= 1 /\ life + idle >= 3 * EventsPerMinute /\ life + idle <= MaxLife
  /\ ~key => tokens = 0 /\ idle = 0 /\ life = 0 /\ credit = Capacity(MaxCost)

\* The bucket that is never forgotten holds what the key would refill to.
CreditCovers ==
  /\ credit <= Capacity(MaxCost)
  /\ key => credit >= AtMost(Capacity(MaxCost), tokens + idle)

\* What has flowed in and what is still to be waited for make up the cost.
PromiseCovered ==
  key => tokens + idle + promise.wait >= promise.cost

\* The inductive invariant of the bucket.
QuotaInv == QuotaTypeOK /\ ForgottenLate /\ CreditCovers /\ PromiseCovered

USE DEF BurstMultiplier

\* The capacity is at least the cost and at least the burst, and grows with the cost.
LEMMA CapacityBounds ==
  ASSUME NEW cost \in 0..MaxCost
  PROVE  /\ Capacity(cost) \in Nat
         /\ Capacity(cost) >= cost
         /\ Capacity(cost) >= 2 * EventsPerMinute
         /\ Capacity(cost) <= Capacity(MaxCost)
         /\ Capacity(MaxCost) \in Nat
         /\ Forgiven \in Nat
         /\ Capacity(MaxCost) <= 3 * EventsPerMinute + Forgiven
         /\ MaxLife = Capacity(MaxCost) + EventsPerMinute
BY QuotaAssumption DEF Capacity, MaxLife, Life, Forgiven

\* What the script finds is no more than what the other bucket has.
LEMMA FoundIsCovered ==
  ASSUME QuotaInv, NEW cost \in 1..MaxCost
  PROVE  /\ Refilled(cost) \in Nat
         /\ Refilled(cost) <= Capacity(cost)
         /\ Refilled(cost) <= credit
<1>1. cost \in 0..MaxCost
  BY QuotaAssumption
<1>2. CASE key
  BY <1>1, <1>2, CapacityBounds, QuotaAssumption
  DEF QuotaInv, QuotaTypeOK, CreditCovers, Refilled, AtMost
<1>3. CASE ~key
  BY <1>1, <1>3, CapacityBounds, QuotaAssumption
  DEF QuotaInv, QuotaTypeOK, ForgottenLate, Refilled
<1> QED
  BY <1>2, <1>3 DEF QuotaInv, QuotaTypeOK

\* Whoever is refused finds a key that was not filled up to its capacity.
LEMMA RefusedFindsKey ==
  ASSUME QuotaInv, NEW cost \in 1..MaxCost, ~Allows(cost)
  PROVE  key /\ Refilled(cost) = tokens + idle /\ Refilled(cost) < cost
BY CapacityBounds, QuotaAssumption
DEF QuotaInv, QuotaTypeOK, Allows, Refilled, AtMost

LEMMA QuotaInitHolds == QuotaInit => QuotaInv
<1> HAVE QuotaInit
<1>1. MaxCost \in 0..MaxCost /\ Capacity(MaxCost) \in Nat /\ MaxLife \in Nat
  BY CapacityBounds, QuotaAssumption
<1>2. QuotaTypeOK
  <2>1. key \in BOOLEAN /\ redisUp \in BOOLEAN
    BY ZenonT(10) DEF QuotaInit
  <2>2. /\ tokens \in 0..Capacity(MaxCost) /\ credit \in Int
        /\ idle \in 0..MaxLife /\ life \in 0..MaxLife
        /\ promise \in [cost : 0..MaxCost, wait : 0..MaxCost]
    BY <1>1, QuotaAssumption DEF QuotaInit, NoPromise
  <2> QED
    BY <2>1, <2>2 DEF QuotaTypeOK
<1>3. ForgottenLate /\ CreditCovers /\ PromiseCovered
  BY <1>1 DEF QuotaInit, ForgottenLate, CreditCovers, PromiseCovered
<1> QED
  BY <1>2, <1>3 DEF QuotaInv

\* A call that is admitted takes the same from both buckets.
LEMMA AllowsKeeps ==
  ASSUME QuotaInv, NEW cost \in 1..MaxCost, CheckAllows(cost)
  PROVE  QuotaInv'
<1>1. cost \in 0..MaxCost
  BY QuotaAssumption
<1>2. Refilled(cost) \in Nat /\ Refilled(cost) <= credit /\ Refilled(cost) <= Capacity(cost)
      /\ Refilled(cost) >= cost
  BY FoundIsCovered DEF CheckAllows, Allows
<1>3. /\ key' = TRUE /\ tokens' = Refilled(cost) - cost /\ idle' = 0
      /\ life' = Capacity(cost) + EventsPerMinute
      /\ credit' = credit - cost /\ promise' = NoPromise /\ redisUp' = redisUp
  BY DEF CheckAllows, Writes, Life
<1>4. QuotaTypeOK'
  BY <1>1, <1>2, <1>3, CapacityBounds, QuotaAssumption
  DEF QuotaInv, QuotaTypeOK, NoPromise
<1>5. ForgottenLate'
  BY <1>1, <1>3, CapacityBounds, QuotaAssumption DEF ForgottenLate
<1>6. CreditCovers'
  BY <1>1, <1>2, <1>3, CapacityBounds, QuotaAssumption
  DEF QuotaInv, QuotaTypeOK, CreditCovers, AtMost
<1>7. PromiseCovered'
  BY <1>2, <1>3 DEF PromiseCovered, NoPromise
<1> QED
  BY <1>4, <1>5, <1>6, <1>7 DEF QuotaInv

\* A call that is refused takes nothing, and writes what it found.
LEMMA RefusesKeeps ==
  ASSUME QuotaInv, NEW cost \in 1..MaxCost, CheckRefuses(cost)
  PROVE  QuotaInv'
<1>1. cost \in 0..MaxCost
  BY QuotaAssumption
<1>2. /\ key /\ Refilled(cost) = tokens + idle /\ Refilled(cost) < cost
      /\ Refilled(cost) \in Nat
  BY RefusedFindsKey, FoundIsCovered DEF CheckRefuses
<1>3. /\ key' = TRUE /\ tokens' = tokens + idle /\ idle' = 0
      /\ life' = Capacity(cost) + EventsPerMinute
      /\ credit' = credit /\ redisUp' = redisUp
  BY <1>2 DEF CheckRefuses, Writes, Life
<1>4. promise' = promise \/ promise' = [cost |-> cost, wait |-> cost - Refilled(cost)]
  BY DEF CheckRefuses
<1>5. QuotaTypeOK'
  <2>1. promise' \in [cost : 0..MaxCost, wait : 0..MaxCost]
    BY <1>1, <1>2, <1>4, QuotaAssumption DEF QuotaInv, QuotaTypeOK
  <2> QED
    BY <2>1, <1>1, <1>2, <1>3, CapacityBounds, QuotaAssumption DEF QuotaInv, QuotaTypeOK
<1>6. ForgottenLate'
  BY <1>1, <1>3, CapacityBounds, QuotaAssumption DEF ForgottenLate
<1>7. CreditCovers'
  BY <1>1, <1>2, <1>3, CapacityBounds, QuotaAssumption
  DEF QuotaInv, QuotaTypeOK, CreditCovers, AtMost
<1>8. PromiseCovered'
  <2>1. CASE promise' = promise
    BY <2>1, <1>2, <1>3 DEF QuotaInv, QuotaTypeOK, PromiseCovered
  <2>2. CASE promise' = [cost |-> cost, wait |-> cost - Refilled(cost)]
    BY <2>2, <1>1, <1>2, <1>3 DEF QuotaInv, QuotaTypeOK, PromiseCovered
  <2> QED
    BY <2>1, <2>2, <1>4
<1> QED
  BY <1>5, <1>6, <1>7, <1>8 DEF QuotaInv

\* Time refills both buckets, and takes the key when what is forgiven fills the other.
LEMMA TickKeeps ==
  ASSUME QuotaInv, QuotaTick
  PROVE  QuotaInv'
<1>1. /\ key \in BOOLEAN /\ tokens \in Nat /\ idle \in Nat /\ life \in Nat /\ credit \in Int
      /\ tokens <= Capacity(MaxCost)
      /\ promise \in [cost : 0..MaxCost, wait : 0..MaxCost]
  BY CapacityBounds, QuotaAssumption DEF QuotaInv, QuotaTypeOK
<1>2. /\ MaxCost \in 0..MaxCost /\ Capacity(MaxCost) \in Nat /\ MaxLife \in Nat
      /\ Forgiven \in Nat /\ Capacity(MaxCost) <= 3 * EventsPerMinute + Forgiven
      /\ EventsPerMinute \in Nat /\ EventsPerMinute >= 1
  BY CapacityBounds, QuotaAssumption
<1>3. redisUp' = redisUp
  BY DEF QuotaTick
<1>4. /\ promise' \in [cost : 0..MaxCost, wait : 0..MaxCost]
      /\ promise'.cost = promise.cost
      /\ promise'.wait >= promise.wait - 1
  BY <1>1, QuotaAssumption DEF QuotaTick
<1>5. CASE key /\ life > 1
  <2>1. /\ key' = TRUE /\ life' = life - 1 /\ idle' = idle + 1 /\ tokens' = tokens
    BY <1>5 DEF QuotaTick
  <2>2. life + idle <= MaxLife /\ life + idle >= 3 * EventsPerMinute
    BY <1>5 DEF QuotaInv, ForgottenLate
  <2>3. credit' = AtMost(Capacity(MaxCost), credit + 1)
    BY <2>1, <1>1 DEF QuotaTick
  <2>4. QuotaTypeOK'
    BY <2>1, <2>2, <2>3, <1>1, <1>2, <1>3, <1>4, <1>5 DEF QuotaInv, QuotaTypeOK, AtMost
  <2>5. ForgottenLate'
    BY <2>1, <2>2, <1>1, <1>2, <1>5 DEF ForgottenLate
  <2>6. CreditCovers'
    BY <2>1, <2>3, <1>1, <1>2, <1>5 DEF QuotaInv, CreditCovers, AtMost
  <2>7. PromiseCovered'
    BY <2>1, <1>1, <1>4, <1>5, QuotaAssumption DEF QuotaInv, PromiseCovered
  <2> QED
    BY <2>4, <2>5, <2>6, <2>7 DEF QuotaInv
<1>6. CASE ~(key /\ life > 1)
  <2>1. key' = FALSE /\ life' = 0 /\ idle' = 0 /\ tokens' = 0
    BY <1>6 DEF QuotaTick
  <2>2. credit' = Capacity(MaxCost)
    <3>1. CASE key
      <4>1. credit' = AtMost(Capacity(MaxCost), credit + 1 + Forgiven)
        BY <2>1, <3>1 DEF QuotaTick
      <4>2. idle + 1 >= 3 * EventsPerMinute
        BY <3>1, <1>1, <1>2, <1>6 DEF QuotaInv, ForgottenLate
      <4> QED
        BY <3>1, <4>1, <4>2, <1>1, <1>2 DEF QuotaInv, CreditCovers, AtMost
    <3>2. CASE ~key
      <4>1. credit' = AtMost(Capacity(MaxCost), credit + 1)
        BY <3>2, <1>1, <1>2 DEF QuotaTick
      <4> QED
        BY <3>2, <4>1, <1>1, <1>2 DEF QuotaInv, ForgottenLate, AtMost
    <3> QED
      BY <3>1, <3>2
  <2>3. QuotaTypeOK'
    <3>1. key' \in BOOLEAN /\ redisUp' \in BOOLEAN
      BY <2>1, <1>3, ZenonT(10) DEF QuotaInv, QuotaTypeOK
    <3>2. /\ tokens' \in 0..Capacity(MaxCost) /\ credit' \in Int
          /\ idle' \in 0..MaxLife /\ life' \in 0..MaxLife
      BY <2>1, <2>2, <1>2
    <3> QED
      BY <3>1, <3>2, <1>4 DEF QuotaTypeOK
  <2>4. ForgottenLate' /\ CreditCovers' /\ PromiseCovered'
    BY <2>1, <2>2, <1>2 DEF ForgottenLate, CreditCovers, PromiseCovered
  <2> QED
    BY <2>3, <2>4 DEF QuotaInv
<1> QED
  BY <1>5, <1>6

LEMMA QuotaStep == QuotaInv /\ [QuotaNext]_quotaVars => QuotaInv'
<1> SUFFICES ASSUME QuotaInv, [QuotaNext]_quotaVars PROVE QuotaInv'
  OBVIOUS
<1>1. ASSUME NEW cost \in 1..MaxCost, CheckAllows(cost) PROVE QuotaInv'
  BY <1>1, AllowsKeeps
<1>2. ASSUME NEW cost \in 1..MaxCost, CheckRefuses(cost) PROVE QuotaInv'
  BY <1>2, RefusesKeeps
<1>3. ASSUME NEW cost \in 1..MaxCost, CheckFailsOpen(cost) PROVE QuotaInv'
  BY <1>3 DEF CheckFailsOpen, quotaVars, QuotaInv, QuotaTypeOK, ForgottenLate,
              CreditCovers, PromiseCovered
<1>4. CASE RedisChanges
  BY <1>4 DEF RedisChanges, QuotaInv, QuotaTypeOK, ForgottenLate, CreditCovers,
              PromiseCovered
<1>5. CASE QuotaTick
  BY <1>5, TickKeeps
<1>6. CASE UNCHANGED quotaVars
  BY <1>6 DEF quotaVars, QuotaInv, QuotaTypeOK, ForgottenLate, CreditCovers,
              PromiseCovered
<1> QED
  BY <1>1, <1>2, <1>3, <1>4, <1>5, <1>6 DEF QuotaNext

\* The invariant says that both promises of the quota are kept.
LEMMA QuotaInvSuffices == QuotaInv => QuotaHolds
<1> HAVE QuotaInv
<1>1. NeverOverspends
  BY QuotaAssumption, CapacityBounds
  DEF QuotaInv, QuotaTypeOK, ForgottenLate, CreditCovers, AtMost, NeverOverspends
<1>2. RetryAfterSuffices
  <2>1. promise.cost \in 0..MaxCost /\ promise.wait \in Nat
    BY QuotaAssumption DEF QuotaInv, QuotaTypeOK
  <2> QED
    BY <2>1, QuotaAssumption, CapacityBounds
    DEF QuotaInv, QuotaTypeOK, PromiseCovered, RetryAfterSuffices, Allows, Refilled, AtMost
<1> QED
  BY <1>1, <1>2 DEF QuotaHolds

\* What the bucket, the clock and the promise may hold, always.
THEOREM QuotaTypeAlwaysOK == QuotaSpec => []QuotaTypeOK
<1>1. QuotaSpec => []QuotaInv
  BY QuotaInitHolds, QuotaStep, PTL DEF QuotaSpec
<1>2. QuotaInv => QuotaTypeOK
  BY DEF QuotaInv
<1> QED
  BY <1>1, <1>2, PTL

\* For every rate and every size of batch: the script admits no more than a bucket
\* that is not forgotten would, but for what a batch exceeds three minutes of the
\* rate by at each expiry of the key; and who waits for its Retry-After is admitted.
THEOREM QuotaAlwaysHolds == QuotaSpec => []QuotaHolds
<1>1. QuotaSpec => []QuotaInv
  BY QuotaInitHolds, QuotaStep, PTL DEF QuotaSpec
<1> QED
  BY <1>1, QuotaInvSuffices, PTL

(***************************************************************************)
(* EdgeIngest: events are kept and announced, for any number of events and *)
(* of requests that overlap.                                               *)
(***************************************************************************)
\* A request that was sent.
Batch == [stage : {"sent", "read", "stored", "over"}, batch : Batches,
          verdict : [Positions -> Verdicts]]

\* Each item of a batch that was read will be inserted, is known, or belongs to
\* no camera; and what was inserted is there, not announced yet.
BatchSound(r) ==
  /\ request[r].stage \in {"read", "stored"} =>
       \A i \in Positions : \/ request[r].batch[i] \in Inserts(r)
                            \/ rows[request[r].batch[i]] = 1
                            \/ request[r].batch[i] \in gone
  /\ request[r].stage = "stored" =>
       \A e \in Inserts(r) : rows[e] = 1 /\ (e \notin WithSnapshot => jobs[e] = 0)

\* No two requests have inserted the same event.
OneInserts ==
  \A r, q \in IngestRequests : \A e \in IngestEvents :
    /\ request[r].stage = "stored" /\ e \in Inserts(r)
    /\ request[q].stage = "stored" /\ e \in Inserts(q)
    => r = q

\* An event at the server and at the client.
EventSound(e) ==
  /\ rows[e] = 0 \/ rows[e] = 1
  /\ rows[e] = 0 => jobs[e] = 0
  /\ e \notin outbox => rows[e] = 1 \/ e \in gone
  /\ e \in uploads => rows[e] = 1 /\ e \in WithSnapshot /\ e \notin outbox
  /\ e \in saved => e \in uploads

\* An event without a snapshot is announced by the request that inserted it.
PlainSound(e) ==
  /\ jobs[e] <= 1
  /\ rows[e] = 1 /\ jobs[e] = 0 =>
       \/ e \in ingestFaults
       \/ \E r \in IngestRequests : request[r].stage = "stored" /\ e \in Inserts(r)

\* An event with a snapshot is announced by its upload, and by each repetition.
SnapshotSound(e) ==
  /\ jobs[e] <= resent[e] + 1
  /\ e \in outbox \union uploads => jobs[e] <= resent[e]
  /\ e \notin outbox \union uploads /\ rows[e] = 1 => jobs[e] > 0 \/ e \in ingestFaults

Announced(e) == IF e \in WithSnapshot THEN SnapshotSound(e) ELSE PlainSound(e)

\* The inductive invariant of the ingest.
IngestInv ==
  /\ IngestTypeOK /\ OneInserts
  /\ \A r \in IngestRequests : BatchSound(r)
  /\ \A e \in IngestEvents : EventSound(e) /\ Announced(e)

\* The type invariant in a form in which a request is a record or none.
LEMMA IngestTypes ==
  ASSUME IngestTypeOK
  PROVE  /\ rows \in [IngestEvents -> Nat] /\ jobs \in [IngestEvents -> Nat]
         /\ images \subseteq IngestEvents /\ gone \subseteq IngestEvents
         /\ outbox \subseteq IngestEvents /\ uploads \subseteq IngestEvents
         /\ saved \subseteq IngestEvents /\ ingestFaults \subseteq IngestEvents
         /\ request \in [IngestRequests -> {NoBatch} \union Batch]
         /\ resent \in [IngestEvents -> Nat]
         /\ \A r \in IngestRequests : request[r].stage # "unsent" => request[r] \in Batch
BY DEF IngestTypeOK, Batch, NoBatch

LEMMA IngestInitHolds == IngestInit => IngestInv
<1> HAVE IngestInit
<1>1. IngestTypeOK
  <2>1. request \in [IngestRequests -> {NoBatch} \union
          [stage : {"sent", "read", "stored", "over"}, batch : Batches,
           verdict : [Positions -> Verdicts]]]
    BY DEF IngestInit
  <2>2. rows \in [IngestEvents -> Nat] /\ jobs \in [IngestEvents -> Nat]
        /\ resent \in [IngestEvents -> 0..MaxPuts]
    BY EdgeIngestAssumption DEF IngestInit
  <2>3. \A s \in {images, gone, outbox, uploads, saved, ingestFaults} : s \subseteq IngestEvents
    BY DEF IngestInit
  <2> QED
    BY <2>1, <2>2, <2>3 DEF IngestTypeOK
<1>2. \A r \in IngestRequests : request[r].stage = "unsent"
  BY DEF IngestInit, NoBatch
<1>3. OneInserts /\ \A r \in IngestRequests : BatchSound(r)
  BY <1>2 DEF OneInserts, BatchSound
<1>4. \A e \in IngestEvents : EventSound(e) /\ Announced(e)
  <2> TAKE e \in IngestEvents
  <2>1. rows[e] = 0 /\ jobs[e] = 0 /\ resent[e] = 0 /\ e \in outbox
        /\ uploads = {} /\ saved = {}
    BY DEF IngestInit
  <2> QED
    BY <2>1 DEF EventSound, Announced, PlainSound, SnapshotSound
<1> QED
  BY <1>1, <1>3, <1>4 DEF IngestInv

LEMMA StageIsBatch ==
  ASSUME NEW b \in Batch, NEW s \in {"sent", "read", "stored", "over"}
  PROVE  /\ [b EXCEPT !.stage = s] \in Batch
         /\ [b EXCEPT !.stage = s].stage = s
         /\ [b EXCEPT !.stage = s].batch = b.batch
         /\ [b EXCEPT !.stage = s].verdict = b.verdict
BY DEF Batch

LEMMA VerdictIsBatch ==
  ASSUME NEW b \in Batch, NEW v \in [Positions -> Verdicts]
  PROVE  /\ [b EXCEPT !.stage = "read", !.verdict = v] \in Batch
         /\ [b EXCEPT !.stage = "read", !.verdict = v].stage = "read"
         /\ [b EXCEPT !.stage = "read", !.verdict = v].batch = b.batch
         /\ [b EXCEPT !.stage = "read", !.verdict = v].verdict = v
BY DEF Batch

\* A request changes its stage: what it inserts is what it was.
LEMMA StageMoves ==
  ASSUME IngestTypeOK, NEW r \in IngestRequests, request[r].stage # "unsent",
         NEW s \in {"sent", "read", "stored", "over"},
         request' = [request EXCEPT ![r].stage = s]
  PROVE  /\ request' \in [IngestRequests -> {NoBatch} \union Batch]
         /\ request'[r].stage = s /\ request'[r].batch = request[r].batch
         /\ Inserts(r)' = Inserts(r)
         /\ \A q \in IngestRequests : q # r => request'[q] = request[q]
                                               /\ Inserts(q)' = Inserts(q)
<1>1. request \in [IngestRequests -> {NoBatch} \union Batch] /\ request[r] \in Batch
  BY IngestTypes
<1>2. [request[r] EXCEPT !.stage = s] \in Batch
  BY <1>1, StageIsBatch
<1>3. request' \in [IngestRequests -> {NoBatch} \union Batch]
      /\ request'[r] = [request[r] EXCEPT !.stage = s]
      /\ \A q \in IngestRequests : q # r => request'[q] = request[q]
  BY <1>1, <1>2
<1>4. request'[r].stage = s /\ request'[r].batch = request[r].batch
      /\ request'[r].verdict = request[r].verdict
  BY <1>1, <1>3, StageIsBatch
<1>5. Inserts(r)' = Inserts(r)
  BY <1>4 DEF Inserts
<1>6. \A q \in IngestRequests : q # r => Inserts(q)' = Inserts(q)
  BY <1>3 DEF Inserts
<1> QED
  BY <1>3, <1>4, <1>5, <1>6

\* A request that had not inserted moves on, and still has not.
LEMMA BeforeInsert ==
  ASSUME IngestInv, NEW r \in IngestRequests,
         request' \in [IngestRequests -> {NoBatch} \union Batch],
         \A q \in IngestRequests : q # r => request'[q] = request[q],
         request[r].stage # "stored", request'[r].stage # "stored", BatchSound(r)',
         UNCHANGED <<rows, images, jobs, gone, outbox, uploads, saved, resent, ingestFaults>>
  PROVE  IngestInv'
<1> USE DEF IngestInv
<1>1. IngestTypeOK'
  BY DEF IngestTypeOK, Batch
<1>2. \A q \in IngestRequests : q # r => Inserts(q)' = Inserts(q)
  BY DEF Inserts
<1>3. \A q \in IngestRequests : BatchSound(q)'
  BY <1>2 DEF BatchSound
<1>4. OneInserts'
  BY <1>2 DEF OneInserts
<1>5. ASSUME NEW e \in IngestEvents PROVE EventSound(e)' /\ Announced(e)'
  <2>1. EventSound(e) /\ Announced(e)
    OBVIOUS
  <2>2. EventSound(e)'
    BY <2>1 DEF EventSound
  <2>3. CASE e \in WithSnapshot
    BY <2>1, <2>2, <2>3 DEF Announced, SnapshotSound
  <2>4. CASE e \notin WithSnapshot
    <3>1. PlainSound(e)
      BY <2>1, <2>4 DEF Announced
    <3>2. PlainSound(e)'
      BY <3>1, <1>2 DEF PlainSound
    <3> QED
      BY <2>2, <2>4, <3>2 DEF Announced
  <2> QED
    BY <2>2, <2>3, <2>4
<1> QED
  BY <1>1, <1>3, <1>4, <1>5

LEMMA SendBatchKeeps ==
  ASSUME IngestInv, NEW r \in IngestRequests, SendBatch(r)
  PROVE  IngestInv'
<1>1. PICK b \in [Positions -> outbox] :
        request' = [request EXCEPT ![r] = [stage |-> "sent", batch |-> b,
                      verdict |-> [i \in Positions |-> "rejected"]]]
  BY DEF SendBatch
<1>2. [stage |-> "sent", batch |-> b, verdict |-> [i \in Positions |-> "rejected"]] \in Batch
  BY IngestTypes DEF IngestInv, Batch, Batches, Verdicts
<1>3. request' \in [IngestRequests -> {NoBatch} \union Batch]
      /\ request'[r].stage = "sent" /\ request[r].stage = "unsent"
      /\ \A q \in IngestRequests : q # r => request'[q] = request[q]
  BY <1>1, <1>2, IngestTypes DEF IngestInv, SendBatch, NoBatch
<1>4. BatchSound(r)'
  BY <1>3 DEF BatchSound
<1> QED
  BY <1>3, <1>4, BeforeInsert DEF SendBatch

\* The two reads and the loop leave no item without a reason.
LEMMA ReadBatchKeeps ==
  ASSUME IngestInv, NEW r \in IngestRequests, ReadBatch(r)
  PROVE  IngestInv'
<1> DEFINE b == request[r].batch
<1> DEFINE v == [i \in Positions |-> VerdictOf(b, i)]
<1>1. request[r].stage = "sent" /\ request[r] \in Batch
      /\ request \in [IngestRequests -> {NoBatch} \union Batch]
  BY IngestTypes DEF ReadBatch, IngestInv
<1>2. b \in [Positions -> IngestEvents] /\ v \in [Positions -> Verdicts]
  BY <1>1 DEF Batch, Batches, VerdictOf, Verdicts
<1>3. /\ request' = [request EXCEPT ![r] = [request[r] EXCEPT !.stage = "read", !.verdict = v]]
      /\ UNCHANGED <<rows, images, jobs, gone, outbox, uploads, saved, resent, ingestFaults>>
  BY DEF ReadBatch
<1> HIDE DEF b, v
<1>4. [request[r] EXCEPT !.stage = "read", !.verdict = v] \in Batch
  BY <1>1, <1>2, VerdictIsBatch DEF b
<1>5. request' \in [IngestRequests -> {NoBatch} \union Batch]
      /\ request'[r] = [request[r] EXCEPT !.stage = "read", !.verdict = v]
      /\ \A q \in IngestRequests : q # r => request'[q] = request[q]
  BY <1>1, <1>3, <1>4
<1>6. request'[r].stage = "read" /\ request'[r].batch = b /\ request'[r].verdict = v
  <2>1. /\ [request[r] EXCEPT !.stage = "read", !.verdict = v].stage = "read"
        /\ [request[r] EXCEPT !.stage = "read", !.verdict = v].batch = request[r].batch
        /\ [request[r] EXCEPT !.stage = "read", !.verdict = v].verdict = v
    BY <1>1, <1>2, VerdictIsBatch
  <2> QED
    BY <2>1, <1>5 DEF b
<1>7. Inserts(r)' = {b[i] : i \in {j \in Positions : v[j] = "accepted"}}
  BY <1>6 DEF Inserts
<1>8. ASSUME NEW i \in Positions
      PROVE  b[i] \in Inserts(r)' \/ rows[b[i]] = 1 \/ b[i] \in gone
  <2>1. b[i] \in IngestEvents /\ (rows[b[i]] = 0 \/ rows[b[i]] = 1)
    BY <1>2 DEF IngestInv, EventSound
  <2>2. ASSUME rows[b[i]] = 0, b[i] \notin gone
        PROVE  \E j \in Positions : b[j] = b[i] /\ v[j] = "accepted"
    <3>1. Positions = {1, 2}
      BY DEF Positions
    <3>2. v[i] = VerdictOf(b, i)
      BY DEF v
    <3>3. v[1] = "accepted" \/ b[1] # b[i]
      BY <2>2, <3>1 DEF VerdictOf, v
    <3>4. b[1] # b[i] => i = 2 /\ v[i] = "accepted"
      BY <2>2, <3>1, <3>2 DEF VerdictOf
    <3> QED
      BY <3>1, <3>3, <3>4
  <2> QED
    BY <2>1, <2>2, <1>7
<1>9. BatchSound(r)'
  BY <1>3, <1>6, <1>8 DEF BatchSound
<1> QED
  BY <1>1, <1>3, <1>5, <1>6, <1>9, BeforeInsert

LEMMA BatchFailsKeeps ==
  ASSUME IngestInv, NEW r \in IngestRequests,
         request[r].stage = "read", request' = [request EXCEPT ![r].stage = "over"],
         UNCHANGED <<rows, images, jobs, gone, outbox, uploads, saved, resent, ingestFaults>>
  PROVE  IngestInv'
<1>1. request' \in [IngestRequests -> {NoBatch} \union Batch] /\ request'[r].stage = "over"
      /\ \A q \in IngestRequests : q # r => request'[q] = request[q]
  BY StageMoves DEF IngestInv
<1>2. BatchSound(r)'
  BY <1>1 DEF BatchSound
<1> QED
  BY <1>1, <1>2, BeforeInsert

\* The unique index: what is inserted was not there, so nobody has announced it.
LEMMA CommitBatchKeeps ==
  ASSUME IngestInv, NEW r \in IngestRequests, CommitBatch(r)
  PROVE  IngestInv'
<1> USE DEF IngestInv
<1>1. /\ request[r].stage = "read"
      /\ request' = [request EXCEPT ![r].stage = "stored"]
      /\ rows' = [e \in IngestEvents |-> rows[e] + (IF e \in Inserts(r) THEN 1 ELSE 0)]
      /\ UNCHANGED <<images, jobs, gone, outbox, uploads, saved, resent, ingestFaults>>
  BY DEF CommitBatch
<1>2. /\ request' \in [IngestRequests -> {NoBatch} \union Batch]
      /\ request'[r].stage = "stored" /\ request'[r].batch = request[r].batch
      /\ Inserts(r)' = Inserts(r)
      /\ \A q \in IngestRequests : q # r => request'[q] = request[q]
                                            /\ Inserts(q)' = Inserts(q)
  BY <1>1, StageMoves
<1>3. request[r].batch \in [Positions -> IngestEvents] /\ Inserts(r) \subseteq IngestEvents
  BY <1>1, IngestTypes DEF Batch, Batches, Inserts
<1>4. \A e \in Inserts(r) : rows[e] = 0 /\ jobs[e] = 0
  BY <1>3 DEF CommitBatch, Violates, EventSound
<1>5. \A e \in IngestEvents : rows'[e] = IF e \in Inserts(r) THEN 1 ELSE rows[e]
  BY <1>1, <1>4, IngestTypes
<1>6. IngestTypeOK'
  <2>1. rows' \in [IngestEvents -> Nat]
    BY <1>1, IngestTypes
  <2> QED
    BY <2>1, <1>1, <1>2 DEF IngestTypeOK, Batch
<1>7. ASSUME NEW q \in IngestRequests PROVE BatchSound(q)'
  <2>1. CASE q = r
    BY <2>1, <1>1, <1>2, <1>3, <1>4, <1>5 DEF BatchSound
  <2>2. CASE q # r
    <3>1. request[q].stage \in {"read", "stored"} =>
            /\ request[q] \in Batch
            /\ request[q].batch \in [Positions -> IngestEvents]
            /\ Inserts(q) \subseteq IngestEvents
      BY IngestTypes DEF Batch, Batches, Inserts
    <3> QED
      BY <2>2, <3>1, <1>1, <1>2, <1>5 DEF BatchSound
  <2> QED
    BY <2>1, <2>2
<1>8. OneInserts'
  <2>1. ASSUME NEW q \in IngestRequests, q # r, request[q].stage = "stored",
               NEW e \in Inserts(q)
        PROVE  e \notin Inserts(r)
    BY <2>1, <1>4 DEF BatchSound
  <2> QED
    BY <2>1, <1>2 DEF OneInserts
<1>9. ASSUME NEW e \in IngestEvents PROVE EventSound(e)' /\ Announced(e)'
  <2>1. EventSound(e) /\ Announced(e)
    OBVIOUS
  <2>2. EventSound(e)'
    BY <2>1, <1>1, <1>4, <1>5 DEF EventSound
  <2>3. CASE e \in WithSnapshot
    <3>1. e \in Inserts(r) => e \in outbox
      BY <2>1, <1>4 DEF EventSound, CommitBatch, Violates
    <3> QED
      BY <2>1, <2>2, <2>3, <3>1, <1>1, <1>5 DEF Announced, SnapshotSound
  <2>4. CASE e \notin WithSnapshot
    <3>1. PlainSound(e)
      BY <2>1, <2>4 DEF Announced
    <3>2. jobs'[e] <= 1
      BY <3>1, <1>1 DEF PlainSound
    <3>3. ASSUME rows'[e] = 1, jobs'[e] = 0, e \notin ingestFaults'
          PROVE  \E q \in IngestRequests : request'[q].stage = "stored" /\ e \in Inserts(q)'
      <4>1. CASE e \in Inserts(r)
        BY <4>1, <1>2
      <4>2. CASE e \notin Inserts(r)
        BY <4>2, <3>1, <3>3, <1>1, <1>2, <1>5 DEF PlainSound
      <4> QED
        BY <4>1, <4>2
    <3> QED
      BY <2>2, <2>4, <3>2, <3>3 DEF Announced, PlainSound
  <2> QED
    BY <2>2, <2>3, <2>4
<1> QED
  BY <1>6, <1>7, <1>8, <1>9

\* The request that inserted announces, or leaves a fault; what the client forgets
\* is stored or of no camera, and it goes on to the snapshots.
LEMMA StoredEnds ==
  ASSUME IngestInv, NEW r \in IngestRequests, request[r].stage = "stored",
         request' = [request EXCEPT ![r].stage = "over"],
         jobs' \in [IngestEvents -> Nat], ingestFaults' \subseteq IngestEvents,
         ingestFaults \subseteq ingestFaults',
         \A e \in IngestEvents :
           \/ jobs'[e] = jobs[e] /\ (e \in Notified(r) => e \in ingestFaults')
           \/ jobs'[e] = jobs[e] + 1 /\ e \in Notified(r),
         outbox' \subseteq outbox,
         \A e \in outbox \ outbox' : rows[e] = 1 \/ e \in gone,
         uploads' = uploads \union {e \in outbox \ outbox' : e \in WithSnapshot /\ rows[e] = 1},
         UNCHANGED <<rows, images, gone, saved, resent>>
  PROVE  IngestInv'
<1> USE DEF IngestInv
<1>1. /\ request' \in [IngestRequests -> {NoBatch} \union Batch]
      /\ request'[r].stage = "over" /\ Inserts(r)' = Inserts(r)
      /\ \A q \in IngestRequests : q # r => request'[q] = request[q]
                                            /\ Inserts(q)' = Inserts(q)
  BY StageMoves
<1>2. /\ rows \in [IngestEvents -> Nat] /\ jobs \in [IngestEvents -> Nat]
      /\ outbox \subseteq IngestEvents /\ uploads \subseteq IngestEvents
      /\ resent \in [IngestEvents -> Nat]
  BY IngestTypes
<1>3. IngestTypeOK'
  <2>1. uploads' \subseteq IngestEvents /\ outbox' \subseteq IngestEvents
    BY <1>2
  <2> QED
    BY <2>1, <1>1 DEF IngestTypeOK, Batch
<1>4. \A e \in Notified(r) : e \in Inserts(r) /\ e \notin WithSnapshot
  BY DEF Notified
<1>5. ASSUME NEW q \in IngestRequests PROVE BatchSound(q)'
  <2>1. CASE q = r
    BY <2>1, <1>1 DEF BatchSound
  <2>2. CASE q # r
    <3>1. BatchSound(q) /\ request'[q] = request[q] /\ Inserts(q)' = Inserts(q)
      BY <2>2, <1>1
    <3>2. ASSUME request[q].stage = "stored", NEW e \in Inserts(q)
          PROVE  e \in IngestEvents /\ jobs'[e] = jobs[e]
      <4>1. e \in IngestEvents
        BY <3>2, IngestTypes DEF Inserts, Batch, Batches
      <4>2. e \notin Inserts(r)
        BY <2>2, <3>2, <4>1 DEF OneInserts
      <4> QED
        BY <4>1, <4>2, <1>4
    <3> QED
      BY <3>1, <3>2 DEF BatchSound
  <2> QED
    BY <2>1, <2>2
<1>6. OneInserts'
  BY <1>1 DEF OneInserts
<1>7. ASSUME NEW e \in IngestEvents PROVE EventSound(e)' /\ Announced(e)'
  <2>1. EventSound(e) /\ Announced(e)
    OBVIOUS
  <2>2. e \in Inserts(r) => rows[e] = 1 /\ (e \notin WithSnapshot => jobs[e] = 0)
    BY DEF BatchSound
  <2>3. EventSound(e)'
    BY <2>1, <2>2, <1>2, <1>4 DEF EventSound
  <2>4. CASE e \in WithSnapshot
    <3>1. jobs'[e] = jobs[e] /\ SnapshotSound(e) /\ jobs[e] \in Nat /\ resent[e] \in Nat
      BY <2>1, <2>4, <1>2, <1>4 DEF Announced
    <3>2. SnapshotSound(e)'
      BY <2>1, <2>4, <3>1, <1>2 DEF SnapshotSound, EventSound
    <3> QED
      BY <2>3, <2>4, <3>2 DEF Announced
  <2>5. CASE e \notin WithSnapshot
    <3>1. PlainSound(e)
      BY <2>1, <2>5 DEF Announced
    <3>2. CASE e \in Inserts(r)
      <4>1. e \in Notified(r) /\ jobs[e] = 0
        BY <2>2, <2>5, <3>2 DEF Notified
      <4> QED
        BY <2>3, <2>5, <4>1 DEF Announced, PlainSound
    <3>3. CASE e \notin Inserts(r)
      <4>1. jobs'[e] = jobs[e]
        BY <3>3, <1>4
      <4>2. PlainSound(e)'
        BY <3>1, <3>3, <4>1, <1>1 DEF PlainSound
      <4> QED
        BY <2>3, <2>5, <4>2 DEF Announced
    <3> QED
      BY <3>2, <3>3
  <2> QED
    BY <2>4, <2>5
<1> QED
  BY <1>3, <1>5, <1>6, <1>7

LEMMA AnswerBatchKeeps ==
  ASSUME IngestInv, NEW r \in IngestRequests, NEW failed \in SUBSET IngestEvents,
         NEW arrives \in BOOLEAN, AnswerBatch(r, failed, arrives)
  PROVE  IngestInv'
<1> USE DEF IngestInv
<1> DEFINE known == {request[r].batch[i] : i \in Positions}
<1>1. /\ request[r].stage = "stored" /\ failed \subseteq Notified(r)
      /\ jobs' = [e \in IngestEvents |-> jobs[e] + (IF e \in Notified(r) \ failed THEN 1 ELSE 0)]
      /\ ingestFaults' = ingestFaults \union failed
      /\ request' = [request EXCEPT ![r].stage = "over"]
      /\ UNCHANGED <<rows, images, gone, saved, resent>>
  BY DEF AnswerBatch
<1>2. /\ rows \in [IngestEvents -> Nat] /\ jobs \in [IngestEvents -> Nat]
      /\ outbox \subseteq IngestEvents /\ ingestFaults \subseteq IngestEvents
  BY IngestTypes
<1>3. /\ jobs' \in [IngestEvents -> Nat] /\ ingestFaults' \subseteq IngestEvents
      /\ ingestFaults \subseteq ingestFaults'
  BY <1>1, <1>2
<1>4. \A e \in IngestEvents :
        \/ jobs'[e] = jobs[e] /\ (e \in Notified(r) => e \in ingestFaults')
        \/ jobs'[e] = jobs[e] + 1 /\ e \in Notified(r)
  BY <1>1, <1>2
<1>5. ASSUME NEW e \in known PROVE rows[e] = 1 \/ e \in gone
  BY <1>1 DEF BatchSound
<1>6. /\ outbox' \subseteq outbox
      /\ \A e \in outbox \ outbox' : rows[e] = 1 \/ e \in gone
      /\ uploads' = uploads \union {e \in outbox \ outbox' : e \in WithSnapshot /\ rows[e] = 1}
  <2>1. CASE arrives
    <3>1. /\ outbox' = outbox \ known
          /\ uploads' = uploads \union
               {e \in known \intersect outbox : e \in WithSnapshot /\ rows[e] > 0}
      BY <2>1 DEF AnswerBatch
    <3>2. ASSUME NEW e \in outbox PROVE rows[e] > 0 <=> rows[e] = 1
      <4>1. rows[e] = 0 \/ rows[e] = 1
        BY <1>2 DEF EventSound
      <4> QED
        BY <4>1
    <3>3. outbox \ outbox' = known \intersect outbox
      BY <3>1
    <3>4. {e \in known \intersect outbox : e \in WithSnapshot /\ rows[e] > 0}
            = {e \in outbox \ outbox' : e \in WithSnapshot /\ rows[e] = 1}
      BY <3>2, <3>3
    <3>5. \A e \in outbox \ outbox' : rows[e] = 1 \/ e \in gone
      BY <3>3, <1>5
    <3> QED
      BY <3>1, <3>4, <3>5
  <2>2. CASE ~arrives
    BY <2>2 DEF AnswerBatch
  <2> QED
    BY <2>1, <2>2
<1> QED
  BY <1>1, <1>3, <1>4, <1>6, StoredEnds

LEMMA BatchCrashesKeeps ==
  ASSUME IngestInv, NEW r \in IngestRequests, BatchCrashes(r)
  PROVE  IngestInv'
<1>1. /\ request[r].stage \in {"read", "stored"}
      /\ ingestFaults' = IF request[r].stage = "stored" THEN ingestFaults \union Notified(r)
                         ELSE ingestFaults
      /\ request' = [request EXCEPT ![r].stage = "over"]
      /\ UNCHANGED <<rows, images, jobs, gone, outbox, uploads, saved, resent>>
  BY DEF BatchCrashes, InProgress
<1>2. CASE request[r].stage = "read"
  BY <1>1, <1>2, BatchFailsKeeps
<1>3. CASE request[r].stage = "stored"
  <2>1. Notified(r) \subseteq IngestEvents
    BY <1>3, IngestTypes DEF IngestInv, Notified, Inserts, Batch, Batches
  <2>2. jobs' \in [IngestEvents -> Nat] /\ ingestFaults' \subseteq IngestEvents
    BY <1>1, <1>3, <2>1, IngestTypes DEF IngestInv
  <2>3. uploads' = uploads \union {e \in outbox \ outbox' : e \in WithSnapshot /\ rows[e] = 1}
    BY <1>1
  <2> QED
    BY <1>1, <1>3, <2>2, <2>3, StoredEnds
<1> QED
  BY <1>1, <1>2, <1>3

\* A step of one snapshot, in which no request takes part.
LEMMA SnapshotStep ==
  ASSUME IngestInv, NEW e \in IngestEvents,
         jobs' \in [IngestEvents -> Nat], resent' \in [IngestEvents -> 0..MaxPuts],
         images' \subseteq IngestEvents, saved' \subseteq IngestEvents,
         uploads' \subseteq uploads, ingestFaults' \subseteq IngestEvents,
         ingestFaults \subseteq ingestFaults',
         gone' \subseteq IngestEvents, gone \subseteq gone',
         \A f \in IngestEvents : f # e =>
           /\ jobs'[f] = jobs[f] /\ resent'[f] = resent[f]
           /\ f \in uploads' <=> f \in uploads
           /\ f \in saved' <=> f \in saved,
         jobs'[e] # jobs[e] => e \in WithSnapshot,
         EventSound(e)', Announced(e)',
         UNCHANGED <<rows, request, outbox>>
  PROVE  IngestInv'
<1> USE DEF IngestInv
<1>1. IngestTypeOK'
  <2>1. uploads' \subseteq IngestEvents
    BY IngestTypes
  <2> QED
    BY <2>1 DEF IngestTypeOK
<1>2. \A r \in IngestRequests : Inserts(r)' = Inserts(r)
  BY DEF Inserts
<1>3. ASSUME NEW r \in IngestRequests PROVE BatchSound(r)'
  <2>1. BatchSound(r)
    OBVIOUS
  <2>2. request[r].stage = "stored" => Inserts(r) \subseteq IngestEvents
    BY IngestTypes DEF Inserts, Batch, Batches
  <2> QED
    BY <2>1, <2>2, <1>2 DEF BatchSound
<1>4. OneInserts'
  BY <1>2 DEF OneInserts
<1>5. ASSUME NEW f \in IngestEvents, f # e PROVE EventSound(f)' /\ Announced(f)'
  <2>1. EventSound(f) /\ Announced(f)
    OBVIOUS
  <2>2. EventSound(f)'
    BY <2>1, <1>5 DEF EventSound
  <2>3. CASE f \in WithSnapshot
    <3>1. SnapshotSound(f)
      BY <2>1, <2>3 DEF Announced
    <3>2. SnapshotSound(f)'
      BY <3>1, <1>5 DEF SnapshotSound
    <3> QED
      BY <2>2, <2>3, <3>2 DEF Announced
  <2>4. CASE f \notin WithSnapshot
    <3>1. PlainSound(f)
      BY <2>1, <2>4 DEF Announced
    <3>2. PlainSound(f)'
      BY <3>1, <1>2, <1>5 DEF PlainSound
    <3> QED
      BY <2>2, <2>4, <3>2 DEF Announced
  <2> QED
    BY <2>3, <2>4
<1> QED
  BY <1>1, <1>3, <1>4, <1>5

LEMMA SnapshotTypes ==
  ASSUME IngestInv
  PROVE  /\ jobs \in [IngestEvents -> Nat] /\ resent \in [IngestEvents -> 0..MaxPuts]
         /\ images \subseteq IngestEvents /\ saved \subseteq IngestEvents
         /\ uploads \subseteq IngestEvents /\ ingestFaults \subseteq IngestEvents
         /\ gone \subseteq IngestEvents
BY DEF IngestInv, IngestTypeOK

LEMMA PutSnapshotKeeps ==
  ASSUME IngestInv, NEW e \in IngestEvents, PutSnapshot(e)
  PROVE  IngestInv'
<1>1. /\ e \in uploads \ saved
      /\ images' = images \union {e} /\ saved' = saved \union {e}
      /\ UNCHANGED <<rows, jobs, gone, request, outbox, uploads, resent, ingestFaults>>
  BY DEF PutSnapshot
<1>2. EventSound(e) /\ Announced(e) /\ e \in WithSnapshot
  BY <1>1 DEF IngestInv, EventSound
<1>3. EventSound(e)' /\ Announced(e)'
  BY <1>1, <1>2 DEF EventSound, Announced, SnapshotSound
<1>4. images' \subseteq IngestEvents /\ saved' \subseteq IngestEvents
  BY <1>1, SnapshotTypes
<1> QED
  BY <1>1, <1>3, <1>4, SnapshotTypes, SnapshotStep

LEMMA PutQueuesKeeps ==
  ASSUME IngestInv, NEW e \in IngestEvents, NEW fails \in BOOLEAN, NEW arrives \in BOOLEAN,
         PutQueues(e, fails, arrives)
  PROVE  IngestInv'
<1>1. /\ e \in saved /\ saved' = saved \ {e}
      /\ jobs' = IF fails THEN jobs ELSE [jobs EXCEPT ![e] = @ + 1]
      /\ ingestFaults' = IF fails THEN ingestFaults \union {e} ELSE ingestFaults
      /\ \/ uploads' = uploads \ {e} /\ UNCHANGED resent
         \/ /\ resent[e] < MaxPuts
            /\ resent' = [resent EXCEPT ![e] = @ + 1] /\ UNCHANGED uploads
      /\ UNCHANGED <<rows, images, gone, request, outbox>>
  BY DEF PutQueues
<1>2. /\ jobs \in [IngestEvents -> Nat] /\ resent \in [IngestEvents -> 0..MaxPuts]
      /\ images \subseteq IngestEvents /\ saved \subseteq IngestEvents
      /\ uploads \subseteq IngestEvents /\ ingestFaults \subseteq IngestEvents
      /\ gone \subseteq IngestEvents
  BY SnapshotTypes
<1>3. /\ EventSound(e) /\ SnapshotSound(e) /\ e \in WithSnapshot
      /\ e \in uploads /\ e \notin outbox /\ rows[e] = 1
  BY <1>1 DEF IngestInv, EventSound, Announced
<1>4. jobs' \in [IngestEvents -> Nat]
      /\ jobs'[e] = (IF fails THEN jobs[e] ELSE jobs[e] + 1)
      /\ \A f \in IngestEvents : f # e => jobs'[f] = jobs[f]
  <2>1. CASE fails
    BY <2>1, <1>1, <1>2
  <2>2. CASE ~fails
    BY <2>2, <1>1, <1>2
  <2> QED
    BY <2>1, <2>2
<1>5. ingestFaults' \subseteq IngestEvents /\ ingestFaults \subseteq ingestFaults'
      /\ (fails => e \in ingestFaults')
  BY <1>1, <1>2
<1>6. CASE uploads' = uploads \ {e} /\ UNCHANGED resent
  <2>1. EventSound(e)'
    BY <1>1, <1>3, <1>6 DEF EventSound
  <2>2. SnapshotSound(e)'
    BY <1>1, <1>2, <1>3, <1>4, <1>5, <1>6, EdgeIngestAssumption DEF SnapshotSound
  <2>3. Announced(e)'
    BY <2>2, <1>3 DEF Announced
  <2> QED
    BY <1>1, <1>2, <1>3, <1>4, <1>5, <1>6, <2>1, <2>3, SnapshotStep
<1>7. CASE /\ resent[e] < MaxPuts
           /\ resent' = [resent EXCEPT ![e] = @ + 1] /\ UNCHANGED uploads
  <2>1. EventSound(e)'
    BY <1>1, <1>3, <1>7 DEF EventSound
  <2>2. resent' \in [IngestEvents -> 0..MaxPuts] /\ resent'[e] = resent[e] + 1
        /\ \A f \in IngestEvents : f # e => resent'[f] = resent[f]
    BY <1>2, <1>7, EdgeIngestAssumption
  <2>3. SnapshotSound(e)'
    BY <1>1, <1>2, <1>3, <1>4, <1>5, <1>7, <2>2, EdgeIngestAssumption DEF SnapshotSound
  <2>4. Announced(e)'
    BY <2>3, <1>3 DEF Announced
  <2> QED
    BY <1>1, <1>2, <1>3, <1>4, <1>5, <1>7, <2>1, <2>2, <2>4, SnapshotStep
<1> QED
  BY <1>1, <1>6, <1>7

LEMMA PutCrashesKeeps ==
  ASSUME IngestInv, NEW e \in IngestEvents, PutCrashes(e)
  PROVE  IngestInv'
<1>1. /\ e \in saved /\ saved' = saved \ {e}
      /\ UNCHANGED <<rows, images, jobs, gone, request, outbox, uploads, resent, ingestFaults>>
  BY DEF PutCrashes
<1>2. EventSound(e) /\ Announced(e) /\ e \in WithSnapshot
  BY <1>1 DEF IngestInv, EventSound
<1>3. EventSound(e)' /\ Announced(e)'
  BY <1>1, <1>2 DEF EventSound, Announced, SnapshotSound
<1>4. saved' \subseteq IngestEvents
  BY <1>1, SnapshotTypes
<1> QED
  BY <1>1, <1>3, <1>4, SnapshotTypes, SnapshotStep

LEMMA CameraDeletedKeeps ==
  ASSUME IngestInv, NEW e \in IngestEvents, CameraDeleted(e)
  PROVE  IngestInv'
<1>1. /\ gone' = gone \union {e}
      /\ UNCHANGED <<rows, images, jobs, request, outbox, uploads, saved, resent, ingestFaults>>
  BY DEF CameraDeleted
<1>2. EventSound(e) /\ Announced(e)
  BY DEF IngestInv
<1>3. EventSound(e)'
  BY <1>1, <1>2 DEF EventSound
<1>4. \A r \in IngestRequests : Inserts(r)' = Inserts(r)
  BY <1>1 DEF Inserts
<1>5. Announced(e)'
  <2>1. CASE e \in WithSnapshot
    BY <2>1, <1>1, <1>2 DEF Announced, SnapshotSound
  <2>2. CASE e \notin WithSnapshot
    <3>1. PlainSound(e)
      BY <2>2, <1>2 DEF Announced
    <3>2. PlainSound(e)'
      BY <3>1, <1>1, <1>4 DEF PlainSound
    <3> QED
      BY <2>2, <3>2 DEF Announced
  <2> QED
    BY <2>1, <2>2
<1>6. gone' \subseteq IngestEvents
  BY <1>1, SnapshotTypes
<1> QED
  BY <1>1, <1>3, <1>5, <1>6, SnapshotTypes, SnapshotStep

LEMMA IngestStep == IngestInv /\ [IngestNext]_ingestVars => IngestInv'
<1> SUFFICES ASSUME IngestInv, [IngestNext]_ingestVars PROVE IngestInv'
  OBVIOUS
<1>1. ASSUME NEW r \in IngestRequests, SendBatch(r) \/ ReadBatch(r) \/ CommitBatch(r)
      PROVE  IngestInv'
  BY <1>1, SendBatchKeeps, ReadBatchKeeps, CommitBatchKeeps
<1>2. ASSUME NEW r \in IngestRequests, BatchFails(r) PROVE IngestInv'
  BY <1>2, BatchFailsKeeps DEF BatchFails
<1>3. ASSUME NEW r \in IngestRequests, BatchCrashes(r) PROVE IngestInv'
  BY <1>3, BatchCrashesKeeps
<1>4. ASSUME NEW r \in IngestRequests, NEW failed \in SUBSET IngestEvents,
             NEW arrives \in BOOLEAN, AnswerBatch(r, failed, arrives)
      PROVE  IngestInv'
  BY <1>4, AnswerBatchKeeps
<1>5. ASSUME NEW e \in IngestEvents, PutSnapshot(e) \/ PutCrashes(e) \/ CameraDeleted(e)
      PROVE  IngestInv'
  BY <1>5, PutSnapshotKeeps, PutCrashesKeeps, CameraDeletedKeeps
<1>6. ASSUME NEW e \in IngestEvents, NEW fails \in BOOLEAN, NEW arrives \in BOOLEAN,
             PutQueues(e, fails, arrives)
      PROVE  IngestInv'
  BY <1>6, PutQueuesKeeps
<1>7. CASE UNCHANGED ingestVars
  <2>1. IngestTypeOK'
    BY <1>7 DEF IngestInv, IngestTypeOK, ingestVars
  <2>2. \A r \in IngestRequests : Inserts(r)' = Inserts(r)
    BY <1>7 DEF Inserts, ingestVars
  <2>3. OneInserts' /\ \A r \in IngestRequests : BatchSound(r)'
    BY <1>7, <2>2 DEF IngestInv, OneInserts, BatchSound, ingestVars
  <2>4. ASSUME NEW e \in IngestEvents PROVE EventSound(e)' /\ Announced(e)'
    <3>1. EventSound(e) /\ Announced(e)
      BY DEF IngestInv
    <3>2. EventSound(e)'
      BY <3>1, <1>7 DEF EventSound, ingestVars
    <3>3. SnapshotSound(e) => SnapshotSound(e)'
      BY <1>7 DEF SnapshotSound, ingestVars
    <3>4. PlainSound(e) => PlainSound(e)'
      BY <1>7, <2>2 DEF PlainSound, ingestVars
    <3> QED
      BY <3>1, <3>2, <3>3, <3>4 DEF Announced
  <2> QED
    BY <2>1, <2>3, <2>4 DEF IngestInv
<1> QED
  BY <1>1, <1>2, <1>3, <1>4, <1>5, <1>6, <1>7 DEF IngestNext

(***************************************************************************)
(* The theorems                                                            *)
(***************************************************************************)
\* Every variable keeps its type, for any number of events and requests.
THEOREM IngestTypeAlwaysOK == IngestSpec => []IngestTypeOK
<1>1. IngestSpec => []IngestInv
  BY IngestInitHolds, IngestStep, PTL DEF IngestSpec
<1>2. IngestInv => IngestTypeOK
  BY DEF IngestInv
<1> QED
  BY <1>1, <1>2, PTL

\* However many copies of a batch run at once, and wherever the API dies: an event
\* is stored once at most, kept when the client forgets it, and announced unless a
\* fault came between (EdgeService.ingest_batch, _publish_batch_side_effects).
THEOREM EventsAlwaysKept == IngestSpec => []EventsKept
<1>1. IngestSpec => []IngestInv
  BY IngestInitHolds, IngestStep, PTL DEF IngestSpec
<1>2. IngestInv => EventsKept
  <2> SUFFICES ASSUME IngestInv PROVE EventsKept
    OBVIOUS
  <2>1. \A e \in IngestEvents : EventSound(e) /\ Announced(e) /\ jobs[e] \in Nat
                                /\ resent[e] \in Nat
    BY IngestTypes DEF IngestInv
  <2>2. StoredOnceAndKept
    <3>1. ASSUME NEW e \in IngestEvents
          PROVE  rows[e] <= 1 /\ (e \notin outbox => rows[e] = 1 \/ e \in gone)
      <4>1. rows[e] = 0 \/ rows[e] = 1
        BY <2>1 DEF EventSound
      <4> QED
        BY <2>1, <4>1 DEF EventSound
    <3> QED
      BY <3>1 DEF StoredOnceAndKept
  <2>3. SilentOnlyByFault
    <3> SUFFICES ASSUME NEW e \in IngestEvents
                 PROVE  /\ jobs[e] <= 1 + resent[e]
                        /\ e \notin outbox \union uploads /\ rows[e] = 1 /\ jobs[e] = 0 =>
                             \/ e \in ingestFaults
                             \/ \E r \in IngestRequests :
                                  request[r].stage = "stored" /\ e \in Inserts(r)
      BY DEF SilentOnlyByFault
    <3>1. CASE e \in WithSnapshot
      BY <2>1, <3>1 DEF Announced, SnapshotSound
    <3>2. CASE e \notin WithSnapshot
      BY <2>1, <3>2 DEF Announced, PlainSound
    <3> QED
      BY <3>1, <3>2
  <2> QED
    BY <2>2, <2>3 DEF EventsKept
<1> QED
  BY <1>1, <1>2, PTL

(***************************************************************************)
(* EventClips: the inductive invariant gives every row that is half done   *)
(* one worker that makes it, keeps the cleanup to rows that are settled    *)
(* and old, and counts the clips together with the workers that the quota  *)
(* has let in.                                                             *)
(***************************************************************************)
\* w has created the row of its event and will settle it.
Making == {"created", "staged", "stored"}
Makes(w) == worker[w].stage \in Making

WorkerStates ==
  [event : ClipEvents \union {Nothing},
   stage : {"idle", "received", "admitted", "absent", "created", "staged", "stored"},
   try : Nat]

\* The types, with functions where ClipsTypeOK is content with their values.
ClipsTypes ==
  /\ edge \in BOOLEAN /\ clipRow \in [ClipEvents -> ClipStatus \union {"none"}]
  /\ clipAge \in [ClipEvents -> 0..MaxAge]
  /\ object \subseteq ClipEvents /\ doomed \subseteq ClipEvents
  /\ clipFaults \subseteq ClipEvents
  /\ worker \in [Workers -> WorkerStates]
  /\ \A w \in Workers : worker[w].stage # "idle" => worker[w].event \in ClipEvents
  /\ job \in [ClipEvents -> {"queued", "running", "done", "dropped"}]
  /\ tries \in [ClipEvents -> Nat] /\ \A e \in ClipEvents : tries[e] <= MaxTries[e]

\* A row under way has the state its maker has brought it to.
MakersHold ==
  \A w \in Workers : Makes(w) =>
    /\ clipRow[EventOf(w)] = IF At(w, "created") THEN "pending" ELSE "staged"
    /\ At(w, "stored") => EventOf(w) \in object

\* One worker makes the clip of an event.
MakersAlone ==
  \A v, w \in Workers : Makes(v) /\ Makes(w) /\ EventOf(v) = EventOf(w) => v = w

\* What the cleanup has deleted was uploaded, and nobody keeps it.
DoomedOld == \A e \in doomed : clipRow[e] = "uploaded" /\ clipAge[e] > Retention[e]

Playable ==
  \A e \in ClipEvents : clipRow[e] = "uploaded" => e \in object \/ clipAge[e] > Retention[e]

\* Where nothing failed, a row half done has a maker, and an event whose job is done
\* has a row unless the cleanup took it.
Unlost ==
  \A e \in ClipEvents \ clipFaults :
    /\ clipRow[e] \in {"pending", "staged"} => \E w \in Workers : Makes(w) /\ EventOf(w) = e
    /\ clipRow[e] # "failed"
    /\ job[e] = "done" => clipRow[e] # "none" \/ clipAge[e] > Retention[e]

Uploaded == {e \in ClipEvents : clipRow[e] = "uploaded"}
\* The workers that the quota has let in.
Admitted == {w \in Workers : worker[w].stage \in Making \union {"admitted", "absent"}}

\* Every worker that was let in may add a clip to what the last of them saw.
RoomCounted ==
  /\ IsFiniteSet(Uploaded)
  /\ edge /\ Quota > 0 =>
       Cardinality(Uploaded) + Cardinality(Admitted) <= Quota - 1 + Cardinality(Workers)

ClipsInv ==
  /\ ClipsTypes /\ MakersHold /\ MakersAlone /\ DoomedOld /\ Playable /\ Unlost
  /\ RoomCounted

LEMMA MaxAgeNat == ASSUME NEW e \in ClipEvents PROVE MaxAge \in Nat
<1>1. PICK d \in ClipEvents : \A f \in ClipEvents : Retention[f] <= Retention[d]
  BY ClipsAssumption
<1>2. Retention[d] \in {Retention[f] : f \in ClipEvents}
      /\ \A f \in ClipEvents : Retention[f] <= Retention[d]
  BY <1>1
<1>3. LongestRetention \in {Retention[f] : f \in ClipEvents}
  BY <1>2 DEF LongestRetention
<1>4. \A f \in ClipEvents : Retention[f] \in Nat
  BY ClipsAssumption
<1>5. LongestRetention \in Nat
  BY <1>3, <1>4
<1> QED
  BY <1>5 DEF MaxAge

LEMMA ClipsStart == ClipsInit => ClipsInv
<1> SUFFICES ASSUME ClipsInit PROVE ClipsInv
  OBVIOUS
<1>1. /\ edge \in BOOLEAN
      /\ clipRow = [e \in ClipEvents |-> "none"] /\ clipAge = [e \in ClipEvents |-> 0]
      /\ object = {} /\ doomed = {} /\ clipFaults = {}
      /\ worker = [w \in Workers |-> IdleWorker]
      /\ job = [e \in ClipEvents |-> "queued"] /\ tries = [e \in ClipEvents |-> 0]
  BY DEF ClipsInit
<1>2. IdleWorker \in WorkerStates /\ IdleWorker.stage = "idle"
  BY DEF IdleWorker, WorkerStates
<1>3. \A w \in Workers : worker[w].stage = "idle"
  BY <1>1, <1>2
<1>4. \A e \in ClipEvents : clipRow[e] = "none" /\ job[e] = "queued"
  BY <1>1
<1>5. ClipsTypes
  <2>1. clipRow \in [ClipEvents -> ClipStatus \union {"none"}]
        /\ job \in [ClipEvents -> {"queued", "running", "done", "dropped"}]
    BY <1>1
  <2>2. clipAge \in [ClipEvents -> 0..MaxAge]
    <3>1. \A e \in ClipEvents : 0 \in 0..MaxAge
      BY MaxAgeNat
    <3> QED
      BY <1>1, <3>1
  <2>3. worker \in [Workers -> WorkerStates]
    BY <1>1, <1>2
  <2>4. tries \in [ClipEvents -> Nat] /\ \A e \in ClipEvents : tries[e] <= MaxTries[e]
    <3>1. \A e \in ClipEvents : MaxTries[e] \in Nat
      BY ClipsAssumption
    <3> QED
      BY <1>1, <3>1
  <2> QED
    BY <1>1, <1>3, <2>1, <2>2, <2>3, <2>4 DEF ClipsTypes
<1>6. \A w \in Workers : ~Makes(w)
  BY <1>3 DEF Makes, Making
<1>7. RoomCounted
  <2>1. Uploaded = {} /\ Admitted = {}
    BY <1>3, <1>4 DEF Uploaded, Admitted, Making
  <2>2. IsFiniteSet({}) /\ Cardinality({}) = 0
    BY FS_EmptySet
  <2>3. Cardinality(Workers) \in Nat /\ Quota \in Nat
    BY FS_CardinalityType, ClipsAssumption
  <2> QED
    BY <2>1, <2>2, <2>3 DEF RoomCounted
<1> QED
  BY <1>1, <1>4, <1>5, <1>6, <1>7
  DEF ClipsInv, MakersHold, MakersAlone, DoomedOld, Playable, Unlost

\* Fewer rows are uploaded and fewer workers are in: the quota still has room.
LEMMA RoomShrinks ==
  ASSUME RoomCounted, NEW U, NEW A, U \subseteq Uploaded, A \subseteq Admitted
  PROVE  /\ IsFiniteSet(U)
         /\ edge /\ Quota > 0 => Cardinality(U) + Cardinality(A) <= Quota - 1 + Cardinality(Workers)
<1>1. IsFiniteSet(Uploaded) /\ IsFiniteSet(Admitted)
  <2>1. Admitted \subseteq Workers /\ IsFiniteSet(Workers)
    BY ClipsAssumption DEF Admitted
  <2> QED
    BY <2>1, FS_Subset DEF RoomCounted
<1>2. IsFiniteSet(U) /\ Cardinality(U) <= Cardinality(Uploaded)
      /\ IsFiniteSet(A) /\ Cardinality(A) <= Cardinality(Admitted)
  BY <1>1, FS_Subset
<1>3. Cardinality(U) \in Nat /\ Cardinality(A) \in Nat /\ Cardinality(Uploaded) \in Nat
      /\ Cardinality(Admitted) \in Nat /\ Cardinality(Workers) \in Nat /\ Quota \in Nat
  BY <1>1, <1>2, FS_CardinalityType, ClipsAssumption
<1> QED
  BY <1>2, <1>3 DEF RoomCounted

\* A worker is let in when there is room.
LEMMA RoomAdmits ==
  ASSUME RoomCounted, HasRoom, NEW A, A \subseteq Workers
  PROVE  edge /\ Quota > 0 => Cardinality(Uploaded) + Cardinality(A) <= Quota - 1 + Cardinality(Workers)
<1>1. IsFiniteSet(Workers) /\ Quota \in Nat
  BY ClipsAssumption
<1>2. Cardinality(A) <= Cardinality(Workers) /\ IsFiniteSet(A)
  BY <1>1, FS_Subset
<1>3. Cardinality(A) \in Nat /\ Cardinality(Workers) \in Nat /\ Cardinality(Uploaded) \in Nat
  BY <1>1, <1>2, FS_CardinalityType DEF RoomCounted
<1>4. Quota > 0 => Cardinality(Uploaded) + 1 <= Quota
  BY <1>1 DEF HasRoom, Used, Uploaded
<1> QED
  BY <1>1, <1>2, <1>3, <1>4

\* A worker that was in leaves a clip.
LEMMA RoomSettles ==
  ASSUME RoomCounted, NEW e, NEW w \in Admitted, NEW U, U \subseteq Uploaded \union {e}
  PROVE  /\ IsFiniteSet(U)
         /\ edge /\ Quota > 0 =>
              Cardinality(U) + Cardinality(Admitted \ {w}) <= Quota - 1 + Cardinality(Workers)
<1>1. IsFiniteSet(Uploaded) /\ IsFiniteSet(Admitted)
  <2>1. Admitted \subseteq Workers /\ IsFiniteSet(Workers)
    BY ClipsAssumption DEF Admitted
  <2> QED
    BY <2>1, FS_Subset DEF RoomCounted
<1>2. /\ IsFiniteSet(Uploaded \union {e})
      /\ \/ Cardinality(Uploaded \union {e}) = Cardinality(Uploaded)
         \/ Cardinality(Uploaded \union {e}) = Cardinality(Uploaded) + 1
  BY <1>1, FS_AddElement
<1>3. IsFiniteSet(U) /\ Cardinality(U) <= Cardinality(Uploaded \union {e})
  BY <1>2, FS_Subset
<1>4. IsFiniteSet(Admitted \ {w}) /\ Cardinality(Admitted \ {w}) = Cardinality(Admitted) - 1
  BY <1>1, FS_RemoveElement
<1>5. Cardinality(U) \in Nat /\ Cardinality(Uploaded \union {e}) \in Nat
      /\ Cardinality(Uploaded) \in Nat /\ Cardinality(Admitted) \in Nat
      /\ Cardinality(Workers) \in Nat /\ Quota \in Nat
  BY <1>1, <1>2, <1>3, FS_CardinalityType, ClipsAssumption
<1> QED
  BY <1>2, <1>3, <1>4, <1>5 DEF RoomCounted

\* A step that leaves the rows and the makers alone.
LEMMA ClipQuietKeeps ==
  ASSUME ClipsInv, UNCHANGED <<edge, clipRow, clipAge, object, doomed>>,
         clipFaults \subseteq clipFaults', ClipsTypes', RoomCounted',
         \A w \in Workers : Makes(w) <=> Makes(w)',
         \A w \in Workers : Makes(w) => worker'[w] = worker[w],
         \A e \in ClipEvents : job'[e] = "done" => job[e] = "done" \/ clipRow[e] # "none"
  PROVE  ClipsInv'
<1>1. MakersHold'
  BY DEF ClipsInv, MakersHold, At, EventOf
<1>2. MakersAlone'
  BY DEF ClipsInv, MakersAlone, EventOf
<1>3. DoomedOld' /\ Playable'
  BY DEF ClipsInv, DoomedOld, Playable
<1>4. Unlost'
  <2> SUFFICES ASSUME NEW e \in ClipEvents \ clipFaults'
               PROVE  /\ clipRow'[e] \in {"pending", "staged"} =>
                           \E w \in Workers : Makes(w)' /\ EventOf(w)' = e
                      /\ clipRow'[e] # "failed"
                      /\ job'[e] = "done" => clipRow'[e] # "none" \/ clipAge'[e] > Retention[e]
    BY DEF Unlost
  <2>1. e \in ClipEvents \ clipFaults /\ clipRow' = clipRow /\ clipAge' = clipAge
    OBVIOUS
  <2>2. clipRow'[e] # "failed"
        /\ (job'[e] = "done" => clipRow'[e] # "none" \/ clipAge'[e] > Retention[e])
    BY <2>1 DEF ClipsInv, Unlost
  <2>3. ASSUME clipRow[e] \in {"pending", "staged"}
        PROVE  \E w \in Workers : Makes(w)' /\ EventOf(w)' = e
    <3>1. PICK w \in Workers : Makes(w) /\ EventOf(w) = e
      BY <2>1, <2>3 DEF ClipsInv, Unlost
    <3>2. Makes(w)' /\ EventOf(w)' = e
      BY <3>1 DEF EventOf
    <3> QED
      BY <3>2
  <2> QED
    BY <2>1, <2>2, <2>3
<1> QED
  BY <1>1, <1>2, <1>3, <1>4 DEF ClipsInv

\* Room, when no row changes and nobody new is let in.
LEMMA RoomStays ==
  ASSUME RoomCounted, UNCHANGED <<edge, clipRow>>, Admitted' \subseteq Admitted
  PROVE  RoomCounted'
<1>1. Uploaded' = Uploaded /\ Uploaded \subseteq Uploaded
  BY DEF Uploaded
<1>2. PICK A : A = Admitted'
  OBVIOUS
<1>3. A \subseteq Admitted
  BY <1>2
<1>4. /\ IsFiniteSet(Uploaded)
      /\ edge /\ Quota > 0 => Cardinality(Uploaded) + Cardinality(A) <= Quota - 1 + Cardinality(Workers)
  BY <1>1, <1>3, RoomShrinks
<1> QED
  BY <1>1, <1>2, <1>4 DEF RoomCounted

\* What a worker's record says of it after the worker goes on, and that it may.
LEMMA WorkerMoves ==
  ASSUME ClipsTypes, NEW w \in Workers, NEW p \in WorkerStates,
         p.stage # "idle" => p.event \in ClipEvents, worker' = [worker EXCEPT ![w] = p]
  PROVE  /\ worker' \in [Workers -> WorkerStates]
         /\ \A v \in Workers : worker'[v].stage # "idle" => worker'[v].event \in ClipEvents
         /\ worker'[w] = p /\ \A v \in Workers : v # w => worker'[v] = worker[v]
<1>1. worker \in [Workers -> WorkerStates]
  BY DEF ClipsTypes
<1>2. worker' \in [Workers -> WorkerStates]
      /\ worker'[w] = p /\ \A v \in Workers : v # w => worker'[v] = worker[v]
  BY <1>1
<1> QED
  BY <1>2 DEF ClipsTypes

LEMMA WorkerTypes ==
  ASSUME ClipsTypes, NEW w \in Workers
  PROVE  worker[w] \in WorkerStates
         /\ worker[w] = [event |-> worker[w].event, stage |-> worker[w].stage, try |-> worker[w].try]
<1>1. worker[w] \in WorkerStates
  BY DEF ClipsTypes
<1> QED
  BY <1>1 DEF WorkerStates

\* WorkerGoes and WorkerEnds in the form of WorkerMoves.
LEMMA WorkerGoesOn ==
  ASSUME ClipsTypes, NEW w \in Workers, ~At(w, "idle"),
         NEW stage \in {"admitted", "absent", "created", "staged", "stored"},
         WorkerGoes(w, stage)
  PROVE  \E p \in WorkerStates : /\ worker' = [worker EXCEPT ![w] = p]
                                 /\ p.event = EventOf(w) /\ p.stage = stage
                                 /\ p.event \in ClipEvents
<1>1. worker[w] \in WorkerStates /\ worker[w].event \in ClipEvents
  BY WorkerTypes DEF ClipsTypes, At
<1>2. PICK p : p = [worker[w] EXCEPT !.stage = stage]
  OBVIOUS
<1>3. p \in WorkerStates /\ p.event = worker[w].event /\ p.stage = stage
  BY <1>1, <1>2 DEF WorkerStates
<1>4. worker' = [worker EXCEPT ![w] = p]
  BY <1>2 DEF WorkerGoes
<1> QED
  BY <1>1, <1>3, <1>4 DEF EventOf

LEMMA IdleTypes == IdleWorker \in WorkerStates /\ IdleWorker.stage = "idle"
<1> QED
  BY DEF IdleWorker, WorkerStates

\* The job of an event, whoever it hears from.
LEMMA RepliesTypes ==
  ASSUME ClipsTypes, NEW w \in Workers, EventOf(w) \in ClipEvents,
         NEW reply \in {"queued", "running", "done", "dropped"}, Replies(w, reply)
  PROVE  /\ job' \in [ClipEvents -> {"queued", "running", "done", "dropped"}]
         /\ \A e \in ClipEvents : job'[e] = "done" =>
              job[e] = "done" \/ (reply = "done" /\ e = EventOf(w))
<1>1. job \in [ClipEvents -> {"queued", "running", "done", "dropped"}]
  BY DEF ClipsTypes
<1> HIDE DEF EventOf
<1>2. CASE Waits(w)
  <2>1. job' = [job EXCEPT ![EventOf(w)] = reply]
    BY <1>2 DEF Replies
  <2> QED
    BY <1>1, <2>1
<1>3. CASE ~Waits(w)
  BY <1>1, <1>3 DEF Replies
<1> QED
  BY <1>2, <1>3

LEMMA AgainTypes == ASSUME NEW e PROVE Again(e) \in {"queued", "dropped"}
<1> QED
  BY DEF Again

LEMMA ClipStartsKeeps ==
  ASSUME ClipsInv, NEW e \in ClipEvents, NEW w \in Workers, Starts(e, w)
  PROVE  ClipsInv'
<1>1. PICK p : p = [event |-> e, stage |-> IF edge THEN "received" ELSE "admitted",
                    try |-> tries[e] + 1]
  OBVIOUS
<1>2. /\ tries[e] < MaxTries[e] /\ At(w, "idle")
      /\ job' = [job EXCEPT ![e] = "running"]
      /\ tries' = [tries EXCEPT ![e] = tries[e] + 1]
      /\ worker' = [worker EXCEPT ![w] = p]
      /\ UNCHANGED <<edge, clipRow, clipAge, object, doomed, clipFaults>>
  BY <1>1 DEF Starts
<1>3. tries[e] \in Nat /\ tries[e] + 1 \in Nat /\ MaxTries[e] \in Nat /\ tries[e] + 1 <= MaxTries[e]
  <2>1. tries[e] \in Nat
    BY DEF ClipsInv, ClipsTypes
  <2>2. MaxTries[e] \in Nat
    BY ClipsAssumption
  <2> QED
    BY <1>2, <2>1, <2>2
<1>4. p \in WorkerStates /\ p.event \in ClipEvents
      /\ p.stage = (IF edge THEN "received" ELSE "admitted")
  BY <1>1, <1>3 DEF WorkerStates
<1>5. ClipsTypes
  BY DEF ClipsInv
<1>6. /\ worker' \in [Workers -> WorkerStates]
      /\ \A v \in Workers : worker'[v].stage # "idle" => worker'[v].event \in ClipEvents
      /\ worker'[w] = p /\ \A v \in Workers : v # w => worker'[v] = worker[v]
  BY <1>2, <1>4, <1>5, WorkerMoves
<1>7. ClipsTypes'
  <2>1. tries' \in [ClipEvents -> Nat] /\ \A f \in ClipEvents : tries'[f] <= MaxTries[f]
    BY <1>2, <1>3, <1>5 DEF ClipsTypes
  <2>2. job' \in [ClipEvents -> {"queued", "running", "done", "dropped"}]
    BY <1>2, <1>5 DEF ClipsTypes
  <2> QED
    BY <1>2, <1>5, <1>6, <2>1, <2>2 DEF ClipsTypes
<1>8. ~Makes(w) /\ ~Makes(w)'
  BY <1>2, <1>4, <1>6 DEF Makes, Making, At
<1>9. \A v \in Workers : /\ Makes(v) <=> Makes(v)'
                         /\ Makes(v) => worker'[v] = worker[v]
  BY <1>6, <1>8 DEF Makes
<1>10. RoomCounted'
  <2>1. RoomCounted
    BY DEF ClipsInv
  <2>2. CASE edge
    <3>1. worker'[w].stage = "received"
      BY <1>4, <1>6, <2>2
    <3>2. Admitted' \subseteq Admitted
      BY <1>6, <3>1 DEF Admitted, Making
    <3> QED
      BY <1>2, <2>1, <3>2, RoomStays
  <2>3. CASE ~edge
    BY <1>2, <2>1, <2>3 DEF RoomCounted, Uploaded
  <2> QED
    BY <2>2, <2>3
<1>11. \A f \in ClipEvents : job'[f] = "done" => job[f] = "done"
  BY <1>2, <1>5 DEF ClipsTypes
<1> QED
  BY <1>2, <1>7, <1>9, <1>10, <1>11, ClipQuietKeeps

\* A worker that makes nothing goes on or ends, and its job may hear of it.
LEMMA VisitorKeeps ==
  ASSUME ClipsInv, NEW w \in Workers, ~Makes(w), NEW p \in WorkerStates,
         p.stage \in {"idle", "admitted", "absent"},
         p.stage # "idle" => p.event \in ClipEvents,
         p.stage = "idle" \/ HasRoom \/ w \in Admitted,
         worker' = [worker EXCEPT ![w] = p],
         UNCHANGED <<edge, clipRow, clipAge, object, tries, doomed>>,
         clipFaults \subseteq clipFaults', clipFaults' \subseteq ClipEvents,
         job' \in [ClipEvents -> {"queued", "running", "done", "dropped"}],
         \A e \in ClipEvents : job'[e] = "done" => job[e] = "done" \/ clipRow[e] # "none"
  PROVE  ClipsInv'
<1>1. ClipsTypes
  BY DEF ClipsInv
<1>2. /\ worker' \in [Workers -> WorkerStates]
      /\ \A v \in Workers : worker'[v].stage # "idle" => worker'[v].event \in ClipEvents
      /\ worker'[w] = p /\ \A v \in Workers : v # w => worker'[v] = worker[v]
  BY <1>1, WorkerMoves
<1>3. ClipsTypes'
  BY <1>1, <1>2 DEF ClipsTypes
<1>4. \A v \in Workers : /\ Makes(v) <=> Makes(v)'
                         /\ Makes(v) => worker'[v] = worker[v]
  BY <1>2 DEF Makes, Making
<1>5. RoomCounted'
  <2>1. RoomCounted
    BY DEF ClipsInv
  <2>2. CASE p.stage = "idle" \/ w \in Admitted
    <3>1. Admitted' \subseteq Admitted
      BY <1>2, <2>2 DEF Admitted, Making
    <3> QED
      BY <2>1, <3>1, RoomStays
  <2>3. CASE HasRoom
    <3>1. Uploaded' = Uploaded
      BY DEF Uploaded
    <3>2. PICK A : A = Admitted'
      OBVIOUS
    <3>3. A \subseteq Workers
      BY <3>2 DEF Admitted
    <3>4. edge /\ Quota > 0 => Cardinality(Uploaded) + Cardinality(A) <= Quota - 1 + Cardinality(Workers)
      BY <2>1, <2>3, <3>3, RoomAdmits
    <3> QED
      BY <2>1, <3>1, <3>2, <3>4 DEF RoomCounted
  <2> QED
    BY <2>2, <2>3
<1> QED
  BY <1>3, <1>4, <1>5, ClipQuietKeeps

LEMMA AdmitsKeeps ==
  ASSUME ClipsInv, NEW w \in Workers, Admits(w)
  PROVE  ClipsInv'
<1>1. /\ worker[w].stage = "received"
      /\ UNCHANGED <<edge, clipRow, clipAge, object, tries, doomed, clipFaults>>
  BY DEF Admits, At
<1>2. ClipsTypes /\ ~Makes(w) /\ ~At(w, "idle") /\ EventOf(w) \in ClipEvents
  BY <1>1 DEF ClipsInv, ClipsTypes, Makes, Making, At, EventOf
<1>3. clipFaults' \subseteq ClipEvents
  BY <1>1, <1>2 DEF ClipsTypes
<1>4. CASE HasRoom /\ WorkerGoes(w, "admitted") /\ UNCHANGED job
  <2>1. PICK p \in WorkerStates : /\ worker' = [worker EXCEPT ![w] = p]
                                  /\ p.stage = "admitted" /\ p.event \in ClipEvents
    BY <1>2, <1>4, WorkerGoesOn
  <2>2. job' \in [ClipEvents -> {"queued", "running", "done", "dropped"}]
    BY <1>2, <1>4 DEF ClipsTypes
  <2> QED
    BY <1>1, <1>2, <1>3, <1>4, <2>1, <2>2, VisitorKeeps
<1>5. CASE WorkerEnds(w) /\ Replies(w, "dropped")
  <2>1. worker' = [worker EXCEPT ![w] = IdleWorker]
    BY <1>5 DEF WorkerEnds
  <2>2. /\ job' \in [ClipEvents -> {"queued", "running", "done", "dropped"}]
        /\ \A e \in ClipEvents : job'[e] = "done" => job[e] = "done"
    BY <1>2, <1>5, RepliesTypes
  <2> QED
    BY <1>1, <1>2, <1>3, <2>1, <2>2, IdleTypes, VisitorKeeps
<1> QED
  BY <1>4, <1>5 DEF Admits

LEMMA FindsExistingKeeps ==
  ASSUME ClipsInv, NEW w \in Workers, FindsExisting(w)
  PROVE  ClipsInv'
<1>1. /\ worker[w].stage = "admitted" /\ clipRow[EventOf(w)] # "none"
      /\ worker' = [worker EXCEPT ![w] = IdleWorker]
      /\ UNCHANGED <<edge, clipRow, clipAge, object, tries, doomed, clipFaults>>
  BY DEF FindsExisting, At, WorkerEnds
<1>2. ClipsTypes /\ ~Makes(w) /\ EventOf(w) \in ClipEvents
  BY <1>1 DEF ClipsInv, ClipsTypes, Makes, Making, EventOf
<1>3. /\ job' \in [ClipEvents -> {"queued", "running", "done", "dropped"}]
      /\ \A e \in ClipEvents : job'[e] = "done" => job[e] = "done" \/ e = EventOf(w)
  BY <1>2, RepliesTypes DEF FindsExisting
<1>4. clipFaults' \subseteq ClipEvents
  BY <1>1, <1>2 DEF ClipsTypes
<1> QED
  BY <1>1, <1>2, <1>3, <1>4, IdleTypes, VisitorKeeps

LEMMA FindsNoneKeeps ==
  ASSUME ClipsInv, NEW w \in Workers, FindsNone(w)
  PROVE  ClipsInv'
<1>1. /\ worker[w].stage = "admitted" /\ WorkerGoes(w, "absent")
      /\ UNCHANGED <<edge, clipRow, clipAge, object, job, tries, doomed, clipFaults>>
  BY DEF FindsNone, At
<1>2. ClipsTypes /\ ~Makes(w) /\ ~At(w, "idle") /\ w \in Admitted
  BY <1>1 DEF ClipsInv, Makes, Making, At, Admitted
<1>3. PICK p \in WorkerStates : /\ worker' = [worker EXCEPT ![w] = p]
                                /\ p.stage = "absent" /\ p.event \in ClipEvents
  BY <1>1, <1>2, WorkerGoesOn
<1>4. job' \in [ClipEvents -> {"queued", "running", "done", "dropped"}]
      /\ clipFaults' \subseteq ClipEvents
  BY <1>1, <1>2 DEF ClipsTypes
<1> QED
  BY <1>1, <1>2, <1>3, <1>4, VisitorKeeps

LEMMA CreateConflictsKeeps ==
  ASSUME ClipsInv, NEW w \in Workers, CreateConflicts(w)
  PROVE  ClipsInv'
<1>1. /\ worker[w].stage = "absent"
      /\ worker' = [worker EXCEPT ![w] = IdleWorker]
      /\ UNCHANGED <<edge, clipRow, clipAge, object, tries, doomed, clipFaults>>
  BY DEF CreateConflicts, At, WorkerEnds
<1>2. ClipsTypes /\ ~Makes(w) /\ EventOf(w) \in ClipEvents
  BY <1>1 DEF ClipsInv, ClipsTypes, Makes, Making, EventOf
<1>3. PICK reply \in {"queued", "dropped"} : Replies(w, reply)
  BY AgainTypes DEF CreateConflicts
<1>4. /\ job' \in [ClipEvents -> {"queued", "running", "done", "dropped"}]
      /\ \A e \in ClipEvents : job'[e] = "done" => job[e] = "done"
  BY <1>2, <1>3, RepliesTypes
<1>5. clipFaults' \subseteq ClipEvents
  BY <1>1, <1>2 DEF ClipsTypes
<1> QED
  BY <1>1, <1>2, <1>4, <1>5, IdleTypes, VisitorKeeps

\* A job that is given up, or that is queued again when its request times out.
LEMMA ClipJobKeeps ==
  ASSUME ClipsInv, NEW e \in ClipEvents, NEW next \in {"queued", "dropped"},
         job' = [job EXCEPT ![e] = next],
         UNCHANGED <<edge, clipRow, clipAge, object, worker, tries, doomed, clipFaults>>
  PROVE  ClipsInv'
<1>1. ClipsTypes /\ RoomCounted
  BY DEF ClipsInv
<1>2. /\ job' \in [ClipEvents -> {"queued", "running", "done", "dropped"}]
      /\ \A f \in ClipEvents : job'[f] = "done" => job[f] = "done"
  BY <1>1 DEF ClipsTypes
<1>3. ClipsTypes'
  BY <1>1, <1>2 DEF ClipsTypes
<1>4. RoomCounted'
  BY <1>1, RoomStays DEF Admitted
<1>5. \A w \in Workers : Makes(w) <=> Makes(w)'
  BY DEF Makes
<1> QED
  BY <1>2, <1>3, <1>4, <1>5, ClipQuietKeeps

\* The maker of e's clip, or the worker that becomes it, brings the row to r.
LEMMA MakerKeeps ==
  ASSUME ClipsInv, NEW w \in Workers, NEW e \in ClipEvents, EventOf(w) = e,
         Makes(w) \/ (worker[w].stage = "absent" /\ clipRow[e] = "none"),
         NEW p \in WorkerStates, worker' = [worker EXCEPT ![w] = p],
         NEW r \in {"pending", "staged", "uploaded", "failed"},
         clipRow' = [clipRow EXCEPT ![e] = r],
         NEW a \in 0..MaxAge, clipAge' = [clipAge EXCEPT ![e] = a],
         object \subseteq object', object' \subseteq object \union {e},
         clipFaults \subseteq clipFaults', clipFaults' \subseteq ClipEvents,
         UNCHANGED <<edge, tries, doomed>>,
         job' \in [ClipEvents -> {"queued", "running", "done", "dropped"}],
         \A f \in ClipEvents : job'[f] = "done" => job[f] = "done" \/ f = e,
         \/ /\ p.stage \in Making /\ p.event = e
            /\ r = IF p.stage = "created" THEN "pending" ELSE "staged"
            /\ p.stage = "stored" => e \in object'
         \/ /\ p = IdleWorker
            /\ \/ r = "uploaded" /\ e \in object'
               \/ r # "uploaded" /\ e \in clipFaults'
  PROVE  ClipsInv'
<1>1. ClipsTypes
  BY DEF ClipsInv
<1>2. p.stage # "idle" => p.event \in ClipEvents
  BY IdleTypes
<1>3. /\ worker' \in [Workers -> WorkerStates]
      /\ \A v \in Workers : worker'[v].stage # "idle" => worker'[v].event \in ClipEvents
      /\ worker'[w] = p /\ \A v \in Workers : v # w => worker'[v] = worker[v]
  BY <1>1, <1>2, WorkerMoves
<1>4. /\ clipRow'[e] = r /\ clipAge'[e] = a
      /\ \A f \in ClipEvents : f # e => clipRow'[f] = clipRow[f] /\ clipAge'[f] = clipAge[f]
  BY <1>1 DEF ClipsTypes
<1>5. ClipsTypes'
  <2>1. clipRow' \in [ClipEvents -> ClipStatus \union {"none"}]
    BY <1>1 DEF ClipsTypes, ClipStatus
  <2>2. clipAge' \in [ClipEvents -> 0..MaxAge]
    BY <1>1 DEF ClipsTypes
  <2>3. tries' \in [ClipEvents -> Nat] /\ \A f \in ClipEvents : tries'[f] <= MaxTries[f]
    BY <1>1 DEF ClipsTypes
  <2>4. edge' \in BOOLEAN /\ object' \subseteq ClipEvents /\ doomed' \subseteq ClipEvents
    BY <1>1 DEF ClipsTypes
  <2> QED
    BY <1>3, <2>1, <2>2, <2>3, <2>4 DEF ClipsTypes
<1>6. \A v \in Workers : v # w => /\ Makes(v) <=> Makes(v)'
                                  /\ EventOf(v)' = EventOf(v)
                                  /\ At(v, "created") <=> At(v, "created")'
                                  /\ At(v, "stored") <=> At(v, "stored")'
  BY <1>3 DEF Makes, EventOf, At
<1>7. /\ Makes(w)' <=> p.stage \in Making
      /\ EventOf(w)' = p.event
      /\ At(w, "created")' <=> p.stage = "created"
      /\ At(w, "stored")' <=> p.stage = "stored"
  BY <1>3 DEF Makes, EventOf, At
<1>8. ASSUME NEW v \in Workers, v # w, Makes(v) PROVE EventOf(v) # e
  <2>1. CASE Makes(w)
    BY <1>8, <2>1 DEF ClipsInv, MakersAlone
  <2>2. CASE clipRow[e] = "none"
    BY <1>8, <2>2 DEF ClipsInv, MakersHold
  <2> QED
    BY <2>1, <2>2
<1>9. \A v \in Workers : Makes(v) => EventOf(v) \in ClipEvents
  BY <1>1 DEF ClipsTypes, Makes, Making, EventOf
<1>10. clipRow[e] # "uploaded"
  BY DEF ClipsInv, MakersHold
<1>11. e \notin doomed
  BY <1>10 DEF ClipsInv, DoomedOld
<1>12. IdleWorker.stage \notin Making
  BY IdleTypes DEF Making
<1>13. MakersHold'
  <2> SUFFICES ASSUME NEW v \in Workers, Makes(v)'
               PROVE  /\ clipRow'[EventOf(v)'] =
                           IF At(v, "created")' THEN "pending" ELSE "staged"
                      /\ At(v, "stored")' => EventOf(v)' \in object'
    BY DEF MakersHold
  <2>1. CASE v = w
    BY <1>4, <1>7, <1>12, <2>1
  <2>2. CASE v # w
    <3>1. Makes(v) /\ EventOf(v) # e /\ EventOf(v) \in ClipEvents
      BY <1>6, <1>8, <1>9, <2>2
    <3>2. /\ clipRow[EventOf(v)] = IF At(v, "created") THEN "pending" ELSE "staged"
          /\ At(v, "stored") => EventOf(v) \in object
      BY <3>1 DEF ClipsInv, MakersHold
    <3>3. clipRow'[EventOf(v)] = clipRow[EventOf(v)]
      BY <1>4, <3>1
    <3> QED
      BY <1>6, <2>2, <3>2, <3>3
  <2> QED
    BY <2>1, <2>2
<1>14. MakersAlone'
  <2> SUFFICES ASSUME NEW u \in Workers, NEW v \in Workers, Makes(u)', Makes(v)',
                      EventOf(u)' = EventOf(v)'
               PROVE  u = v
    BY DEF MakersAlone
  <2>1. \A x \in Workers : x # w /\ Makes(x)' => Makes(x) /\ EventOf(x)' = EventOf(x)
                                                /\ EventOf(x) # e
    BY <1>6, <1>8
  <2>2. Makes(w)' => EventOf(w)' = e
    BY <1>7, <1>12
  <2> QED
    BY <2>1, <2>2 DEF ClipsInv, MakersAlone
<1>15. DoomedOld'
  BY <1>1, <1>4, <1>11 DEF ClipsInv, DoomedOld, ClipsTypes
<1>16. Playable'
  BY <1>4, <1>12 DEF ClipsInv, Playable
<1>17. Unlost'
  <2> SUFFICES ASSUME NEW f \in ClipEvents \ clipFaults'
               PROVE  /\ clipRow'[f] \in {"pending", "staged"} =>
                           \E v \in Workers : Makes(v)' /\ EventOf(v)' = f
                      /\ clipRow'[f] # "failed"
                      /\ job'[f] = "done" => clipRow'[f] # "none" \/ clipAge'[f] > Retention[f]
    BY DEF Unlost
  <2>1. CASE f = e
    BY <1>4, <1>7, <2>1
  <2>2. CASE f # e
    <3>1. f \in ClipEvents \ clipFaults /\ clipRow'[f] = clipRow[f] /\ clipAge'[f] = clipAge[f]
          /\ (job'[f] = "done" => job[f] = "done")
      BY <1>4, <2>2
    <3>2. clipRow'[f] # "failed"
          /\ (job'[f] = "done" => clipRow'[f] # "none" \/ clipAge'[f] > Retention[f])
      BY <3>1 DEF ClipsInv, Unlost
    <3>3. ASSUME clipRow'[f] \in {"pending", "staged"}
          PROVE  \E v \in Workers : Makes(v)' /\ EventOf(v)' = f
      <4>1. PICK v \in Workers : Makes(v) /\ EventOf(v) = f
        BY <3>1, <3>3 DEF ClipsInv, Unlost
      <4>2. Makes(v)' /\ EventOf(v)' = f
        BY <1>6, <2>2, <4>1
      <4> QED
        BY <4>2
    <3> QED
      BY <3>2, <3>3
  <2> QED
    BY <2>1, <2>2
<1>18. RoomCounted'
  <2>1. RoomCounted
    BY DEF ClipsInv
  <2>2. PICK U, A : U = Uploaded' /\ A = Admitted'
    OBVIOUS
  <2>3. w \in Admitted
    BY DEF Makes, Admitted
  <2>4. CASE p.stage \in Making
    <3>1. r # "uploaded"
      BY <1>12, <2>4
    <3>2. U \subseteq Uploaded
      BY <1>4, <2>2, <3>1 DEF Uploaded
    <3>3. A \subseteq Admitted
      BY <1>3, <2>2, <2>3 DEF Admitted
    <3> QED
      BY <2>1, <2>2, <3>2, <3>3, RoomShrinks DEF RoomCounted
  <2>5. CASE p = IdleWorker
    <3>1. A = Admitted \ {w}
      BY <1>3, <2>2, <2>5, IdleTypes DEF Admitted, Making
    <3>2. U \subseteq Uploaded \union {e}
      BY <1>4, <2>2 DEF Uploaded
    <3> QED
      BY <2>1, <2>2, <2>3, <3>1, <3>2, RoomSettles DEF RoomCounted
  <2> QED
    BY <2>4, <2>5
<1> QED
  BY <1>5, <1>13, <1>14, <1>15, <1>16, <1>17, <1>18 DEF ClipsInv

\* What is known of a worker that is about to change the row of its event.
LEMMA MakerTypes ==
  ASSUME ClipsInv, NEW w \in Workers, worker[w].stage \in Making \union {"absent"}
  PROVE  /\ ClipsTypes /\ EventOf(w) \in ClipEvents /\ ~At(w, "idle")
         /\ clipFaults \subseteq ClipEvents
         /\ job \in [ClipEvents -> {"queued", "running", "done", "dropped"}]
         /\ clipAge[EventOf(w)] \in 0..MaxAge
         /\ clipAge = [clipAge EXCEPT ![EventOf(w)] = clipAge[EventOf(w)]]
         /\ clipRow = [clipRow EXCEPT ![EventOf(w)] = clipRow[EventOf(w)]]
<1>1. ClipsTypes /\ worker[w].stage # "idle"
  BY DEF ClipsInv, Making
<1>2. EventOf(w) \in ClipEvents
  BY <1>1 DEF ClipsTypes, EventOf
<1> HIDE DEF EventOf
<1>3. clipAge[EventOf(w)] \in 0..MaxAge
      /\ clipAge = [clipAge EXCEPT ![EventOf(w)] = clipAge[EventOf(w)]]
  BY <1>1, <1>2 DEF ClipsTypes
<1>4. clipRow = [clipRow EXCEPT ![EventOf(w)] = clipRow[EventOf(w)]]
  BY <1>1, <1>2 DEF ClipsTypes
<1> QED
  BY <1>1, <1>2, <1>3, <1>4 DEF ClipsTypes, At

LEMMA CreatesRowKeeps ==
  ASSUME ClipsInv, NEW w \in Workers, CreatesRow(w)
  PROVE  ClipsInv'
<1>1. /\ worker[w].stage = "absent" /\ clipRow[EventOf(w)] = "none"
      /\ clipRow' = [clipRow EXCEPT ![EventOf(w)] = "pending"]
      /\ clipAge' = [clipAge EXCEPT ![EventOf(w)] = 0]
      /\ WorkerGoes(w, "created")
      /\ UNCHANGED <<edge, object, job, tries, doomed, clipFaults>>
  BY DEF CreatesRow, At
<1>2. ClipsTypes /\ EventOf(w) \in ClipEvents /\ ~At(w, "idle") /\ clipFaults \subseteq ClipEvents
      /\ job \in [ClipEvents -> {"queued", "running", "done", "dropped"}]
  BY <1>1, MakerTypes
<1>3. PICK p \in WorkerStates : /\ worker' = [worker EXCEPT ![w] = p]
                                /\ p.stage = "created" /\ p.event = EventOf(w)
  BY <1>1, <1>2, WorkerGoesOn
<1>4. 0 \in 0..MaxAge
  BY <1>2, MaxAgeNat
<1>5. p.stage \in Making
  BY <1>3 DEF Making
<1> QED
  BY <1>1, <1>2, <1>3, <1>4, <1>5, MakerKeeps

LEMMA StagesRowKeeps ==
  ASSUME ClipsInv, NEW w \in Workers, StagesRow(w)
  PROVE  ClipsInv'
<1>1. worker[w].stage = "created" /\ UNCHANGED <<edge, clipAge, object, tries, doomed>>
  BY DEF StagesRow, At
<1>2. Makes(w)
  BY <1>1 DEF Makes, Making
<1>3. /\ ClipsTypes /\ EventOf(w) \in ClipEvents /\ ~At(w, "idle") /\ clipFaults \subseteq ClipEvents
      /\ job \in [ClipEvents -> {"queued", "running", "done", "dropped"}]
      /\ clipAge[EventOf(w)] \in 0..MaxAge
      /\ clipAge = [clipAge EXCEPT ![EventOf(w)] = clipAge[EventOf(w)]]
  BY <1>1, MakerTypes DEF Making
<1>4. CASE /\ clipRow' = [clipRow EXCEPT ![EventOf(w)] = "staged"]
           /\ WorkerGoes(w, "staged") /\ UNCHANGED <<job, clipFaults>>
  <2>1. PICK p \in WorkerStates : /\ worker' = [worker EXCEPT ![w] = p]
                                  /\ p.stage = "staged" /\ p.event = EventOf(w)
    BY <1>3, <1>4, WorkerGoesOn
  <2>2. p.stage \in Making
    BY <2>1 DEF Making
  <2> QED
    BY <1>1, <1>2, <1>3, <1>4, <2>1, <2>2, MakerKeeps
<1>5. CASE /\ clipRow' = [clipRow EXCEPT ![EventOf(w)] = "failed"]
           /\ WorkerEnds(w) /\ Replies(w, "done") /\ Strikes({EventOf(w)})
  <2>1. worker' = [worker EXCEPT ![w] = IdleWorker]
        /\ clipFaults' = clipFaults \union {EventOf(w)}
    BY <1>5 DEF WorkerEnds, Strikes
  <2>2. /\ job' \in [ClipEvents -> {"queued", "running", "done", "dropped"}]
        /\ \A f \in ClipEvents : job'[f] = "done" => job[f] = "done" \/ f = EventOf(w)
    BY <1>3, <1>5, RepliesTypes
  <2> QED
    BY <1>1, <1>2, <1>3, <1>5, <2>1, <2>2, IdleTypes, MakerKeeps
<1> QED
  BY <1>4, <1>5 DEF StagesRow

LEMMA UploadsKeeps ==
  ASSUME ClipsInv, NEW w \in Workers, Uploads(w)
  PROVE  ClipsInv'
<1>1. /\ worker[w].stage = "staged" /\ object' = object \union {EventOf(w)}
      /\ WorkerGoes(w, "stored")
      /\ UNCHANGED <<edge, clipRow, clipAge, job, tries, doomed, clipFaults>>
  BY DEF Uploads, At
<1>2. Makes(w)
  BY <1>1 DEF Makes, Making
<1>3. /\ ClipsTypes /\ EventOf(w) \in ClipEvents /\ ~At(w, "idle") /\ clipFaults \subseteq ClipEvents
      /\ job \in [ClipEvents -> {"queued", "running", "done", "dropped"}]
      /\ clipAge[EventOf(w)] \in 0..MaxAge
      /\ clipAge = [clipAge EXCEPT ![EventOf(w)] = clipAge[EventOf(w)]]
      /\ clipRow = [clipRow EXCEPT ![EventOf(w)] = clipRow[EventOf(w)]]
  BY <1>1, MakerTypes DEF Making
<1>4. clipRow[EventOf(w)] = "staged"
  BY <1>1, <1>2 DEF ClipsInv, MakersHold, At
<1>5. PICK p \in WorkerStates : /\ worker' = [worker EXCEPT ![w] = p]
                                /\ p.stage = "stored" /\ p.event = EventOf(w)
  BY <1>1, <1>3, WorkerGoesOn
<1>6. p.stage \in Making
  BY <1>5 DEF Making
<1>7. clipRow' = [clipRow EXCEPT ![EventOf(w)] = "staged"]
      /\ clipAge' = [clipAge EXCEPT ![EventOf(w)] = clipAge[EventOf(w)]]
  BY <1>1, <1>3, <1>4
<1> QED
  BY <1>1, <1>2, <1>3, <1>5, <1>6, <1>7, MakerKeeps

\* The maker ends: its row is uploaded, or its event has met a fault.
LEMMA MakerEnds ==
  ASSUME ClipsInv, NEW w \in Workers, Makes(w), WorkerEnds(w),
         NEW r \in {"pending", "staged", "uploaded", "failed"},
         clipRow' = [clipRow EXCEPT ![EventOf(w)] = r],
         NEW reply \in {"queued", "done", "dropped"}, Replies(w, reply),
         UNCHANGED <<edge, clipAge, object, tries, doomed>>,
         \/ r = "uploaded" /\ EventOf(w) \in object /\ clipFaults' = clipFaults
         \/ r # "uploaded" /\ clipFaults' = clipFaults \union {EventOf(w)}
  PROVE  ClipsInv'
<1>1. /\ ClipsTypes /\ EventOf(w) \in ClipEvents /\ clipFaults \subseteq ClipEvents
      /\ clipAge[EventOf(w)] \in 0..MaxAge
      /\ clipAge' = [clipAge EXCEPT ![EventOf(w)] = clipAge[EventOf(w)]]
  BY MakerTypes DEF Makes
<1>2. /\ job' \in [ClipEvents -> {"queued", "running", "done", "dropped"}]
      /\ \A f \in ClipEvents : job'[f] = "done" => job[f] = "done" \/ f = EventOf(w)
  BY <1>1, RepliesTypes
<1>3. worker' = [worker EXCEPT ![w] = IdleWorker]
  BY DEF WorkerEnds
<1>4. clipFaults \subseteq clipFaults' /\ clipFaults' \subseteq ClipEvents
  BY <1>1
<1> QED
  BY <1>1, <1>2, <1>3, <1>4, IdleTypes, MakerKeeps

LEMMA FinalizesKeeps ==
  ASSUME ClipsInv, NEW w \in Workers, Finalizes(w)
  PROVE  ClipsInv'
<1>1. /\ worker[w].stage = "stored" /\ clipRow' = [clipRow EXCEPT ![EventOf(w)] = "uploaded"]
      /\ WorkerEnds(w) /\ Replies(w, "done")
      /\ UNCHANGED <<edge, clipAge, object, tries, doomed, clipFaults>>
  BY DEF Finalizes, At
<1>2. Makes(w) /\ EventOf(w) \in object
  BY <1>1 DEF ClipsInv, MakersHold, Makes, Making, At
<1> QED
  BY <1>1, <1>2, MakerEnds

LEMMA UploadFailsKeeps ==
  ASSUME ClipsInv, NEW w \in Workers, UploadFails(w)
  PROVE  ClipsInv'
<1>1. /\ clipRow' = [clipRow EXCEPT ![EventOf(w)] = "failed"]
      /\ WorkerEnds(w) /\ Replies(w, "done")
      /\ clipFaults' = clipFaults \union {EventOf(w)}
      /\ UNCHANGED <<edge, clipAge, object, tries, doomed>>
  BY DEF UploadFails, Strikes
<1>2. Makes(w)
  BY DEF UploadFails, At, Makes, Making
<1> QED
  BY <1>1, <1>2, MakerEnds

LEMMA CrashesKeeps ==
  ASSUME ClipsInv, NEW w \in Workers, Crashes(w)
  PROVE  ClipsInv'
<1>1. /\ worker[w].stage # "idle" /\ WorkerEnds(w)
      /\ clipFaults' = clipFaults \union {EventOf(w)}
      /\ UNCHANGED <<edge, clipRow, clipAge, object, tries, doomed>>
  BY DEF Crashes, At, Strikes
<1>2. PICK reply \in {"queued", "dropped"} : Replies(w, reply)
  BY AgainTypes DEF Crashes
<1>3. CASE Makes(w)
  <2>1. clipRow = [clipRow EXCEPT ![EventOf(w)] = clipRow[EventOf(w)]]
    BY <1>3, MakerTypes DEF Makes
  <2>2. clipRow[EventOf(w)] \in {"pending", "staged"}
    BY <1>3 DEF ClipsInv, MakersHold
  <2> QED
    BY <1>1, <1>2, <1>3, <2>1, <2>2, MakerEnds
<1>4. CASE ~Makes(w)
  <2>1. ClipsTypes /\ EventOf(w) \in ClipEvents
    BY <1>1 DEF ClipsInv, ClipsTypes, EventOf
  <2>2. clipFaults \subseteq clipFaults' /\ clipFaults' \subseteq ClipEvents
    BY <1>1, <2>1 DEF ClipsTypes
  <2>3. /\ job' \in [ClipEvents -> {"queued", "running", "done", "dropped"}]
        /\ \A f \in ClipEvents : job'[f] = "done" => job[f] = "done"
    BY <1>2, <2>1, RepliesTypes
  <2>4. worker' = [worker EXCEPT ![w] = IdleWorker]
    BY <1>1 DEF WorkerEnds
  <2> QED
    BY <1>1, <1>4, <2>2, <2>3, <2>4, IdleTypes, VisitorKeeps
<1> QED
  BY <1>3, <1>4

LEMMA DayPassesKeeps ==
  ASSUME ClipsInv, DayPasses
  PROVE  ClipsInv'
<1>1. /\ doomed = {} /\ \A w \in Workers : worker[w].stage = "idle"
      /\ clipAge' = [e \in ClipEvents |->
                       IF clipRow[e] # "none" /\ clipAge[e] < MaxAge THEN clipAge[e] + 1
                                                                     ELSE clipAge[e]]
      /\ UNCHANGED <<edge, clipRow, object, worker, job, tries, doomed, clipFaults>>
  BY DEF DayPasses, At
<1>2. ClipsTypes
  BY DEF ClipsInv
<1>3. ASSUME NEW e \in ClipEvents
      PROVE  /\ clipAge'[e] \in 0..MaxAge
             /\ clipAge[e] > Retention[e] => clipAge'[e] > Retention[e]
             /\ clipAge'[e] = (IF clipRow[e] # "none" /\ clipAge[e] < MaxAge
                               THEN clipAge[e] + 1 ELSE clipAge[e])
  <2>1. MaxAge \in Nat /\ Retention[e] \in Nat /\ clipAge[e] \in 0..MaxAge
    BY <1>2, MaxAgeNat, ClipsAssumption DEF ClipsTypes
  <2>2. clipAge'[e] = IF clipRow[e] # "none" /\ clipAge[e] < MaxAge THEN clipAge[e] + 1
                                                                    ELSE clipAge[e]
    BY <1>1
  <2> HIDE DEF MaxAge
  <2> QED
    BY <2>1, <2>2
<1>4. ClipsTypes'
  <2>1. clipAge' \in [ClipEvents -> 0..MaxAge]
    BY <1>1, <1>3
  <2> QED
    BY <1>1, <1>2, <2>1 DEF ClipsTypes
<1>5. \A w \in Workers : ~Makes(w) /\ ~Makes(w)'
  BY <1>1 DEF Makes, Making
<1>6. Playable'
  BY <1>1, <1>3 DEF ClipsInv, Playable
<1>7. Unlost'
  <2>1. \A e \in ClipEvents \ clipFaults : /\ clipRow[e] \notin {"pending", "staged", "failed"}
                                           /\ job[e] = "done" => clipRow[e] # "none" \/ clipAge[e] > Retention[e]
    BY <1>5 DEF ClipsInv, Unlost
  <2> QED
    BY <1>1, <1>3, <2>1 DEF Unlost
<1>8. RoomCounted'
  <2>1. RoomCounted
    BY DEF ClipsInv
  <2> QED
    BY <1>1, <2>1, RoomStays DEF Admitted
<1> QED
  BY <1>1, <1>4, <1>5, <1>6, <1>7, <1>8 DEF ClipsInv, MakersHold, MakersAlone, DoomedOld

\* The cleanup: what it deletes was uploaded and is too old for its own tenant.
LEMMA CleanupDeletesKeeps ==
  ASSUME ClipsInv, NEW e \in ClipEvents, CleanupDeletes(e)
  PROVE  ClipsInv'
<1>1. /\ clipRow[e] = "uploaded" /\ clipAge[e] > Retention[e]
      /\ object' = object \ {e} /\ doomed' = doomed \union {e}
      /\ UNCHANGED <<edge, clipRow, clipAge, worker, job, tries, clipFaults>>
  BY DEF CleanupDeletes, Expired
<1>2. ClipsTypes'
  BY <1>1 DEF ClipsInv, ClipsTypes
<1>3. MakersHold'
  <2>1. \A w \in Workers : Makes(w) => EventOf(w) # e
    BY <1>1 DEF ClipsInv, MakersHold
  <2> QED
    BY <1>1, <2>1 DEF ClipsInv, MakersHold, Makes, EventOf, At
<1>4. MakersAlone' /\ Unlost'
  BY <1>1 DEF ClipsInv, MakersAlone, Unlost, Makes, EventOf
<1>5. DoomedOld' /\ Playable'
  BY <1>1 DEF ClipsInv, DoomedOld, Playable
<1>6. RoomCounted'
  <2>1. RoomCounted
    BY DEF ClipsInv
  <2> QED
    BY <1>1, <2>1, RoomStays DEF Admitted
<1> QED
  BY <1>2, <1>3, <1>4, <1>5, <1>6 DEF ClipsInv

LEMMA CleanupCommitsKeeps ==
  ASSUME ClipsInv, CleanupCommits
  PROVE  ClipsInv'
<1>1. /\ clipRow' = [e \in ClipEvents |-> IF e \in doomed THEN "none" ELSE clipRow[e]]
      /\ doomed' = {}
      /\ UNCHANGED <<edge, clipAge, object, worker, job, tries, clipFaults>>
  BY DEF CleanupCommits
<1>2. \A e \in ClipEvents : clipRow'[e] = IF e \in doomed THEN "none" ELSE clipRow[e]
  BY <1>1
<1>3. ClipsTypes
  BY DEF ClipsInv
<1>4. \A e \in doomed : clipRow[e] = "uploaded" /\ clipAge[e] > Retention[e]
  BY DEF ClipsInv, DoomedOld
<1>5. ClipsTypes'
  <2>1. clipRow' \in [ClipEvents -> ClipStatus \union {"none"}]
    <3>1. \A e \in ClipEvents : clipRow[e] \in ClipStatus \union {"none"}
      BY <1>3 DEF ClipsTypes
    <3> QED
      BY <1>1, <3>1
  <2> QED
    BY <1>1, <1>3, <2>1 DEF ClipsTypes
<1>6. MakersHold'
  <2>1. ASSUME NEW w \in Workers, Makes(w)
        PROVE  EventOf(w) \in ClipEvents /\ clipRow'[EventOf(w)] = clipRow[EventOf(w)]
    <3>1. EventOf(w) \in ClipEvents /\ clipRow[EventOf(w)] # "uploaded"
      BY <1>3, <2>1 DEF ClipsInv, MakersHold, ClipsTypes, Makes, Making, EventOf
    <3> QED
      BY <1>2, <1>4, <3>1
  <2> QED
    BY <1>1, <2>1 DEF ClipsInv, MakersHold, Makes, EventOf, At
<1>7. MakersAlone'
  BY <1>1 DEF ClipsInv, MakersAlone, Makes, EventOf
<1>8. DoomedOld' /\ Playable'
  BY <1>1, <1>2 DEF ClipsInv, DoomedOld, Playable
<1>9. Unlost'
  <2> SUFFICES ASSUME NEW e \in ClipEvents \ clipFaults
               PROVE  /\ clipRow'[e] \in {"pending", "staged"} =>
                           \E w \in Workers : Makes(w)' /\ EventOf(w)' = e
                      /\ clipRow'[e] # "failed"
                      /\ job'[e] = "done" => clipRow'[e] # "none" \/ clipAge'[e] > Retention[e]
    BY <1>1 DEF Unlost
  <2>1. CASE e \in doomed
    BY <1>1, <1>2, <1>4, <2>1
  <2>2. CASE e \notin doomed
    <3>1. clipRow'[e] = clipRow[e]
      BY <1>2, <2>2
    <3> QED
      BY <1>1, <3>1 DEF ClipsInv, Unlost, Makes, EventOf
  <2> QED
    BY <2>1, <2>2
<1>10. RoomCounted'
  <2>1. RoomCounted
    BY DEF ClipsInv
  <2>2. PICK U, A : U = Uploaded' /\ A = Admitted'
    OBVIOUS
  <2>3. U \subseteq Uploaded
    BY <1>2, <2>2 DEF Uploaded
  <2>4. A \subseteq Admitted
    BY <1>1, <2>2 DEF Admitted
  <2> QED
    BY <1>1, <2>1, <2>2, <2>3, <2>4, RoomShrinks DEF RoomCounted
<1> QED
  BY <1>5, <1>6, <1>7, <1>8, <1>9, <1>10 DEF ClipsInv

LEMMA CleanupCrashesKeeps ==
  ASSUME ClipsInv, CleanupCrashes
  PROVE  ClipsInv'
<1>1. /\ doomed' = {} /\ clipFaults' = clipFaults \union doomed
      /\ UNCHANGED <<edge, clipRow, clipAge, object, worker, job, tries>>
  BY DEF CleanupCrashes, Strikes
<1>2. ClipsTypes'
  BY <1>1 DEF ClipsInv, ClipsTypes
<1>3. MakersHold' /\ MakersAlone'
  BY <1>1 DEF ClipsInv, MakersHold, MakersAlone, Makes, EventOf, At
<1>4. DoomedOld' /\ Playable'
  BY <1>1 DEF ClipsInv, DoomedOld, Playable
<1>5. Unlost'
  BY <1>1 DEF ClipsInv, Unlost, Makes, EventOf
<1>6. RoomCounted'
  <2>1. RoomCounted
    BY DEF ClipsInv
  <2> QED
    BY <1>1, <2>1, RoomStays DEF Admitted
<1> QED
  BY <1>2, <1>3, <1>4, <1>5, <1>6 DEF ClipsInv

LEMMA ClipsStep == ClipsInv /\ [ClipsNext]_clipVars => ClipsInv'
<1> SUFFICES ASSUME ClipsInv, [ClipsNext]_clipVars PROVE ClipsInv'
  OBVIOUS
<1>1. ASSUME NEW e \in ClipEvents, NEW w \in Workers, Starts(e, w) PROVE ClipsInv'
  BY <1>1, ClipStartsKeeps
<1>2. ASSUME NEW e \in ClipEvents, NoClip(e) \/ PutTimesOut(e) PROVE ClipsInv'
  <2>1. PICK next \in {"queued", "dropped"} : job' = [job EXCEPT ![e] = next]
    BY <1>2, AgainTypes DEF NoClip, PutTimesOut, Retries
  <2>2. UNCHANGED <<edge, clipRow, clipAge, object, worker, tries, doomed, clipFaults>>
    BY <1>2 DEF NoClip, PutTimesOut
  <2> QED
    BY <2>1, <2>2, ClipJobKeeps
<1>3. ASSUME NEW e \in ClipEvents, CleanupDeletes(e) PROVE ClipsInv'
  BY <1>3, CleanupDeletesKeeps
<1>4. ASSUME NEW w \in Workers,
             \/ Admits(w) \/ FindsExisting(w) \/ FindsNone(w)
             \/ CreatesRow(w) \/ CreateConflicts(w) \/ StagesRow(w)
             \/ Uploads(w) \/ Finalizes(w) \/ UploadFails(w) \/ Crashes(w)
      PROVE  ClipsInv'
  BY <1>4, AdmitsKeeps, FindsExistingKeeps, FindsNoneKeeps, CreatesRowKeeps,
     CreateConflictsKeeps, StagesRowKeeps, UploadsKeeps, FinalizesKeeps, UploadFailsKeeps,
     CrashesKeeps
<1>5. CASE DayPasses \/ CleanupCommits \/ CleanupCrashes
  BY <1>5, DayPassesKeeps, CleanupCommitsKeeps, CleanupCrashesKeeps
<1>6. CASE UNCHANGED clipVars
  <2>1. UNCHANGED <<edge, clipRow, clipAge, object, worker, job, tries, doomed, clipFaults>>
    BY <1>6 DEF clipVars
  <2>2. ClipsTypes' /\ MakersHold' /\ MakersAlone'
    BY <2>1 DEF ClipsInv, ClipsTypes, MakersHold, MakersAlone, Makes, EventOf, At
  <2>3. DoomedOld' /\ Playable' /\ Unlost'
    BY <2>1 DEF ClipsInv, DoomedOld, Playable, Unlost, Makes, EventOf
  <2>4. RoomCounted'
    BY <2>1 DEF ClipsInv, RoomCounted, Uploaded, Admitted
  <2> QED
    BY <2>2, <2>3, <2>4 DEF ClipsInv
<1> QED
  BY <1>1, <1>2, <1>3, <1>4, <1>5, <1>6 DEF ClipsNext

LEMMA ClipsInvAlways == ClipsSpec => []ClipsInv
<1> QED
  BY ClipsStart, ClipsStep, PTL DEF ClipsSpec

\* What every variable of the clips may hold, always.
THEOREM ClipsTypeAlwaysOK == ClipsSpec => []ClipsTypeOK
<1>1. ClipsInv => ClipsTypeOK
  <2> SUFFICES ASSUME ClipsInv PROVE ClipsTypeOK
    OBVIOUS
  <2>1. ClipsTypes
    BY DEF ClipsInv
  <2>2. \A e \in ClipEvents : tries[e] \in 0..MaxTries[e]
    <3> SUFFICES ASSUME NEW e \in ClipEvents PROVE tries[e] \in 0..MaxTries[e]
      OBVIOUS
    <3>1. tries[e] \in Nat /\ tries[e] <= MaxTries[e] /\ MaxTries[e] \in Nat
      BY <2>1, ClipsAssumption DEF ClipsTypes
    <3> QED
      BY <3>1
  <2> QED
    BY <2>1, <2>2 DEF ClipsTypes, ClipsTypeOK, WorkerStates
<1> QED
  BY <1>1, ClipsInvAlways, PTL

\* Clips that were promised are there and can be played, within the quota and one
\* clip for every other worker, however many events, workers and days.
THEOREM ClipsAreAlwaysKept == ClipsSpec => []ClipsKept
<1>1. ClipsInv => ClipsKept
  <2> SUFFICES ASSUME ClipsInv PROVE ClipsKept
    OBVIOUS
  <2>1. LiveClipsPlayable
    <3> SUFFICES ASSUME NEW e \in ClipEvents, clipRow[e] = "uploaded",
                        clipAge[e] <= Retention[e]
                 PROVE  e \in object
      BY DEF LiveClipsPlayable
    <3>1. e \in object \/ clipAge[e] > Retention[e]
      BY DEF ClipsInv, Playable
    <3>2. MaxAge \in Nat /\ clipAge[e] \in 0..MaxAge /\ Retention[e] \in Nat
      BY MaxAgeNat, ClipsAssumption DEF ClipsInv, ClipsTypes
    <3> QED
      BY <3>1, <3>2
  <2>2. OverrunBounded
    <3> SUFFICES ASSUME edge, Quota > 0 PROVE Used <= Quota + Cardinality(Workers) - 1
      BY DEF OverrunBounded
    <3>1. /\ IsFiniteSet(Uploaded)
          /\ Cardinality(Uploaded) + Cardinality(Admitted) <= Quota - 1 + Cardinality(Workers)
      BY DEF ClipsInv, RoomCounted
    <3>2. Admitted \subseteq Workers /\ IsFiniteSet(Workers)
      BY ClipsAssumption DEF Admitted
    <3>3. Cardinality(Uploaded) \in Nat /\ Cardinality(Admitted) \in Nat
          /\ Cardinality(Workers) \in Nat /\ Quota \in Nat
      BY <3>1, <3>2, FS_Subset, FS_CardinalityType, ClipsAssumption
    <3>4. Used = Cardinality(Uploaded)
      BY DEF Used, Uploaded
    <3> QED
      BY <3>1, <3>3, <3>4
  <2>3. LostOnlyByFault
    <3> SUFFICES ASSUME NEW e \in ClipEvents \ clipFaults
                 PROVE  /\ clipRow[e] \in {"pending", "staged"} => Busy(e)
                        /\ job[e] = "done" =>
                             clipRow[e] = "uploaded" \/ Busy(e) \/ clipAge[e] > Retention[e]
      BY DEF LostOnlyByFault
    <3>1. clipRow[e] \in {"pending", "staged"} => Busy(e)
      BY DEF ClipsInv, Unlost, Busy, EventOf
    <3>2. clipRow[e] \in {"none", "pending", "staged", "uploaded", "failed"}
      BY DEF ClipsInv, ClipsTypes, ClipStatus
    <3>3. clipRow[e] # "failed"
          /\ (job[e] = "done" => clipRow[e] # "none" \/ clipAge[e] > Retention[e])
      BY DEF ClipsInv, Unlost
    <3> QED
      BY <3>1, <3>2, <3>3
  <2> QED
    BY <2>1, <2>2, <2>3 DEF ClipsKept
<1> QED
  BY <1>1, ClipsInvAlways, PTL
=============================================================================
