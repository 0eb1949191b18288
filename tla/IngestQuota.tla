---------------------------- MODULE IngestQuota ----------------------------
(***************************************************************************)
(* The token bucket of one tenant in Redis (edge/quota.py).  A unit of     *)
(* time refills one token: 60 / EventsPerMinute seconds.  The script is    *)
(* atomic, but the capacity and the life of the key follow the cost of     *)
(* whichever call came last, and calls pass unchecked while Redis is down. *)
(***************************************************************************)
EXTENDS Integers

CONSTANTS EventsPerMinute, \* of the tenant's licence
          MaxCost          \* BATCH_MAX_EVENTS, events per request

ASSUME QuotaAssumption == EventsPerMinute \in Nat \ {0} /\ MaxCost \in Nat \ {0}

BurstMultiplier == 2
NoPromise == [cost |-> 0, wait |-> 0]

VARIABLES key,      \* is there a bucket in Redis
          tokens,   \* its tokens when last written
          idle,     \* units of time since then
          life,     \* units of time until the key expires
          redisUp,
          credit,   \* a bucket that is not forgotten and pays for the same calls
          promise   \* a refused call: its cost, and the Retry-After still to wait

quotaVars == <<key, tokens, idle, life, redisUp, credit, promise>>

AtMost(a, b) == IF a <= b THEN a ELSE b

Capacity(cost) == IF cost > BurstMultiplier * EventsPerMinute
                  THEN cost ELSE BurstMultiplier * EventsPerMinute

\* Mutant of Life: without the 60 seconds to spare.
LifeTight(cost) == Capacity(cost)

\* ceil(capacity / refill_rate) + 60 seconds
Life(cost) == Capacity(cost) + EventsPerMinute
MaxLife == Life(MaxCost)

\* What an expiry may give away: a key lives for three minutes of the rate after
\* any call, the refused ones included, and a new one is as full as the next call
\* is large.  Nothing, if three minutes of the rate pay for the largest batch.
Forgiven == IF MaxCost > 3 * EventsPerMinute THEN MaxCost - 3 * EventsPerMinute ELSE 0

\* Mutant of Refilled: more than the bucket holds.
RefilledUncapped(cost) == IF key THEN tokens + idle ELSE Capacity(cost)

\* What the script finds: a full bucket if there is no key, else the refilled one.
Refilled(cost) == IF key THEN AtMost(Capacity(cost), tokens + idle) ELSE Capacity(cost)
Allows(cost) == Refilled(cost) >= cost

QuotaInit ==
  /\ key = FALSE /\ tokens = 0 /\ idle = 0 /\ life = 0
  /\ redisUp = TRUE
  /\ credit = Capacity(MaxCost)
  /\ promise = NoPromise

\* HSET and EXPIRE, which every call does, the refused ones included.
Writes(left, cost) ==
  /\ key' = TRUE /\ tokens' = left /\ idle' = 0 /\ life' = Life(cost)

CheckAllows(cost) ==
  /\ redisUp /\ Allows(cost)
  /\ Writes(Refilled(cost) - cost, cost)
  /\ credit' = credit - cost
  /\ promise' = NoPromise
  /\ UNCHANGED redisUp

\* 429 with Retry-After.  Of several refused calls one is followed.
CheckRefuses(cost) ==
  /\ redisUp /\ ~Allows(cost)
  /\ Writes(Refilled(cost), cost)
  /\ promise' \in {promise, [cost |-> cost, wait |-> cost - Refilled(cost)]} \ {NoPromise}
  /\ UNCHANGED <<redisUp, credit>>

\* The script call raises: the request passes and nothing is written.
CheckFailsOpen(cost) ==
  /\ ~redisUp /\ cost \in 1..MaxCost
  /\ UNCHANGED quotaVars

RedisChanges ==
  /\ redisUp' = ~redisUp
  /\ UNCHANGED <<key, tokens, idle, life, credit, promise>>

QuotaTick ==
  /\ key' = (key /\ life > 1)
  /\ life' = IF key' THEN life - 1 ELSE 0
  /\ idle' = IF key' THEN idle + 1 ELSE 0
  /\ tokens' = IF key' THEN tokens ELSE 0
  /\ credit' = AtMost(Capacity(MaxCost),
                      credit + 1 + IF key /\ ~key' THEN Forgiven ELSE 0)
  /\ promise' = [promise EXCEPT !.wait = IF @ > 0 THEN @ - 1 ELSE 0]
  /\ UNCHANGED redisUp

QuotaNext ==
  \/ \E cost \in 1..MaxCost : CheckAllows(cost) \/ CheckRefuses(cost) \/ CheckFailsOpen(cost)
  \/ RedisChanges
  \/ QuotaTick

QuotaSpec == QuotaInit /\ [][QuotaNext]_quotaVars

(***************************************************************************)
(* Properties                                                              *)
(***************************************************************************)
\* What every variable may hold.  A live key never outlasts its time to live.
QuotaTypeOK ==
  /\ key \in BOOLEAN /\ redisUp \in BOOLEAN
  /\ tokens \in 0..Capacity(MaxCost) /\ credit \in Int
  /\ idle \in 0..MaxLife /\ life \in 0..MaxLife
  /\ promise \in [cost : 0..MaxCost, wait : 0..MaxCost]

\* Whatever the rate, the order and the cost of the calls, the script admits no
\* more than a bucket that is not forgotten would, but for Forgiven at each expiry
\* of the key: nothing, where the rate is a third of the largest batch or more.
NeverOverspends == credit >= 0

\* A refused caller that waits for the Retry-After it was told is admitted, if
\* nothing was admitted meanwhile: the refused calls of others cost it nothing.
RetryAfterSuffices == promise # NoPromise /\ promise.wait = 0 => Allows(promise.cost)

\* What the quota promises the tenant's neighbours, and what it promises the caller.
QuotaHolds == NeverOverspends /\ RetryAfterSuffices
=============================================================================
