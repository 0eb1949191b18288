---------------------------- MODULE EventOutbox ----------------------------
(***************************************************************************)
(* The durable retry queue of the analytics worker: one SQLite table of    *)
(* events that could not be delivered, capped by age and by size.          *)
(*                                                                         *)
(* A row stands for one event, because ingest_event enqueues an event at   *)
(* most once.  Time is relative: wait[e] is next_attempt_at minus now and  *)
(* age[e] is now minus created_at, both cut off where the code stops       *)
(* telling values apart, so the clock itself needs no bound.  A deleted    *)
(* row's columns go back to 0; its id is kept, AUTOINCREMENT never reuses  *)
(* one and the retry loop may still hold it.                               *)
(***************************************************************************)
EXTENDS Integers, FiniteSets

CONSTANTS Events,          \* events that are ever detected
          MaxRows,         \* max_rows, the cap on the table's size
          MaxAge,          \* max_age_seconds
          MaxLag,          \* bound: from reading the clock to the insert
          InitialBackoff,  \* _INITIAL_BACKOFF_SECONDS
          MaxBackoff,      \* _MAX_BACKOFF_SECONDS
          AttemptCap,      \* bound: attempts beyond it all back off alike
          MaxRetryAfter    \* _MAX_RETRY_AFTER_SECONDS

ASSUME OutboxAssumption ==
  /\ IsFiniteSet(Events)
  /\ MaxRows \in Nat \ {0}
  /\ MaxAge \in Nat
  /\ MaxLag \in 0..MaxAge
  /\ InitialBackoff \in Nat \ {0}
  /\ MaxBackoff \in Nat \ {0}
  /\ AttemptCap \in Nat
  /\ \A k \in 0..AttemptCap : InitialBackoff * 2^k \in Nat
  /\ InitialBackoff * 2^AttemptCap >= MaxBackoff
  /\ MaxRetryAfter \in Nat \ {0}

VARIABLES rows,       \* events with a row in pending_events
          rowId,      \* id of an event's row, 0 before it was inserted
          attempts, wait, age,
          unpruned,   \* enqueue calls between their insert and their _prune
          interrupted, \* history: enqueue calls that ended before their
                       \* _prune, since the last _prune that committed
          discarded   \* history: events whose row the cap deleted

table == <<rows, rowId, attempts, wait, age>>
outboxVars == <<rows, rowId, attempts, wait, age, unpruned, interrupted,
                discarded>>

Least(m, n) == IF m < n THEN m ELSE n

\* Delay before the next try of a row that has already failed k times.
Backoff(k) == Least(InitialBackoff * 2^k, MaxBackoff)

\* The columns of the rows that stay, 0 for those that go.
Kept(column) == [e \in Events |-> IF e \in rows' THEN column[e] ELSE 0]

OutboxInit ==
  /\ rows = {}
  /\ rowId = [e \in Events |-> 0]
  /\ attempts = [e \in Events |-> 0]
  /\ wait = [e \in Events |-> 0]
  /\ age = [e \in Events |-> 0]
  /\ unpruned = {}
  /\ interrupted = {}
  /\ discarded = {}

----------------------------------------------------------------------------
(* enqueue is two transactions: the insert, then _prune.  created_at is    *)
(* read before the insert, which may have to wait for SQLite's lock.       *)

NextId == 1 + Cardinality({e \in Events : rowId[e] > 0})

Insert(e) ==
  /\ rowId[e] = 0
  /\ rows' = rows \union {e}
  /\ rowId' = [rowId EXCEPT ![e] = NextId]
  /\ attempts' = [attempts EXCEPT ![e] = 0]
  /\ wait' = [wait EXCEPT ![e] = 0]
  /\ \E lag \in 0..MaxLag : age' = [age EXCEPT ![e] = lag]
  /\ unpruned' = unpruned \union {e}
  /\ UNCHANGED <<interrupted, discarded>>

TooOld == {e \in rows : age[e] > MaxAge}

\* Mutant of Excess: the newest go (ORDER BY id ASC).
ExcessNewest(S) ==
  {e \in S : Cardinality({f \in S : rowId[f] < rowId[e]}) >= MaxRows}

\* Mutant of Excess: every enqueue makes room for itself only (LIMIT 1).
ExcessOnlyOne(S) ==
  {e \in S : /\ Cardinality({f \in S : rowId[f] > rowId[e]}) >= MaxRows
             /\ \A f \in S : rowId[e] <= rowId[f]}

\* Of the rows in S, those with at least MaxRows newer ones.
Excess(S) ==
  {e \in S : Cardinality({f \in S : rowId[f] > rowId[e]}) >= MaxRows}

Pruned == TooOld \union Excess(rows \ TooOld)

\* Both DELETEs are one transaction: no cap is applied without the other.
Prune(e) ==
  /\ e \in unpruned
  /\ unpruned' = unpruned \ {e}
  /\ rows' = rows \ Pruned
  /\ attempts' = Kept(attempts)
  /\ wait' = Kept(wait)
  /\ age' = Kept(age)
  /\ interrupted' = {}
  /\ discarded' = discarded \union Pruned
  /\ UNCHANGED rowId

\* An SQLite error ends the enqueue, before its insert or after it: nobody
\* prunes on its behalf.
EnqueueFails(e) ==
  /\ unpruned' = unpruned \ {e}
  /\ interrupted' = interrupted \union ({e} \intersect unpruned)
  /\ UNCHANGED <<table, discarded>>

Due == {e \in rows : wait[e] = 0}

Remove(e) ==
  /\ rows' = rows \ {e}
  /\ attempts' = Kept(attempts)
  /\ wait' = Kept(wait)
  /\ age' = Kept(age)
  /\ UNCHANGED <<rowId, unpruned, interrupted, discarded>>

\* An UPDATE by id: without effect when the cap has deleted the row meanwhile.
\* attempts is what list_due read: the retry loop alone changes the column.
Reschedule(e) ==
  /\ IF e \in rows
       THEN /\ wait' = [wait EXCEPT ![e] = Backoff(attempts[e])]
            /\ attempts' = [attempts EXCEPT ![e] = Least(@ + 1, AttemptCap)]
       ELSE UNCHANGED <<wait, attempts>>
  /\ UNCHANGED <<rows, rowId, age, unpruned, interrupted, discarded>>

\* Mutant of DeferAll: without its WHERE.
DeferAllOverwrites(seconds) ==
  /\ wait' = [e \in Events |-> IF e \in rows THEN seconds ELSE wait[e]]
  /\ UNCHANGED <<rows, rowId, attempts, age, unpruned, interrupted, discarded>>

\* UPDATE ... SET next_attempt_at = until WHERE next_attempt_at < until
DeferAll(seconds) ==
  /\ wait' = [e \in Events |-> IF e \in rows /\ wait[e] < seconds
                                 THEN seconds ELSE wait[e]]
  /\ UNCHANGED <<rows, rowId, attempts, age, unpruned, interrupted, discarded>>

\* The process dies and comes back: the table survives, memory does not.
OutboxRestart ==
  /\ unpruned' = {}
  /\ interrupted' = interrupted \union unpruned
  /\ UNCHANGED <<table, discarded>>

\* One unit of time passes.
OutboxTick ==
  /\ wait' = [e \in Events |-> IF wait[e] > 0 THEN wait[e] - 1 ELSE 0]
  /\ age' = [e \in Events |->
               IF e \in rows THEN Least(age[e] + 1, MaxAge + 1) ELSE age[e]]
  /\ UNCHANGED <<rows, rowId, attempts, unpruned, interrupted, discarded>>

OutboxTypeOK ==
  /\ rows \subseteq Events
  /\ rowId \in [Events -> Nat]
  /\ attempts \in [Events -> 0..AttemptCap]
  /\ wait \in [Events -> Nat]
  /\ age \in [Events -> 0..(MaxAge + 1)]
  /\ unpruned \subseteq Events
  /\ interrupted \subseteq Events
  /\ discarded \subseteq Events

----------------------------------------------------------------------------
(* What the queue promises whoever calls it.                               *)

\* The cap takes the oldest rows and only those: no event that is still
\* queued was enqueued before one the cap discarded, in whatever order the
\* threads' inserts, prunes, removals and clock ticks fall ("o item novo e
\* sempre aceito e, se preciso, o mais antigo e que sai").  The two orders the
\* code goes by, created_at and id, differ by MaxLag at most: a row that was
\* spared out of order is within MaxLag of its own expiry.
DiscardsOldest ==
  \A d \in discarded, r \in rows :
    rowId[d] < rowId[r] \/ age[r] + MaxLag > MaxAge

\* The table exceeds its cap by at most the enqueue calls that have inserted
\* and not yet pruned, and those that ended there, by an SQLite error or with
\* the process, since the last _prune.  The excess they leave does not add up:
\* the next _prune that commits takes all of it, so that a later enqueue need
\* not make up for an earlier one.
SizeCapped ==
  Cardinality(rows)
    <= MaxRows + Cardinality(unpruned) + Cardinality(interrupted)

----------------------------------------------------------------------------
(* The queue on its own, its methods called in any order by any thread.    *)

OutboxNext ==
  \/ \E e \in Events : Insert(e) \/ Prune(e)
  \/ \E e \in unpruned : EnqueueFails(e)
  \/ OutboxRestart
  \/ \E e \in rows : Remove(e) \/ Reschedule(e)
  \/ \E seconds \in 1..MaxRetryAfter : DeferAll(seconds)
  \/ OutboxTick

OutboxSpec == OutboxInit /\ [][OutboxNext]_outboxVars
=============================================================================
