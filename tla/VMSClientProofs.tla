-------------------------- MODULE VMSClientProofs --------------------------
(***************************************************************************)
(* What the outbox keeps and delivery guarantees, for any number of        *)
(* events, any caps and any number of faults, and that delivery implements *)
(* EventDelivery.                                                          *)
(*                                                                         *)
(* The lemmas about the outbox are stated for one step of an operation, so *)
(* that the proofs about the client, whose steps contain these, cite them  *)
(* too.                                                                    *)
(***************************************************************************)
EXTENDS VMSClient, FiniteSetTheorems, WellFoundedInduction, TLAPS

(***************************************************************************)
(* The outbox alone.                                                       *)
(***************************************************************************)
\* Events that were ever enqueued.
Enqueued == {e \in Events : rowId[e] > 0}

\* Ids are handed out once, in increasing order, to every event in the outbox.
IdsInOrder ==
  /\ \A e, f \in Events : rowId[e] > 0 /\ rowId[e] = rowId[f] => e = f
  /\ \A e \in Events : rowId[e] <= Cardinality(Enqueued)
  /\ rows \union discarded \union unpruned \union interrupted \subseteq Enqueued
  /\ rows \intersect discarded = {}
  /\ unpruned \intersect interrupted = {}

\* A row with a higher id is older by MaxLag at most.
AgesFollowIds ==
  \A e, f \in rows : rowId[e] < rowId[f] => age[f] <= age[e] + MaxLag

\* The inductive invariant of the table.
OutboxInv == OutboxTypeOK /\ IdsInOrder /\ AgesFollowIds /\ DiscardsOldest

USE OutboxAssumption

----------------------------------------------------------------------------
(* The operators the actions are built from.                               *)

\* A backoff is a delay, one more failed try fits the attempts a row may have,
\* and the saturated age of a row stays in range as time passes.
LEMMA Ranges ==
  /\ \A k \in 0..AttemptCap : Backoff(k) \in Nat
  /\ \A k \in 0..AttemptCap : Least(k + 1, AttemptCap) \in 0..AttemptCap
  /\ \A a \in 0..(MaxAge + 1) : Least(a + 1, MaxAge + 1) \in 0..(MaxAge + 1)
BY DEF Backoff, Least

\* Any set of events is finite.
LEMMA FiniteEvents ==
  \A S \in SUBSET Events : IsFiniteSet(S) /\ Cardinality(S) \in Nat
BY FS_Subset, FS_CardinalityType

\* Sets of events of increasing extent have increasing size.
LEMMA Monotone ==
  \A S \in SUBSET Events : \A T \in SUBSET S : Cardinality(T) <= Cardinality(S)
BY FS_Subset, FiniteEvents

\* What the size cap keeps of a set of rows.
Newest(S) == S \ Excess(S)

\* Of two rows, the size cap does not take the newer and spare the older one.
LEMMA ExcessIsOldest ==
  ASSUME OutboxTypeOK, NEW S \in SUBSET Events,
         NEW d \in Excess(S), NEW r \in Newest(S)
  PROVE  rowId[d] <= rowId[r]
<1> SUFFICES ASSUME rowId[d] > rowId[r] PROVE FALSE
  BY DEF OutboxTypeOK, Excess, Newest
<1> DEFINE Above(x) == {f \in S : rowId[f] > rowId[x]}
<1>1. Above(d) \in SUBSET Above(r) /\ Above(r) \in SUBSET Events
  BY DEF OutboxTypeOK, Excess, Newest
<1>2. Cardinality(Above(d)) <= Cardinality(Above(r))
  BY <1>1, Monotone
<1>3. Cardinality(Above(d)) >= MaxRows /\ ~(Cardinality(Above(r)) >= MaxRows)
  BY DEF Excess, Newest
<1>4. Cardinality(Above(d)) \in Nat /\ Cardinality(Above(r)) \in Nat
  BY <1>1, FiniteEvents
<1> HIDE DEF Above
<1> QED BY <1>2, <1>3, <1>4

\* A nonempty set of events has one with the least id.
LEMMA Oldest ==
  ASSUME OutboxTypeOK, NEW T \in SUBSET Events, T # {}
  PROVE  \E m \in T : \A e \in T : rowId[m] <= rowId[e]
<1> DEFINE R == OpToRel(<, Nat)
<1> DEFINE Ids == {rowId[e] : e \in T}
<1>1. Ids \subseteq Nat /\ Ids # {}
  BY DEF OutboxTypeOK
<1>2. IsWellFoundedOn(R, Nat)
  BY NatLessThanWellFounded
<1>3. PICK i \in Ids : \A j \in Ids : ~(<<j, i>> \in R)
  <2> HIDE DEF R, Ids
  <2> QED BY <1>1, <1>2, WFMin
<1>4. \A j \in Ids : ~(j < i)
  BY <1>1, <1>3 DEF OpToRel
<1>5. PICK m \in T : rowId[m] = i
  OBVIOUS
<1>6. ASSUME NEW e \in T PROVE rowId[m] <= rowId[e]
  <2>1. rowId[e] \in Ids
    OBVIOUS
  <2>2. ~(rowId[e] < i)
    <3> HIDE DEF Ids
    <3> QED BY <1>4, <2>1
  <2>3. rowId[e] \in Nat /\ rowId[m] \in Nat
    BY DEF OutboxTypeOK
  <2> QED BY <1>5, <2>2, <2>3
<1> QED BY <1>6

\* The size cap keeps no more than MaxRows rows, when no two share an id.
LEMMA NewestFitCap ==
  ASSUME OutboxTypeOK, NEW S \in SUBSET Events,
         \A e, f \in S : rowId[e] = rowId[f] => e = f
  PROVE  Cardinality(Newest(S)) <= MaxRows
<1> SUFFICES ASSUME Newest(S) # {} PROVE Cardinality(Newest(S)) <= MaxRows
  BY FS_EmptySet
<1>1. Newest(S) \in SUBSET Events
  BY DEF Newest
<1>2. PICK m \in Newest(S) : \A e \in Newest(S) : rowId[m] <= rowId[e]
  BY <1>1, Oldest
<1> DEFINE Above == {f \in S : rowId[f] > rowId[m]}
<1> DEFINE Rest == Newest(S) \ {m}
<1>3. Rest \in SUBSET Above /\ Above \in SUBSET Events
  BY <1>2 DEF Newest, OutboxTypeOK
<1>4. Cardinality(Above) < MaxRows
  <2>1. Cardinality(Above) \in Nat
    BY <1>3, FiniteEvents
  <2>2. ~(Cardinality(Above) >= MaxRows)
    BY DEF Newest, Excess
  <2> HIDE DEF Above
  <2> QED BY <2>1, <2>2
<1>5. Cardinality(Rest) <= Cardinality(Above)
  BY <1>3, Monotone
<1>6. Cardinality(Rest) = Cardinality(Newest(S)) - 1
  BY <1>1, FiniteEvents, FS_RemoveElement
<1>7. Cardinality(Newest(S)) \in Nat /\ Cardinality(Rest) \in Nat
      /\ Cardinality(Above) \in Nat
  BY <1>1, <1>3, FiniteEvents
<1> HIDE DEF Above, Rest
<1> QED BY <1>4, <1>5, <1>6, <1>7

----------------------------------------------------------------------------
(* Each operation keeps the invariant.                                     *)

\* The id of the next row is new and the highest.
LEMMA InsertKeepsIds ==
  ASSUME OutboxInv, NEW e \in Events, Insert(e)
  PROVE  /\ IdsInOrder'
         /\ \A f \in Enqueued : rowId'[f] = rowId[f] /\ rowId[f] < rowId'[e]
<1> USE DEF OutboxInv
<1>1. rowId' = [rowId EXCEPT ![e] = NextId] /\ rowId[e] = 0
  BY DEF Insert
<1>2. Enqueued \in SUBSET Events /\ e \notin Enqueued
  BY <1>1 DEF Enqueued
<1>3. NextId = Cardinality(Enqueued) + 1 /\ Cardinality(Enqueued) \in Nat
  BY <1>2, FiniteEvents DEF NextId, Enqueued
<1>4. Enqueued' = Enqueued \union {e}
  <2>1. \A f \in Events : rowId'[f] = IF f = e THEN NextId ELSE rowId[f]
    BY <1>1 DEF OutboxTypeOK
  <2>2. NextId > 0
    BY <1>3
  <2> QED BY <2>1, <2>2 DEF Enqueued
<1>5. Cardinality(Enqueued') = NextId
  BY <1>2, <1>3, <1>4, FiniteEvents, FS_AddElement
<1>6. \A f \in Events : rowId[f] < NextId /\ rowId[f] \in Nat
  BY <1>3 DEF IdsInOrder, OutboxTypeOK
<1>7. \A f \in Enqueued : rowId'[f] = rowId[f] /\ rowId[f] < rowId'[e]
  BY <1>1, <1>2, <1>6 DEF OutboxTypeOK
<1>8. \A f \in Events : rowId'[f] = IF f = e THEN NextId ELSE rowId[f]
  BY <1>1 DEF OutboxTypeOK
<1>9. ASSUME NEW f \in Events, NEW g \in Events,
             rowId'[f] > 0, rowId'[f] = rowId'[g]
      PROVE  f = g
  BY <1>6, <1>8, <1>9 DEF IdsInOrder
<1>10. \A f \in Events : rowId'[f] <= Cardinality(Enqueued')
  BY <1>3, <1>5, <1>6, <1>8
<1>11. /\ (rows \union discarded \union unpruned \union interrupted
             \subseteq Enqueued)'
       /\ (rows \intersect discarded = {})'
       /\ (unpruned \intersect interrupted = {})'
  BY <1>2, <1>4 DEF Insert, IdsInOrder
<1> QED BY <1>7, <1>9, <1>10, <1>11 DEF IdsInOrder

LEMMA InsertKeeps ==
  ASSUME OutboxInv, NEW e \in Events, Insert(e)
  PROVE  OutboxInv'
<1> USE DEF OutboxInv
<1>1. IdsInOrder' /\ \A f \in Enqueued : rowId'[f] = rowId[f] /\ rowId[f] < rowId'[e]
  BY InsertKeepsIds
<1>2. rows \union discarded \subseteq Enqueued
  BY DEF IdsInOrder
<1>3. PICK lag \in 0..MaxLag : age' = [age EXCEPT ![e] = lag]
  BY DEF Insert
<1>4. e \notin Enqueued
  BY DEF Insert, Enqueued
<1>5. NextId \in Nat
  BY FiniteEvents DEF NextId
<1>6. OutboxTypeOK'
  BY <1>3, <1>5 DEF Insert, OutboxTypeOK
<1>7. AgesFollowIds'
  <2> SUFFICES ASSUME NEW f \in rows', NEW g \in rows', rowId'[f] < rowId'[g]
               PROVE  age'[g] <= age'[f] + MaxLag
    BY DEF AgesFollowIds
  <2>1. f # e
    BY <1>1, <1>2, <1>6 DEF Insert, OutboxTypeOK, Enqueued
  <2>2. f \in rows /\ age'[f] = age[f]
    BY <1>3, <2>1 DEF Insert, OutboxTypeOK
  <2>3. CASE g = e
    BY <1>3, <2>2, <2>3 DEF OutboxTypeOK
  <2>4. CASE g # e
    <3>1. g \in rows /\ age'[g] = age[g]
      BY <1>3, <2>4 DEF Insert, OutboxTypeOK
    <3> QED BY <1>1, <1>2, <2>2, <3>1 DEF AgesFollowIds
  <2> QED BY <2>3, <2>4
<1>8. DiscardsOldest'
  <2> SUFFICES ASSUME NEW d \in discarded', NEW r \in rows'
               PROVE  rowId'[d] < rowId'[r] \/ age'[r] + MaxLag > MaxAge
    BY DEF DiscardsOldest
  <2>1. d \in discarded /\ d \in Enqueued /\ rowId'[d] = rowId[d]
    BY <1>1, <1>2 DEF Insert
  <2>2. CASE r = e
    BY <1>1, <2>1, <2>2
  <2>3. CASE r # e
    BY <1>1, <1>2, <1>3, <2>1, <2>3 DEF Insert, DiscardsOldest, OutboxTypeOK
  <2> QED BY <2>2, <2>3
<1> QED BY <1>1, <1>6, <1>7, <1>8

\* What every operation keeps that only takes rows out, those the cap does not
\* discard, ends an enqueue without its prune, or changes no more than attempts
\* and delays.
LEMMA OthersKeep ==
  ASSUME OutboxInv, OutboxTypeOK',
         rows' \subseteq rows, rowId' = rowId, discarded' = discarded,
         unpruned' \subseteq unpruned,
         interrupted' = interrupted \union (unpruned \ unpruned'),
         \A e \in rows' : age'[e] = age[e]
  PROVE  OutboxInv'
<1> USE DEF OutboxInv
<1>1. IdsInOrder'
  BY DEF IdsInOrder, Enqueued
<1>2. AgesFollowIds'
  BY DEF AgesFollowIds
<1>3. DiscardsOldest'
  BY DEF DiscardsOldest
<1> QED BY <1>1, <1>2, <1>3

LEMMA RemoveKeeps ==
  ASSUME OutboxInv, NEW e, Remove(e)
  PROVE  OutboxInv'
<1>1. /\ attempts' \in [Events -> 0..AttemptCap]
      /\ wait' \in [Events -> Nat]
      /\ age' \in [Events -> 0..(MaxAge + 1)]
      /\ \A f \in rows' : f \in Events => age'[f] = age[f]
  BY DEF Remove, Kept, OutboxInv, OutboxTypeOK
<1>2. OutboxTypeOK'
  BY <1>1 DEF Remove, OutboxInv, OutboxTypeOK
<1> QED BY <1>1, <1>2, OthersKeep DEF Remove, OutboxInv, OutboxTypeOK

LEMMA RescheduleKeeps ==
  ASSUME OutboxInv, NEW e, Reschedule(e)
  PROVE  OutboxInv'
<1>1. OutboxTypeOK'
  <2>1. CASE e \in rows
    <3>1. attempts[e] \in 0..AttemptCap
      BY <2>1 DEF OutboxInv, OutboxTypeOK
    <3>2. Backoff(attempts[e]) \in Nat /\ Least(attempts[e] + 1, AttemptCap) \in 0..AttemptCap
      BY <3>1, Ranges
    <3> QED BY <2>1, <3>2 DEF Reschedule, OutboxInv, OutboxTypeOK
  <2>2. CASE e \notin rows
    BY <2>2 DEF Reschedule, OutboxInv, OutboxTypeOK
  <2> QED BY <2>1, <2>2
<1> QED BY <1>1, OthersKeep DEF Reschedule

LEMMA DeferAllKeeps ==
  ASSUME OutboxInv, NEW seconds \in Nat, DeferAll(seconds)
  PROVE  OutboxInv'
<1>1. OutboxTypeOK'
  BY DEF DeferAll, OutboxInv, OutboxTypeOK
<1> QED BY <1>1, OthersKeep DEF DeferAll

LEMMA FailsKeeps ==
  ASSUME OutboxInv, NEW e, EnqueueFails(e)
  PROVE  OutboxInv'
<1>1. OutboxTypeOK'
  BY DEF EnqueueFails, OutboxInv, OutboxTypeOK, table
<1> QED BY <1>1, OthersKeep DEF EnqueueFails, table

LEMMA RestartKeeps ==
  ASSUME OutboxInv, OutboxRestart
  PROVE  OutboxInv'
<1>1. OutboxTypeOK'
  BY DEF OutboxRestart, OutboxInv, OutboxTypeOK, table
<1> QED BY <1>1, OthersKeep DEF OutboxRestart, table

\* Time makes all rows older alike, up to the age at which they all expire.
LEMMA TickKeeps ==
  ASSUME OutboxInv, OutboxTick
  PROVE  OutboxInv'
<1> USE DEF OutboxInv
<1>1. \A e \in rows : /\ age'[e] = IF age[e] < MaxAge + 1 THEN age[e] + 1 ELSE MaxAge + 1
                      /\ age[e] \in 0..(MaxAge + 1)
  BY DEF OutboxTick, OutboxTypeOK, Least
<1>2. OutboxTypeOK'
  <2>1. wait' \in [Events -> Nat]
    BY DEF OutboxTick, OutboxTypeOK
  <2>2. age' \in [Events -> 0..(MaxAge + 1)]
    BY Ranges DEF OutboxTick, OutboxTypeOK
  <2> QED BY <2>1, <2>2 DEF OutboxTick, OutboxTypeOK
<1>3. IdsInOrder'
  BY DEF OutboxTick, IdsInOrder, Enqueued
<1>4. AgesFollowIds'
  BY <1>1 DEF OutboxTick, AgesFollowIds
<1>5. DiscardsOldest'
  <2> SUFFICES ASSUME NEW d \in discarded, NEW r \in rows
               PROVE  rowId[d] < rowId[r] \/ age'[r] + MaxLag > MaxAge
    BY DEF OutboxTick, DiscardsOldest
  <2>1. rowId[d] < rowId[r] \/ age[r] + MaxLag > MaxAge
    BY DEF DiscardsOldest
  <2> QED BY <1>1, <2>1
<1> QED BY <1>2, <1>3, <1>4, <1>5

\* Both caps, one after the other.
LEMMA PruneKeeps ==
  ASSUME OutboxInv, NEW e, Prune(e)
  PROVE  OutboxInv'
<1> USE DEF OutboxInv
<1> DEFINE S == rows \ TooOld
<1>1. /\ rows' = Newest(S) /\ rows' \subseteq rows /\ S \in SUBSET Events
      /\ Pruned = TooOld \union Excess(S) /\ Pruned \subseteq rows
  BY DEF Prune, Pruned, Newest, Excess, TooOld, OutboxTypeOK
<1>2. \A f \in rows' : age'[f] = age[f] /\ age[f] \in 0..(MaxAge + 1)
  BY <1>1 DEF Prune, Kept, OutboxTypeOK
<1>4. OutboxTypeOK'
  <2>1. /\ attempts' \in [Events -> 0..AttemptCap]
        /\ wait' \in [Events -> Nat]
        /\ age' \in [Events -> 0..(MaxAge + 1)]
    BY DEF Prune, Kept, OutboxTypeOK
  <2>2. /\ rows' \subseteq Events /\ discarded' \subseteq Events
        /\ unpruned' \subseteq Events /\ interrupted' \subseteq Events
    BY <1>1 DEF Prune, OutboxTypeOK
  <2>3. UNCHANGED rowId
    BY DEF Prune
  <2> QED BY <2>1, <2>2, <2>3 DEF OutboxTypeOK
<1>5. IdsInOrder'
  BY <1>1 DEF Prune, IdsInOrder, Enqueued
<1>6. AgesFollowIds'
  BY <1>1, <1>2 DEF Prune, AgesFollowIds
<1>7. DiscardsOldest'
  <2> SUFFICES ASSUME NEW d \in discarded', NEW r \in rows'
               PROVE  rowId[d] < rowId[r] \/ age[r] + MaxLag > MaxAge
    BY <1>2 DEF Prune, DiscardsOldest
  <2>1. CASE d \in discarded
    BY <1>1, <2>1 DEF DiscardsOldest
  <2>2. CASE d \in TooOld
    <3>1. d \in rows /\ age[d] > MaxAge /\ r \in rows /\ r # d
      BY <1>1, <2>2 DEF TooOld, Newest
    <3>2. rowId[d] # rowId[r] /\ rowId[d] \in Nat /\ rowId[r] \in Nat
      BY <3>1 DEF IdsInOrder, Enqueued, OutboxTypeOK
    <3>3. rowId[r] < rowId[d] => age[d] <= age[r] + MaxLag
      BY <3>1 DEF AgesFollowIds
    <3> QED BY <1>2, <3>1, <3>2, <3>3 DEF OutboxTypeOK
  <2>3. CASE d \in Excess(S)
    <3>1. rowId[d] <= rowId[r]
      BY <1>1, <2>3, ExcessIsOldest
    <3>2. d \in rows /\ r \in rows /\ r # d
      BY <1>1, <2>3 DEF Newest, Excess
    <3> QED BY <3>1, <3>2 DEF IdsInOrder, Enqueued, OutboxTypeOK
  <2> QED BY <1>1, <2>1, <2>2, <2>3 DEF Prune
<1> QED BY <1>4, <1>5, <1>6, <1>7

----------------------------------------------------------------------------
(* The size of the table.                                                  *)

\* The enqueue calls that are not through, and those that never will be.
Loose == unpruned \union interrupted

LEMMA LooseAddsUp ==
  ASSUME OutboxInv
  PROVE  /\ Loose \in SUBSET Events
         /\ Cardinality(Loose) = Cardinality(unpruned) + Cardinality(interrupted)
         /\ SizeCapped <=> Cardinality(rows) <= MaxRows + Cardinality(Loose)
<1>1. unpruned \in SUBSET Events /\ interrupted \in SUBSET Events
  BY DEF OutboxInv, OutboxTypeOK
<1>2. Cardinality(unpruned \intersect interrupted) = 0
  <2>1. unpruned \intersect interrupted = {}
    BY DEF OutboxInv, IdsInOrder
  <2> QED BY <2>1, FS_EmptySet
<1>3. /\ IsFiniteSet(unpruned) /\ IsFiniteSet(interrupted)
      /\ Cardinality(unpruned) \in Nat /\ Cardinality(interrupted) \in Nat
  BY <1>1, FiniteEvents
<1>4. Cardinality(Loose) = Cardinality(unpruned) + Cardinality(interrupted)
  <2>1. Cardinality(unpruned \union interrupted)
          = Cardinality(unpruned) + Cardinality(interrupted)
            - Cardinality(unpruned \intersect interrupted)
    BY <1>3, FS_Union
  <2> QED BY <1>2, <1>3, <2>1 DEF Loose
<1>5. Cardinality(rows) \in Nat /\ Cardinality(Loose) \in Nat
  <2>1. rows \in SUBSET Events /\ Loose \in SUBSET Events
    BY <1>1 DEF OutboxInv, OutboxTypeOK, Loose
  <2> QED BY <2>1, FiniteEvents
<1>6. SizeCapped <=> Cardinality(rows) <= MaxRows + Cardinality(Loose)
  BY <1>3, <1>4, <1>5 DEF SizeCapped
<1> QED BY <1>1, <1>4, <1>6 DEF Loose

LEMMA InsertCaps ==
  ASSUME OutboxInv, SizeCapped, NEW e \in Events, Insert(e)
  PROVE  SizeCapped'
<1>1. e \notin rows /\ e \notin Loose
  BY DEF Insert, OutboxInv, IdsInOrder, Enqueued, Loose
<1>2. rows \in SUBSET Events /\ Loose \in SUBSET Events
  BY LooseAddsUp DEF OutboxInv, OutboxTypeOK
<1>3. /\ Cardinality(rows \union {e}) = Cardinality(rows) + 1
      /\ Cardinality(Loose \union {e}) = Cardinality(Loose) + 1
  BY <1>1, <1>2, FiniteEvents, FS_AddElement
<1>4. Cardinality(rows) \in Nat /\ Cardinality(Loose) \in Nat
  BY <1>2, FiniteEvents
<1>5. rows' = rows \union {e} /\ Loose' = Loose \union {e}
  BY DEF Insert, Loose
<1>6. Cardinality(rows') <= MaxRows + Cardinality(Loose')
  BY <1>3, <1>4, <1>5, LooseAddsUp
<1>7. (SizeCapped <=> Cardinality(rows) <= MaxRows + Cardinality(Loose))'
  <2>1. OutboxInv'
    BY InsertKeeps
  <2> QED BY <2>1, LooseAddsUp, PTL
<1> QED BY <1>6, <1>7

\* A finished _prune leaves the table within its cap, whatever was in it.
LEMMA PruneCaps ==
  ASSUME OutboxInv, NEW e, Prune(e)
  PROVE  SizeCapped'
<1> DEFINE S == rows \ TooOld
<1>1. rows' = Newest(S) /\ S \in SUBSET Events
  BY DEF Prune, Pruned, Newest, Excess, TooOld, OutboxInv, OutboxTypeOK
<1>2. \A f, g \in S : rowId[f] = rowId[g] => f = g
  BY <1>1 DEF OutboxInv, IdsInOrder, Enqueued
<1>3. Cardinality(rows') <= MaxRows
  BY <1>1, <1>2, NewestFitCap DEF OutboxInv
<1>4. Cardinality(unpruned') \in Nat /\ Cardinality(interrupted') \in Nat
  <2>1. unpruned' \in SUBSET Events /\ interrupted' \in SUBSET Events
    BY DEF Prune, OutboxInv, OutboxTypeOK
  <2> QED BY <2>1, FiniteEvents
<1>5. Cardinality(rows') \in Nat
  <2>1. rows' \in SUBSET Events
    BY <1>1 DEF Newest
  <2> QED BY <2>1, FiniteEvents
<1> QED BY <1>3, <1>4, <1>5 DEF SizeCapped

\* Nothing else adds a row, nor settles an enqueue.
LEMMA OthersCap ==
  ASSUME OutboxInv, OutboxInv', SizeCapped, rows' \subseteq rows, Loose' = Loose
  PROVE  SizeCapped'
<1>1. rows \in SUBSET Events /\ rows' \in SUBSET rows /\ Loose \in SUBSET Events
  BY LooseAddsUp DEF OutboxInv, OutboxTypeOK
<1>2. Cardinality(rows') <= Cardinality(rows)
  BY <1>1, Monotone
<1>3. /\ Cardinality(rows) \in Nat /\ Cardinality(rows') \in Nat
      /\ Cardinality(Loose) \in Nat
  BY <1>1, FiniteEvents
<1>4. (SizeCapped <=> Cardinality(rows) <= MaxRows + Cardinality(Loose))'
  BY LooseAddsUp, PTL
<1>5. Cardinality(rows) <= MaxRows + Cardinality(Loose)
  BY LooseAddsUp
<1> QED BY <1>2, <1>3, <1>4, <1>5

----------------------------------------------------------------------------
(* The outbox on its own.                                                  *)

LEMMA OutboxInitInv == OutboxInit => OutboxInv
<1> SUFFICES ASSUME OutboxInit PROVE OutboxInv
  OBVIOUS
<1>1. OutboxTypeOK
  BY DEF OutboxInit, OutboxTypeOK
<1>2. Cardinality(Enqueued) \in Nat
  BY FiniteEvents DEF Enqueued
<1>3. IdsInOrder
  BY <1>2 DEF OutboxInit, IdsInOrder
<1> QED BY <1>1, <1>3 DEF OutboxInit, OutboxInv, AgesFollowIds, DiscardsOldest

LEMMA OutboxStepKeeps == OutboxInv /\ [OutboxNext]_outboxVars => OutboxInv'
<1> SUFFICES ASSUME OutboxInv, [OutboxNext]_outboxVars PROVE OutboxInv'
  OBVIOUS
<1>1. ASSUME NEW e \in Events, Insert(e) \/ Prune(e) PROVE OutboxInv'
  BY <1>1, InsertKeeps, PruneKeeps
<1>2. ASSUME NEW e \in rows, Remove(e) \/ Reschedule(e) PROVE OutboxInv'
  BY <1>2, RemoveKeeps, RescheduleKeeps
<1>3. ASSUME NEW seconds \in 1..MaxRetryAfter, DeferAll(seconds) PROVE OutboxInv'
  BY <1>3, DeferAllKeeps
<1>4. ASSUME NEW e \in unpruned, EnqueueFails(e) PROVE OutboxInv'
  BY <1>4, FailsKeeps
<1>5. CASE OutboxTick
  BY <1>5, TickKeeps
<1>6. CASE UNCHANGED outboxVars
  BY <1>6 DEF outboxVars, OutboxInv, OutboxTypeOK, IdsInOrder, Enqueued,
              AgesFollowIds, DiscardsOldest
<1>7. CASE OutboxRestart
  BY <1>7, RestartKeeps
<1> QED BY <1>1, <1>2, <1>3, <1>4, <1>5, <1>6, <1>7 DEF OutboxNext

\* The table keeps its type and discards its oldest rows, whatever the order in
\* which threads call the outbox.
THEOREM DiscardsOldestAlways == OutboxSpec => [](OutboxTypeOK /\ DiscardsOldest)
<1>1. OutboxInv => OutboxTypeOK /\ DiscardsOldest
  BY DEF OutboxInv
<1> QED BY OutboxInitInv, OutboxStepKeeps, <1>1, PTL DEF OutboxSpec

LEMMA OutboxStepCaps ==
  OutboxInv /\ SizeCapped /\ [OutboxNext]_outboxVars => SizeCapped'
<1> SUFFICES ASSUME OutboxInv, SizeCapped, [OutboxNext]_outboxVars
             PROVE  SizeCapped'
  OBVIOUS
<1>1. ASSUME NEW e \in Events, Insert(e) PROVE SizeCapped'
  BY <1>1, InsertCaps
<1>2. ASSUME NEW e \in Events, Prune(e) PROVE SizeCapped'
  BY <1>2, PruneCaps
<1>3. ASSUME rows' \subseteq rows, Loose' = Loose PROVE SizeCapped'
  BY <1>3, OutboxStepKeeps, OthersCap
<1>4. ASSUME NEW e \in rows, Remove(e) \/ Reschedule(e) PROVE SizeCapped'
  BY <1>3, <1>4 DEF Remove, Reschedule, Loose
<1>5. ASSUME NEW seconds \in 1..MaxRetryAfter, DeferAll(seconds) PROVE SizeCapped'
  BY <1>3, <1>5 DEF DeferAll, Loose
<1>6. CASE OutboxRestart \/ OutboxTick \/ UNCHANGED outboxVars
  BY <1>3, <1>6 DEF OutboxRestart, OutboxTick, outboxVars, table, Loose
<1>7. ASSUME NEW e \in unpruned, EnqueueFails(e) PROVE SizeCapped'
  BY <1>3, <1>7 DEF EnqueueFails, table, Loose
<1> QED BY <1>1, <1>2, <1>4, <1>5, <1>6, <1>7 DEF OutboxNext

\* The table exceeds its cap by the enqueue calls at most that are running, or
\* that ended before their prune since the last one.
THEOREM SizeCappedAlways == OutboxSpec => []SizeCapped
<1>1. OutboxInit => SizeCapped
  <2>1. Cardinality({}) = 0
    BY FS_EmptySet
  <2> QED BY <2>1 DEF OutboxInit, SizeCapped
<1> QED BY OutboxInitInv, OutboxStepKeeps, OutboxStepCaps, <1>1, PTL DEF OutboxSpec

(***************************************************************************)
(* The client.                                                             *)
(***************************************************************************)
\* The program counters, the requests under way and the loop's locals agree.
ControlInv ==
  /\ \A e \in Events : wire[e] # "none" <=> pc[e] = "posting"
  /\ wire[Loop] # "none" <=> loopPc = "posting"
  /\ cur \in Events <=> loopPc \in {"posting", "remove", "reschedule", "defer"}
  /\ cur \notin batch
  /\ batch \subseteq Enqueued /\ (cur \in Events => cur \in Enqueued)
  /\ \A e \in Events : pc[e] \in {"new", "posting", "insert"} => e \notin Enqueued

\* An event that is on its way to being accepted is accounted for already.
CustodyInv ==
  /\ \A s \in Senders : wire[s] = "created" => stored[EventOf(s)] > 0
  /\ loopPc = "remove" => stored[cur] > 0
  /\ \A e \in Events :
       pc[e] \in {"prune", "defer", "true"} =>
         stored[e] > 0 \/ e \in rows \/ e \in discarded

\* The client still means to send a copy of e, or has one under way that the
\* server has not committed.
Pending(e) ==
  \/ pc[e] \in {"new", "insert"}
  \/ pc[e] = "posting" /\ wire[e] # "created"
  \/ /\ e \in rows \union batch \union {cur}
     /\ ~(cur = e /\ (loopPc = "remove" \/ wire[Loop] = "created"))

\* One copy is due to each event, none of which exists while one is pending.
CopiesInv ==
  \A e \in Events :
    stored[e] + late[e] <= ambiguous[e] + (IF Pending(e) THEN 0 ELSE 1)

\* A reply that was not read yet stands for a copy without a job.
ClipsInv ==
  /\ ClipsHaveEvents
  /\ \A s \in Senders :
       wire[s] = "created" => clips[EventOf(s)] < stored[EventOf(s)]

ClientInv == TypeOK /\ OutboxInv /\ ControlInv

USE ClientAssumption

----------------------------------------------------------------------------
(* Every step of the client is one operation of the outbox or leaves it.   *)

LEMMA StepKeepsOutbox ==
  ASSUME TypeOK, OutboxInv, [Next]_vars
  PROVE  OutboxInv'
<1>1. CASE UNCHANGED outboxVars
  BY <1>1 DEF outboxVars, OutboxInv, OutboxTypeOK, IdsInOrder, Enqueued,
              AgesFollowIds, DiscardsOldest
<1>2. ASSUME NEW s \in Senders, Resolves(s) \/ TimesOut(s) PROVE OutboxInv'
  BY <1>1, <1>2 DEF Resolves, VpsReceives, Unreachable, TimesOut
<1>3. ASSUME NEW e \in Events, VpsReceivesLate(e) \/ IngestPosts(e) PROVE OutboxInv'
  BY <1>1, <1>3 DEF VpsReceivesLate, IngestPosts
<1>4. ASSUME NEW e \in Events, Ingest(e) PROVE OutboxInv'
  <2>1. CASE IngestDelivered(e) \/ IngestRefused(e) \/ IngestRetryable(e)
    BY <1>1, <2>1 DEF IngestDelivered, IngestRefused, IngestRetryable
  <2>2. CASE IngestInserts(e)
    BY <2>2, InsertKeeps DEF IngestInserts
  <2>3. CASE IngestPrunes(e)
    BY <2>3, PruneKeeps DEF IngestPrunes
  <2>4. CASE IngestDefers(e)
    <3>1. hold[e] \in Nat
      BY DEF TypeOK, Senders
    <3> QED BY <2>4, <3>1, DeferAllKeeps DEF IngestDefers
  <2> QED BY <1>4, <2>1, <2>2, <2>3, <2>4 DEF Ingest
<1>5. CASE RetryLoop
  <2>1. CASE \/ LoopLists \/ (\E e \in Events : LoopPosts(e))
             \/ LoopDelivered \/ LoopStillFailing \/ LoopThrottled \/ LoopSleeps
    BY <1>1, <2>1 DEF LoopLists, LoopPosts, LoopDelivered, LoopStillFailing,
                      LoopThrottled, LoopSleeps
  <2>2. CASE LoopRemoves
    BY <2>2, RemoveKeeps DEF LoopRemoves
  <2>3. CASE LoopReschedules
    BY <2>3, RescheduleKeeps DEF LoopReschedules
  <2>4. CASE LoopDefers
    <3>1. hold[Loop] \in Nat
      BY DEF TypeOK, Senders
    <3> QED BY <2>4, <3>1, DeferAllKeeps DEF LoopDefers
  <2> QED BY <1>5, <2>1, <2>2, <2>3, <2>4 DEF RetryLoop
<1>6. ASSUME NEW e \in Events, IngestDbError(e) PROVE OutboxInv'
  <2>1. OutboxTypeOK'
    BY <1>6 DEF IngestDbError, EnqueueFails, OutboxInv, OutboxTypeOK, table
  <2> QED BY <1>6, FailsKeeps DEF IngestDbError
<1>7. CASE LoopDbError
  BY <1>1, <1>7 DEF LoopDbError
<1>8. CASE Restart
  BY <1>8, RestartKeeps DEF Restart
<1>9. CASE VpsChanges
  BY <1>1, <1>9 DEF VpsChanges
<1>10. CASE Tick
  BY <1>10, TickKeeps DEF Tick
<1>11. CASE UNCHANGED vars
  BY <1>1, <1>11 DEF vars
<1> QED BY <1>2, <1>3, <1>4, <1>5, <1>6, <1>7, <1>8, <1>9, <1>10, <1>11
        DEF Next, Faulty

\* Requests that are on their way are counted by a number.
LEMMA OrphansType == \A e \in Events : Orphans(e) \in Nat
<1> TAKE e \in Events
<1>1. IsFiniteSet(Senders)
  BY FS_AddElement DEF Senders
<1> QED BY <1>1, FS_Subset, FS_CardinalityType DEF Orphans

LEMMA EventOfType ==
  ASSUME ControlInv, NEW s \in Senders, wire[s] # "none"
  PROVE  EventOf(s) \in Events
BY DEF ControlInv, Senders, EventOf

LEMMA StepKeepsType ==
  ASSUME TypeOK, OutboxInv, ControlInv, [Next]_vars
  PROVE  TypeOK'
<1> OutboxTypeOK'
  BY StepKeepsOutbox DEF OutboxInv
<1> USE DEF TypeOK
<1>1. ASSUME NEW s \in Senders, Resolves(s) \/ TimesOut(s) PROVE TypeOK'
  <2>1. EventOf(s) \in Events
    BY <1>1, EventOfType DEF Resolves, VpsReceives, Unreachable, TimesOut
  <2>2. CASE VpsReceives(s)
    BY <2>1, <2>2 DEF VpsReceives
  <2>3. CASE Unreachable(s)
    BY <2>3 DEF Unreachable, serverVars
  <2>4. CASE TimesOut(s)
    BY <2>1, <2>4 DEF TimesOut, Fault
  <2> QED BY <1>1, <2>2, <2>3, <2>4 DEF Resolves
<1>2. ASSUME NEW e \in Events, VpsReceivesLate(e) PROVE TypeOK'
  BY <1>2 DEF VpsReceivesLate, clientVars
<1>3. ASSUME NEW e \in Events, IngestPosts(e) \/ Ingest(e) PROVE TypeOK'
  <2> e \in Senders
    BY DEF Senders
  <2> USE DEF Goto, Answered, serverVars
  <2>1. CASE IngestPosts(e) \/ IngestDelivered(e) \/ IngestRefused(e)
    BY <2>1 DEF IngestPosts, IngestDelivered, IngestRefused, EnqueueClip
  <2>2. CASE IngestRetryable(e)
    BY <2>2 DEF IngestRetryable
  <2>3. CASE IngestInserts(e) \/ IngestPrunes(e)
    BY <2>3 DEF IngestInserts, IngestPrunes
  <2>4. CASE IngestDefers(e)
    BY <2>4 DEF IngestDefers
  <2> QED BY <1>3, <2>1, <2>2, <2>3, <2>4 DEF Ingest
<1>4. CASE RetryLoop
  <2> Loop \in Senders
    BY DEF Senders
  <2> USE DEF Answered, PassEnds, serverVars
  <2>1. CASE LoopLists
    BY <2>1 DEF LoopLists, Due, OutboxTypeOK
  <2>2. ASSUME NEW e \in Events, LoopPosts(e) PROVE TypeOK'
    BY <2>2 DEF LoopPosts
  <2>3. CASE LoopDelivered \/ LoopStillFailing
    <3>1. CASE LoopDelivered
      BY <3>1 DEF LoopDelivered, EnqueueClip
    <3>2. CASE LoopStillFailing
      BY <3>2 DEF LoopStillFailing
    <3> QED BY <2>3, <3>1, <3>2
  <2>4. CASE LoopThrottled
    BY <2>4 DEF LoopThrottled
  <2>5. CASE LoopRemoves \/ LoopReschedules
    BY <2>5 DEF LoopRemoves, LoopReschedules
  <2>6. CASE LoopDefers \/ LoopSleeps
    BY <2>6 DEF LoopDefers, LoopSleeps
  <2> QED BY <1>4, <2>1, <2>2, <2>3, <2>4, <2>5, <2>6 DEF RetryLoop
<1>5. ASSUME NEW e \in Events, IngestDbError(e) PROVE TypeOK'
  BY <1>5 DEF IngestDbError, Fault, Goto, serverVars, Senders
<1>6. CASE LoopDbError
  <2>1. ambiguous' \in [Events -> Nat]
    BY <1>6 DEF LoopDbError, ControlInv
  <2>2. hold' \in [Senders -> 0..MaxRetryAfter]
    <3>1. hold \in [Senders -> 0..MaxRetryAfter] /\ 0 \in 0..MaxRetryAfter
      OBVIOUS
    <3>2. hold' = [hold EXCEPT ![Loop] = 0]
      BY <1>6 DEF LoopDbError
    <3> QED BY <3>1, <3>2
  <2>3. faults' \in Nat
    BY <1>6 DEF LoopDbError, Fault
  <2> QED BY <1>6, <2>1, <2>2, <2>3 DEF LoopDbError, PassEnds, serverVars
<1>7. CASE Restart
  <2>1. late' \in [Events -> Nat]
    BY <1>7, OrphansType DEF Restart
  <2>2. ambiguous' \in [Events -> Nat]
    <3>1. ambiguous' \in {ambiguous, [ambiguous EXCEPT ![cur] = @ + 1]}
      BY <1>7 DEF Restart
    <3>2. ambiguous \in [Events -> Nat]
      OBVIOUS
    <3> QED BY <3>1, <3>2
  <2>3. pc' \in [Events -> {"new", "posting", "insert", "prune", "defer", "true",
                           "false", "gone"}]
    BY <1>7 DEF Restart
  <2>4. /\ hold' \in [Senders -> 0..MaxRetryAfter]
        /\ wire' \in [Senders -> {"none", "request", "created", "refused",
                                  "throttled", "failed"}]
    BY <1>7 DEF Restart
  <2>5. faults' \in Nat
    BY <1>7 DEF Restart, Fault
  <2> QED BY <1>7, <2>1, <2>2, <2>3, <2>4, <2>5 DEF Restart, PassEnds
<1>8. CASE VpsChanges
  BY <1>8 DEF VpsChanges, clientVars
<1>9. CASE Tick \/ UNCHANGED vars
  BY <1>9 DEF Tick, clientVars, serverVars, vars
<1> QED BY <1>1, <1>2, <1>3, <1>4, <1>5, <1>6, <1>7, <1>8, <1>9 DEF Next, Faulty

\* An insert adds its event to those that were enqueued; nothing takes one out.
LEMMA InsertEnqueues ==
  ASSUME TypeOK, NEW e \in Events, Insert(e)
  PROVE  Enqueued' = Enqueued \union {e}
<1>1. NextId > 0
  BY FiniteEvents DEF NextId
<1>2. rowId \in [Events -> Nat] /\ rowId' = [rowId EXCEPT ![e] = NextId]
  BY DEF TypeOK, OutboxTypeOK, Insert
<1> QED BY <1>1, <1>2 DEF Enqueued

LEMMA StepKeepsControl ==
  ASSUME TypeOK, OutboxInv, ControlInv, [Next]_vars
  PROVE  ControlInv'
<1> USE DEF ControlInv
<1> wire \in [Senders -> {"none", "request", "created", "refused", "throttled", "failed"}]
    /\ Loop \in Senders /\ Events \subseteq Senders /\ Loop \notin Events
    /\ pc \in [Events -> {"new", "posting", "insert", "prune", "defer", "true",
                          "false", "gone"}]
  BY DEF TypeOK, Senders
<1>1. ASSUME NEW s \in Senders, Resolves(s) \/ TimesOut(s) PROVE ControlInv'
  <2>1. /\ wire[s] # "none"
        /\ \E v \in {"created", "refused", "throttled", "failed"} :
             wire' = [wire EXCEPT ![s] = v]
    BY <1>1 DEF Resolves, VpsReceives, Unreachable, TimesOut
  <2>2. UNCHANGED <<rowId, pc, loopPc, batch, cur>>
    BY <1>1 DEF Resolves, VpsReceives, Unreachable, TimesOut, outboxVars
  <2> QED BY <2>1, <2>2 DEF Enqueued
<1>2. ASSUME NEW e \in Events, IngestPosts(e) \/ Ingest(e) PROVE ControlInv'
  <2> USE DEF Goto, Answered
  <2>1. CASE IngestPosts(e)
    BY <2>1 DEF IngestPosts, Enqueued, outboxVars
  <2>2. CASE IngestDelivered(e) \/ IngestRefused(e)
    BY <2>2 DEF IngestDelivered, IngestRefused, Enqueued, outboxVars
  <2>3. CASE IngestRetryable(e)
    BY <2>3 DEF IngestRetryable, Enqueued, outboxVars
  <2>4. CASE IngestInserts(e)
    <3>1. Enqueued' = Enqueued \union {e}
      BY <2>4, InsertEnqueues DEF IngestInserts
    <3> HIDE DEF Enqueued
    <3> QED BY <2>4, <3>1 DEF IngestInserts
  <2>5. CASE IngestPrunes(e)
    BY <2>5 DEF IngestPrunes, Prune, Enqueued
  <2>6. CASE IngestDefers(e)
    BY <2>6 DEF IngestDefers, DeferAll, Enqueued
  <2> QED BY <1>2, <2>1, <2>2, <2>3, <2>4, <2>5, <2>6 DEF Ingest
<1>3. CASE RetryLoop
  <2> USE DEF Answered, PassEnds
  <2>1. CASE LoopLists
    BY <2>1 DEF LoopLists, Due, OutboxInv, IdsInOrder, Enqueued, outboxVars
  <2>2. ASSUME NEW e \in Events, LoopPosts(e) PROVE ControlInv'
    BY <2>2 DEF LoopPosts, Enqueued, outboxVars
  <2>3. CASE LoopDelivered \/ LoopStillFailing \/ LoopThrottled
    BY <2>3 DEF LoopDelivered, LoopStillFailing, LoopThrottled, Enqueued, outboxVars
  <2>4. CASE LoopRemoves
    BY <2>4 DEF LoopRemoves, Remove, Enqueued
  <2>5. CASE LoopReschedules
    BY <2>5 DEF LoopReschedules, Reschedule, Enqueued
  <2>6. CASE LoopDefers
    BY <2>6 DEF LoopDefers, DeferAll, Enqueued
  <2>7. CASE LoopSleeps
    BY <2>7 DEF LoopSleeps, Enqueued, outboxVars
  <2> QED BY <1>3, <2>1, <2>2, <2>3, <2>4, <2>5, <2>6, <2>7 DEF RetryLoop
<1>4. ASSUME NEW e \in Events, IngestDbError(e) PROVE ControlInv'
  BY <1>4 DEF IngestDbError, EnqueueFails, Goto, Enqueued, table
<1>5. CASE LoopDbError
  BY <1>5 DEF LoopDbError, PassEnds, Enqueued, outboxVars
<1>6. CASE Restart
  BY <1>6 DEF Restart, OutboxRestart, PassEnds, Enqueued, table
<1>7. ASSUME UNCHANGED <<rowId, wire, pc, loopPc, batch, cur>> PROVE ControlInv'
  BY <1>7 DEF Enqueued
<1>8. CASE VpsChanges \/ Tick \/ UNCHANGED vars
  BY <1>7, <1>8 DEF VpsChanges, Tick, OutboxTick, outboxVars, clientVars, vars
<1>9. ASSUME NEW e \in Events, VpsReceivesLate(e) PROVE ControlInv'
  BY <1>7, <1>9 DEF VpsReceivesLate, outboxVars, clientVars
<1> QED BY <1>1, <1>2, <1>3, <1>4, <1>5, <1>6, <1>8, <1>9 DEF Next, Faulty

LEMMA ClientInit == Init => ClientInv
<1> SUFFICES ASSUME Init PROVE ClientInv
  OBVIOUS
<1>1. OutboxInv
  BY OutboxInitInv DEF Init
<1>2. TypeOK
  BY <1>1 DEF Init, TypeOK, OutboxInv, Senders
<1>3. Enqueued = {}
  BY DEF Init, OutboxInit, Enqueued
<1>4. ControlInv
  BY <1>3 DEF Init, ControlInv, Senders
<1> QED BY <1>1, <1>2, <1>4 DEF ClientInv

LEMMA ClientStep == ClientInv /\ [Next]_vars => ClientInv'
BY StepKeepsOutbox, StepKeepsType, StepKeepsControl DEF ClientInv

\* Every variable keeps its type.
THEOREM TypeAlwaysOK == Spec => []TypeOK
<1>1. ClientInv => TypeOK
  BY DEF ClientInv
<1> QED BY ClientInit, ClientStep, <1>1, PTL DEF Spec

\* The retry loop and the ingest calls do not disturb the order in which the
\* outbox discards, nor do faults.
THEOREM ClientDiscardsOldest == Spec => []DiscardsOldest
<1>1. ClientInv => DiscardsOldest
  BY DEF ClientInv, OutboxInv
<1> QED BY ClientInit, ClientStep, <1>1, PTL DEF Spec

----------------------------------------------------------------------------
(* No accepted event is lost.                                              *)

\* A committed copy stays, and a row leaves the queue only as a committed or a
\* discarded event.
LEMMA StoredGrows ==
  ASSUME ClientInv, [Next]_vars
  PROVE  \A e \in Events : stored[e] \in Nat /\ stored'[e] \in Nat /\ stored[e] <= stored'[e]
<1> stored \in [Events -> Nat] /\ stored' \in [Events -> Nat]
  BY ClientStep DEF ClientInv, TypeOK
<1>1. ASSUME NEW s \in Senders, VpsReceives(s)
      PROVE  \A e \in Events : stored[e] <= stored'[e]
  BY <1>1 DEF VpsReceives
<1>2. ASSUME NEW e \in Events, VpsReceivesLate(e)
      PROVE  \A f \in Events : stored[f] <= stored'[f]
  BY <1>2 DEF VpsReceivesLate
<1>3. ASSUME stored' = stored PROVE \A e \in Events : stored[e] <= stored'[e]
  BY <1>3
<1>4. ASSUME NEW e \in Events, IngestPosts(e) \/ Ingest(e) PROVE stored' = stored
  BY <1>4 DEF IngestPosts, Ingest, IngestDelivered, IngestRefused, IngestRetryable,
              IngestInserts, IngestPrunes, IngestDefers, serverVars
<1>5. CASE RetryLoop
  BY <1>3, <1>5 DEF RetryLoop, LoopLists, LoopPosts, LoopDelivered,
     LoopStillFailing, LoopThrottled, LoopRemoves, LoopReschedules, LoopDefers,
     LoopSleeps, serverVars
<1>6. CASE Faulty
  BY <1>3, <1>6 DEF Faulty, TimesOut, IngestDbError, LoopDbError, Restart, serverVars
<1>7. ASSUME NEW s \in Senders, Unreachable(s) PROVE stored' = stored
  BY <1>7 DEF Unreachable, serverVars
<1>8. CASE VpsChanges \/ Tick \/ UNCHANGED vars
  BY <1>3, <1>8 DEF VpsChanges, Tick, serverVars, vars
<1> QED BY <1>1, <1>2, <1>3, <1>4, <1>5, <1>6, <1>7, <1>8 DEF Next, Resolves

LEMMA RowsAccounted ==
  ASSUME ClientInv, CustodyInv, [Next]_vars
  PROVE  /\ discarded \subseteq discarded'
         /\ \A e \in rows : e \in rows' \/ e \in discarded' \/ stored[e] > 0
<1> DEFINE Goal == /\ discarded \subseteq discarded'
                   /\ \A e \in rows : e \in rows' \/ e \in discarded' \/ stored[e] > 0
<1>1. ASSUME rows \subseteq rows', discarded' = discarded PROVE Goal
  BY <1>1
<1>2. ASSUME NEW e \in Events, IngestPosts(e) \/ Ingest(e) PROVE Goal
  <2>1. CASE IngestPrunes(e)
    BY <2>1 DEF IngestPrunes, Prune
  <2>2. CASE IngestInserts(e) \/ IngestDefers(e)
    BY <1>1, <2>2 DEF IngestInserts, IngestDefers, Insert, DeferAll
  <2>3. CASE \/ IngestPosts(e) \/ IngestDelivered(e) \/ IngestRefused(e)
             \/ IngestRetryable(e)
    BY <1>1, <2>3 DEF IngestPosts, IngestDelivered, IngestRefused, IngestRetryable,
                      outboxVars
  <2> QED BY <1>2, <2>1, <2>2, <2>3 DEF Ingest
<1>3. CASE RetryLoop
  <2>1. CASE LoopRemoves
    BY <2>1 DEF LoopRemoves, Remove, CustodyInv
  <2>2. CASE LoopReschedules \/ LoopDefers
    BY <1>1, <2>2 DEF LoopReschedules, LoopDefers, Reschedule, DeferAll
  <2>3. CASE \/ LoopLists \/ (\E e \in Events : LoopPosts(e))
             \/ LoopDelivered \/ LoopStillFailing \/ LoopThrottled \/ LoopSleeps
    BY <1>1, <2>3 DEF LoopLists, LoopPosts, LoopDelivered, LoopStillFailing,
                      LoopThrottled, LoopSleeps, outboxVars
  <2> QED BY <1>3, <2>1, <2>2, <2>3 DEF RetryLoop
<1>4. CASE Faulty
  BY <1>1, <1>4 DEF Faulty, TimesOut, IngestDbError, EnqueueFails, LoopDbError,
                    Restart, OutboxRestart, outboxVars, table
<1>5. CASE \/ \E s \in Senders : Resolves(s)
           \/ \E e \in Events : VpsReceivesLate(e)
           \/ VpsChanges \/ Tick \/ UNCHANGED vars
  BY <1>1, <1>5 DEF Resolves, VpsReceives, Unreachable, VpsReceivesLate,
                    VpsChanges, Tick, OutboxTick, vars, outboxVars
<1> QED BY <1>2, <1>3, <1>4, <1>5 DEF Next

\* Where a step comes from that leaves a commit unread, a delivered row queued
\* or an event taken care of.
LEMMA Origins ==
  ASSUME ClientInv, [Next]_vars
  PROVE  /\ \A s \in Senders : wire'[s] = "created" =>
              \/ wire[s] = "created" /\ EventOf(s)' = EventOf(s)
              \/ VpsReceives(s)
         /\ loopPc' = "remove" => (loopPc = "remove" /\ cur' = cur) \/ LoopDelivered
         /\ \A e \in Events : pc'[e] \in {"prune", "defer", "true"} =>
              \/ pc[e] \in {"prune", "defer", "true"}
              \/ IngestDelivered(e) \/ IngestInserts(e)
<1> DEFINE
      Created == \A s \in Senders : wire'[s] = "created" =>
                   \/ wire[s] = "created" /\ EventOf(s)' = EventOf(s)
                   \/ VpsReceives(s)
      Removing == loopPc' = "remove" => (loopPc = "remove" /\ cur' = cur) \/ LoopDelivered
      Taken == \A e \in Events : pc'[e] \in {"prune", "defer", "true"} =>
                   \/ pc[e] \in {"prune", "defer", "true"}
                   \/ IngestDelivered(e) \/ IngestInserts(e)
<1> USE DEF EventOf
<1> Loop \notin Events /\ Senders = Events \union {Loop} /\ (wire[Loop] # "none" => loopPc = "posting")
    /\ wire \in [Senders -> {"none", "request", "created", "refused", "throttled", "failed"}]
    /\ pc \in [Events -> {"new", "posting", "insert", "prune", "defer", "true",
                          "false", "gone"}]
  BY DEF ClientInv, ControlInv, TypeOK, Senders
<1>1. ASSUME wire' = wire, cur' = cur, loopPc' = loopPc, pc' = pc
      PROVE  Created /\ Removing /\ Taken
  BY <1>1
<1>2. ASSUME NEW s \in Senders, Resolves(s) \/ TimesOut(s)
      PROVE  Created /\ Removing /\ Taken
  <2>1. UNCHANGED <<pc, loopPc, cur>>
    BY <1>2 DEF Resolves, VpsReceives, Unreachable, TimesOut
  <2>2. CASE VpsReceives(s)
    <3>1. \A u \in Senders \ {s} : wire'[u] = wire[u]
      BY <2>2 DEF VpsReceives
    <3> QED BY <2>1, <2>2, <3>1
  <2>3. CASE Unreachable(s) \/ TimesOut(s)
    <3>1. wire' = [wire EXCEPT ![s] = "failed"]
      BY <2>3 DEF Unreachable, TimesOut
    <3> QED BY <2>1, <3>1
  <2> QED BY <1>2, <2>2, <2>3 DEF Resolves
<1>3. ASSUME NEW e \in Events, IngestPosts(e) \/ Ingest(e)
      PROVE  Created /\ Removing /\ Taken
  <2>1. /\ UNCHANGED <<loopPc, cur>>
        /\ \/ wire' = wire
           \/ \E v \in {"none", "request"} : wire' = [wire EXCEPT ![e] = v]
    BY <1>3 DEF IngestPosts, Ingest, IngestDelivered, IngestRefused, IngestRetryable,
                IngestInserts, IngestPrunes, IngestDefers, Answered
  <2>2. Created /\ Removing
    BY <2>1
  <2>3. Taken
    BY <1>3 DEF IngestPosts, Ingest, IngestDelivered, IngestRefused, IngestRetryable,
                IngestInserts, IngestPrunes, IngestDefers, Goto
  <2> QED BY <2>2, <2>3
<1>4. CASE RetryLoop
  <2>1. /\ pc' = pc
        /\ \/ wire' = wire /\ loopPc # "posting" /\ wire[Loop] = "none"
           \/ \E v \in {"none", "request"} : wire' = [wire EXCEPT ![Loop] = v]
    BY <1>4 DEF RetryLoop, LoopLists, LoopPosts, LoopDelivered, LoopStillFailing,
       LoopThrottled, LoopRemoves, LoopReschedules, LoopDefers, LoopSleeps, Answered
  <2>2. Created /\ Taken
    BY <2>1
  <2>3. Removing
    BY <1>4 DEF RetryLoop, LoopLists, LoopPosts, LoopDelivered, LoopStillFailing,
       LoopThrottled, LoopRemoves, LoopReschedules, LoopDefers, LoopSleeps, PassEnds
  <2> QED BY <2>2, <2>3
<1>5. ASSUME NEW e \in Events, IngestDbError(e) PROVE Created /\ Removing /\ Taken
  BY <1>5 DEF IngestDbError, Goto
<1>6. CASE LoopDbError \/ Restart
  <2>1. loopPc' = "asleep" /\ (wire'[Loop] = "none")
    BY <1>6 DEF LoopDbError, Restart, PassEnds
  <2>2. Removing
    BY <2>1
  <2>3. Taken
    BY <1>6 DEF LoopDbError, Restart
  <2>4. Created
    BY <1>6, <2>1 DEF LoopDbError, Restart
  <2> QED BY <2>2, <2>3, <2>4
<1>7. ASSUME NEW e \in Events, VpsReceivesLate(e) PROVE Created /\ Removing /\ Taken
  BY <1>1, <1>7 DEF VpsReceivesLate, clientVars
<1>8. CASE VpsChanges \/ Tick \/ UNCHANGED vars
  BY <1>1, <1>8 DEF VpsChanges, Tick, clientVars, vars
<1> QED BY <1>2, <1>3, <1>4, <1>5, <1>6, <1>7, <1>8 DEF Next, Faulty

LEMMA StepKeepsCustody ==
  ASSUME ClientInv, CustodyInv, [Next]_vars
  PROVE  CustodyInv'
<1> USE DEF CustodyInv
<1>1. \A e \in Events : stored[e] > 0 => stored'[e] > 0
  BY StoredGrows
<1>2. ASSUME NEW s \in Senders, wire'[s] = "created" PROVE stored'[EventOf(s)'] > 0
  <2>1. CASE wire[s] = "created" /\ EventOf(s)' = EventOf(s)
    BY <1>1, <2>1, EventOfType DEF ClientInv
  <2>2. CASE VpsReceives(s)
    <3>1. EventOf(s) \in Events /\ EventOf(s)' = EventOf(s)
      BY <2>2, EventOfType DEF VpsReceives, EventOf, ClientInv
    <3>2. wire[s] # "created" /\ wire \in [Senders -> {"none", "request", "created",
            "refused", "throttled", "failed"}]
      BY <2>2 DEF VpsReceives, ClientInv, TypeOK
    <3>3. stored' = [stored EXCEPT ![EventOf(s)] = @ + 1]
      BY <1>2, <2>2, <3>2 DEF VpsReceives
    <3>4. stored \in [Events -> Nat]
      BY DEF ClientInv, TypeOK
    <3> QED BY <3>1, <3>3, <3>4
  <2> QED BY <1>2, <2>1, <2>2, Origins
<1>3. ASSUME loopPc' = "remove" PROVE stored'[cur'] > 0
  <2>1. CASE loopPc = "remove" /\ cur' = cur
    BY <1>1, <2>1 DEF ClientInv, ControlInv
  <2>2. CASE LoopDelivered
    <3>1. wire[Loop] = "created" /\ cur' = cur /\ stored' = stored /\ Loop \in Senders
      BY <2>2 DEF LoopDelivered, serverVars, Senders
    <3> QED BY <3>1 DEF EventOf
  <2> QED BY <1>3, <2>1, <2>2, Origins
<1>4. ASSUME NEW e \in Events, pc'[e] \in {"prune", "defer", "true"}
      PROVE  stored'[e] > 0 \/ e \in rows' \/ e \in discarded'
  <2>1. CASE pc[e] \in {"prune", "defer", "true"}
    BY <1>1, <2>1, RowsAccounted
  <2>2. CASE IngestDelivered(e)
    <3>1. e \in Senders /\ e # Loop
      BY DEF Senders
    <3> QED BY <1>1, <2>2, <3>1 DEF IngestDelivered, EventOf
  <2>3. CASE IngestInserts(e)
    BY <2>3 DEF IngestInserts, Insert
  <2> QED BY <1>4, <2>1, <2>2, <2>3, Origins
<1> QED BY <1>2, <1>3, <1>4

LEMMA CustodyInit == Init => CustodyInv
BY DEF Init, CustodyInv, Senders

\* Every event whose plugin was told True is committed, queued or discarded by
\* the cap: through outages, lost replies, failed transactions and restarts.
THEOREM AcceptedNeverLost == Spec => []AcceptedNotLost
<1>1. ClientInv /\ CustodyInv => AcceptedNotLost
  BY DEF CustodyInv, AcceptedNotLost
<1>2. ClientInv /\ CustodyInv /\ [Next]_vars => ClientInv' /\ CustodyInv'
  BY ClientStep, StepKeepsCustody
<1> QED BY ClientInit, CustodyInit, <1>1, <1>2, PTL DEF Spec

----------------------------------------------------------------------------
(* Surplus copies come from tries that ended in doubt, and from nothing    *)
(* else.                                                                   *)

\* An event's own call and the retry loop never send it at the same time.
LEMMA OneSender ==
  ASSUME ClientInv, NEW e \in Events, pc[e] \in {"new", "posting", "insert"}
  PROVE  e \notin rows \union batch \union {cur}
BY DEF ClientInv, ControlInv, OutboxInv, IdsInOrder

\* No step that leaves the counts alone makes an event pending again.
LEMMA NothingPendsAgain ==
  ASSUME ClientInv, [Next]_vars, ambiguous' = ambiguous,
         stored' = stored, late' = late
  PROVE  \A e \in Events : Pending(e)' => Pending(e)
<1> DEFINE Goal == \A e \in Events : Pending(e)' => Pending(e)
<1> USE DEF Pending
<1> Loop \notin Events /\ Senders = Events \union {Loop}
    /\ (wire[Loop] # "none" => loopPc = "posting")
    /\ (\A e \in Events : wire[e] # "none" => pc[e] = "posting")
    /\ (cur \in Events => loopPc # "next" /\ loopPc # "asleep")
    /\ cur \notin batch
    /\ wire \in [Senders -> {"none", "request", "created", "refused", "throttled", "failed"}]
    /\ pc \in [Events -> {"new", "posting", "insert", "prune", "defer", "true",
                          "false", "gone"}]
  BY DEF ClientInv, ControlInv, TypeOK, Senders
<1>1. ASSUME pc' = pc, wire' = wire, rows' \subseteq rows, batch' \subseteq batch,
             cur' = cur, loopPc' = loopPc
      PROVE  Goal
  BY <1>1
<1>2. ASSUME NEW s \in Senders, Resolves(s) \/ TimesOut(s) PROVE Goal
  <2>1. CASE VpsReceives(s)
    BY <2>1 DEF VpsReceives, outboxVars
  <2>2. CASE Unreachable(s) \/ TimesOut(s)
    <3>1. wire' = [wire EXCEPT ![s] = "failed"] /\ wire[s] = "request"
          /\ UNCHANGED <<pc, rows, batch, cur, loopPc>>
      <4>1. CASE Unreachable(s)
        BY <4>1 DEF Unreachable, outboxVars
      <4>2. CASE TimesOut(s)
        BY <4>2, EventOfType DEF TimesOut, ClientInv, TypeOK
      <4> QED BY <2>2, <4>1, <4>2
    <3> QED BY <3>1
  <2> QED BY <1>2, <2>1, <2>2 DEF Resolves
<1>3. ASSUME NEW e \in Events, IngestPosts(e) \/ Ingest(e) PROVE Goal
  <2> USE DEF Goto, Answered
  <2>1. CASE IngestPosts(e) \/ IngestRetryable(e)
    BY <2>1 DEF IngestPosts, IngestRetryable, outboxVars
  <2>2. CASE IngestDelivered(e) \/ IngestRefused(e)
    BY <2>2, OneSender DEF IngestDelivered, IngestRefused, outboxVars
  <2>3. CASE IngestInserts(e)
    BY <2>3 DEF IngestInserts, Insert
  <2>4. CASE IngestPrunes(e) \/ IngestDefers(e)
    BY <2>4 DEF IngestPrunes, IngestDefers, Prune, DeferAll
  <2> QED BY <1>3, <2>1, <2>2, <2>3, <2>4 DEF Ingest
<1>4. CASE RetryLoop
  <2> USE DEF Answered, PassEnds
  <2>1. CASE LoopLists
    BY <2>1 DEF LoopLists, Due, outboxVars
  <2>2. ASSUME NEW e \in Events, LoopPosts(e) PROVE Goal
    BY <2>2 DEF LoopPosts, outboxVars
  <2>3. CASE LoopDelivered \/ LoopStillFailing \/ LoopThrottled
    BY <2>3 DEF LoopDelivered, LoopStillFailing, LoopThrottled, outboxVars
  <2>4. CASE LoopRemoves \/ LoopReschedules
    BY <2>4 DEF LoopRemoves, LoopReschedules, Remove, Reschedule
  <2>5. CASE LoopDefers \/ LoopSleeps
    BY <2>5 DEF LoopDefers, LoopSleeps, DeferAll, outboxVars
  <2> QED BY <1>4, <2>1, <2>2, <2>3, <2>4, <2>5 DEF RetryLoop
<1>5. ASSUME NEW e \in Events, IngestDbError(e) PROVE Goal
  BY <1>5 DEF IngestDbError, EnqueueFails, Goto, table
<1>6. CASE LoopDbError
  <2>1. loopPc # "remove"
    BY <1>6 DEF LoopDbError, ClientInv, TypeOK, ControlInv
  <2> QED BY <1>6, <2>1 DEF LoopDbError, PassEnds, outboxVars
<1>7. CASE Restart
  <2>1. loopPc # "remove" /\ wire[Loop] \notin {"request", "created"}
    BY <1>7 DEF Restart, ClientInv, TypeOK, ControlInv
  <2> QED BY <1>7, <2>1 DEF Restart, OutboxRestart, PassEnds, table
<1>8. ASSUME NEW e \in Events, VpsReceivesLate(e) PROVE Goal
  BY <1>1, <1>8 DEF VpsReceivesLate, outboxVars, clientVars
<1>9. CASE VpsChanges \/ Tick \/ UNCHANGED vars
  BY <1>1, <1>9 DEF VpsChanges, Tick, OutboxTick, outboxVars, clientVars, vars
<1> QED BY <1>2, <1>3, <1>4, <1>5, <1>6, <1>7, <1>8, <1>9 DEF Next, Faulty

\* At most one request for an event is on its way.
LEMMA OrphansAtMostOne ==
  ASSUME ClientInv, NEW e \in Events
  PROVE  /\ Orphans(e) \in {0, 1}
         /\ Orphans(e) = 1 => \/ wire[e] = "request"
                              \/ cur = e /\ wire[Loop] = "request"
<1> DEFINE S == {s \in Senders : EventOf(s) = e /\ wire[s] = "request"}
<1>1. \A s \in S : \/ s = e /\ wire[e] = "request"
                   \/ s = Loop /\ cur = e /\ wire[Loop] = "request"
  BY DEF EventOf, Senders
<1>2. ~(wire[e] = "request" /\ cur = e)
  BY OneSender DEF ClientInv, ControlInv
<1>3. S = {} \/ \E s \in S : S = {s}
  BY <1>1, <1>2
<1>4. (Cardinality(S) = 0 /\ S = {}) \/ (Cardinality(S) = 1 /\ S # {})
  BY <1>3, FS_EmptySet, FS_Singleton
<1>5. Orphans(e) = Cardinality(S)
  BY DEF Orphans
<1> HIDE DEF S
<1> QED BY <1>1, <1>4, <1>5

LEMMA StepKeepsCopies ==
  ASSUME ClientInv, CopiesInv, [Next]_vars
  PROVE  CopiesInv'
<1> DEFINE Bound(e) == stored[e] + late[e]
                         <= ambiguous[e] + (IF Pending(e) THEN 0 ELSE 1)
<1> /\ Loop \notin Events /\ Senders = Events \union {Loop} /\ (wire[Loop] # "none" => loopPc = "posting")
    /\ (\A e \in Events : wire[e] # "none" => pc[e] = "posting")
    /\ wire \in [Senders -> {"none", "request", "created", "refused", "throttled", "failed"}]
    /\ stored \in [Events -> Nat] /\ late \in [Events -> Nat] /\ ambiguous \in [Events -> Nat]
  BY DEF ClientInv, ControlInv, TypeOK, Senders
<1>1. \A e \in Events : Bound(e)
  BY DEF CopiesInv
<1>2. ASSUME ambiguous' = ambiguous, stored' = stored, late' = late PROVE CopiesInv'
  BY <1>1, <1>2, NothingPendsAgain DEF CopiesInv
<1>3. ASSUME NEW s \in Senders, VpsReceives(s) PROVE CopiesInv'
  <2> PICK x \in Events : x = EventOf(s)
    BY <1>3, EventOfType DEF VpsReceives, ClientInv
  <2>1. CASE wire' = [wire EXCEPT ![s] = "created"] /\ stored' = [stored EXCEPT ![x] = @ + 1]
    <3>1. wire[s] = "request"
      BY <1>3 DEF VpsReceives
    <3>2. UNCHANGED <<pc, rows, batch, cur, loopPc, late, ambiguous>>
      BY <1>3 DEF VpsReceives, outboxVars
    <3>3. Pending(x) /\ ~Pending(x)'
      <4>1. CASE s = Loop
        <5>1. x = cur /\ loopPc = "posting" /\ x \in Enqueued /\ wire'[Loop] = "created"
          BY <2>1, <3>1, <4>1 DEF EventOf, ClientInv, ControlInv
        <5>2. pc[x] \notin {"new", "posting", "insert"}
          BY <3>1, <5>1 DEF ClientInv, ControlInv
        <5> QED BY <3>1, <3>2, <4>1, <5>1, <5>2 DEF Pending
      <4>2. CASE s \in Events
        <5>1. x = s /\ pc[x] = "posting" /\ wire'[x] = "created"
          BY <2>1, <3>1, <4>2 DEF EventOf
        <5>2. x \notin rows \union batch \union {cur}
          BY <3>1, <5>1, OneSender
        <5> QED BY <3>1, <3>2, <5>1, <5>2 DEF Pending
      <4> QED BY <4>1, <4>2
    <3>4. \A e \in Events \ {x} : Pending(e)' = Pending(e)
      BY <2>1, <3>2, <3>1 DEF Pending, EventOf
    <3>5. \A e \in Events : Bound(e)'
      BY <1>1, <2>1, <3>1, <3>2, <3>3, <3>4
    <3> QED BY <3>5 DEF CopiesInv
  <2>2. CASE stored' = stored
    BY <1>2, <1>3, <2>2 DEF VpsReceives
  <2> QED BY <1>3, <2>1, <2>2 DEF VpsReceives
<1>4. ASSUME NEW s \in Senders, TimesOut(s) PROVE CopiesInv'
  <2> PICK x \in Events : x = EventOf(s)
    BY <1>4, EventOfType DEF TimesOut, ClientInv
  <2>1. wire[s] \in {"request", "created"}
    BY <1>4 DEF TimesOut
  <2>2. /\ ambiguous' = [ambiguous EXCEPT ![x] = @ + 1]
        /\ late' = [late EXCEPT ![x] = IF wire[s] = "request" THEN @ + 1 ELSE @]
        /\ wire' = [wire EXCEPT ![s] = "failed"]
        /\ UNCHANGED <<stored, pc, rows, batch, cur, loopPc>>
    BY <1>4 DEF TimesOut, outboxVars
  <2>3. wire[s] = "request" => Pending(x)
    BY <2>1 DEF Pending, EventOf, ClientInv, ControlInv
  <2>4. \A e \in Events \ {x} : Pending(e)' = Pending(e)
    BY <2>1, <2>2 DEF Pending, EventOf
  <2>5. ASSUME NEW e \in Events PROVE Bound(e)'
    <3>1. CASE e # x
      BY <1>1, <2>2, <2>4, <3>1
    <3>2. CASE e = x /\ wire[s] = "request"
      BY <1>1, <2>1, <2>2, <2>3, <3>2
    <3>3. CASE e = x /\ wire[s] # "request"
      BY <1>1, <2>1, <2>2, <3>3
    <3> QED BY <3>1, <3>2, <3>3
  <2> QED BY <2>5 DEF CopiesInv
<1>5. ASSUME NEW e \in Events, VpsReceivesLate(e) PROVE CopiesInv'
  <2>1. UNCHANGED <<pc, rows, batch, cur, loopPc, wire, ambiguous>>
    BY <1>5 DEF VpsReceivesLate, clientVars, outboxVars
  <2>2. \A f \in Events : Pending(f)' = Pending(f)
    BY <2>1 DEF Pending
  <2>3. \A f \in Events : stored'[f] + late'[f] <= stored[f] + late[f]
    BY <1>5 DEF VpsReceivesLate
  <2>4. \A f \in Events : stored'[f] \in Nat /\ late'[f] \in Nat
    BY ClientStep DEF ClientInv, TypeOK
  <2>5. \A f \in Events : Bound(f)'
    BY <1>1, <2>1, <2>2, <2>3, <2>4
  <2> QED BY <2>5 DEF CopiesInv
<1>6. CASE LoopDbError
  <2>1. CASE loopPc = "remove"
    <3>1. /\ cur \in Events /\ ambiguous' = [ambiguous EXCEPT ![cur] = @ + 1]
          /\ UNCHANGED <<stored, late, pc, wire, rows>>
          /\ cur' = Loop /\ batch' = {} /\ loopPc' = "asleep"
      BY <1>6, <2>1 DEF LoopDbError, PassEnds, serverVars, outboxVars, ClientInv,
                        ControlInv
    <3>2. \A e \in Events \ {cur} : Pending(e)' => Pending(e)
      BY <3>1 DEF Pending
    <3>3. \A e \in Events : Bound(e)'
      BY <1>1, <3>1, <3>2
    <3> QED BY <3>3 DEF CopiesInv
  <2>2. CASE loopPc # "remove"
    BY <1>2, <1>6, <2>2 DEF LoopDbError, serverVars
  <2> QED BY <2>1, <2>2
<1>7. CASE Restart
  <2> DEFINE Doubt(e) == cur = e /\ (wire[Loop] \in {"request", "created"} \/ loopPc = "remove")
  <2>1. /\ late' = [e \in Events |-> late[e] + Orphans(e)]
        /\ cur' = Loop /\ batch' = {} /\ rows' = rows /\ stored' = stored
        /\ wire' = [s \in Senders |-> "none"]
        /\ pc' = [e \in Events |-> IF pc[e] \in {"new", "true", "false"}
                                     THEN pc[e] ELSE "gone"]
    BY <1>7 DEF Restart, OutboxRestart, PassEnds, table
  <2>2. \A e \in Events : ambiguous'[e] = IF Doubt(e) THEN ambiguous[e] + 1 ELSE ambiguous[e]
    BY <1>7 DEF Restart
  <2>3. ASSUME NEW e \in Events PROVE Bound(e)'
    <3>1. Pending(e)' => Pending(e) \/ Doubt(e)
      BY <2>1 DEF Pending
    <3>2. CASE Orphans(e) = 0
      BY <1>1, <2>1, <2>2, <3>1, <3>2
    <3>3. CASE wire[e] = "request" /\ Orphans(e) = 1
      <4>1. pc[e] = "posting" /\ e \notin rows
        BY <3>3, OneSender
      <4>2. Pending(e) /\ ~Pending(e)'
        BY <2>1, <3>3, <4>1 DEF Pending
      <4> QED BY <1>1, <2>1, <2>2, <3>3, <4>2
    <3>4. CASE cur = e /\ wire[Loop] = "request" /\ Orphans(e) = 1
      <4>1. Pending(e) /\ Doubt(e)
        BY <3>4 DEF Pending
      <4> QED BY <1>1, <2>1, <2>2, <3>4, <4>1
    <3> QED BY <3>2, <3>3, <3>4, OrphansAtMostOne
  <2> QED BY <2>3 DEF CopiesInv
<1>8. ASSUME NEW s \in Senders, Unreachable(s) PROVE CopiesInv'
  BY <1>2, <1>8 DEF Unreachable, serverVars
<1>9. ASSUME NEW e \in Events, IngestPosts(e) \/ Ingest(e) PROVE CopiesInv'
  BY <1>2, <1>9 DEF IngestPosts, Ingest, IngestDelivered, IngestRefused,
     IngestRetryable, IngestInserts, IngestPrunes, IngestDefers, serverVars
<1>10. CASE RetryLoop
  BY <1>2, <1>10 DEF RetryLoop, LoopLists, LoopPosts, LoopDelivered,
     LoopStillFailing, LoopThrottled, LoopRemoves, LoopReschedules, LoopDefers,
     LoopSleeps, serverVars
<1>11. ASSUME NEW e \in Events, IngestDbError(e) PROVE CopiesInv'
  BY <1>2, <1>11 DEF IngestDbError, serverVars
<1>12. CASE VpsChanges \/ Tick \/ UNCHANGED vars
  BY <1>2, <1>12 DEF VpsChanges, Tick, serverVars, vars
<1> QED BY <1>3, <1>4, <1>5, <1>6, <1>7, <1>8, <1>9, <1>10, <1>11, <1>12
        DEF Next, Resolves, Faulty

LEMMA CopiesInit == Init => CopiesInv
BY DEF Init, CopiesInv, Pending, Senders

\* Surplus copies at the server never outnumber the tries that ended in doubt.
THEOREM CopiesAlwaysExplained == Spec => []CopiesExplained
<1>1. ClientInv /\ CopiesInv => CopiesExplained
  <2> SUFFICES ASSUME ClientInv, CopiesInv, NEW e \in Events
               PROVE  stored[e] + late[e] <= 1 + ambiguous[e]
    BY DEF CopiesExplained
  <2>1. stored[e] \in Nat /\ late[e] \in Nat /\ ambiguous[e] \in Nat
    BY DEF ClientInv, TypeOK
  <2> QED BY <2>1 DEF CopiesInv
<1>2. ClientInv /\ CopiesInv /\ [Next]_vars => ClientInv' /\ CopiesInv'
  BY ClientStep, StepKeepsCopies
<1> QED BY ClientInit, CopiesInit, <1>1, <1>2, PTL DEF Spec

----------------------------------------------------------------------------
(* Render jobs name committed copies.                                      *)

\* A step adds a job only for the copy whose confirmation it reads.
LEMMA ClipsGrowOnConfirmation ==
  ASSUME ClientInv, [Next]_vars
  PROVE  \/ clips' = clips
         \/ \E s \in Senders : /\ wire[s] = "created" /\ wire'[s] = "none"
                               /\ stored' = stored
                               /\ clips' = [clips EXCEPT ![EventOf(s)] = @ + 1]
<1> Loop \in Senders /\ Events \subseteq Senders /\ Loop \notin Events
    /\ wire \in [Senders -> {"none", "request", "created", "refused", "throttled", "failed"}]
  BY DEF Senders, ClientInv, TypeOK
<1>1. CASE \E s \in Senders : Resolves(s)
  BY <1>1 DEF Resolves, VpsReceives, Unreachable
<1>2. CASE \E e \in Events : VpsReceivesLate(e) \/ IngestPosts(e)
  BY <1>2 DEF VpsReceivesLate, IngestPosts, clientVars
<1>3. ASSUME NEW e \in Events, Ingest(e)
      PROVE \/ clips' = clips
            \/ \E s \in Senders : /\ wire[s] = "created" /\ wire'[s] = "none"
                                  /\ stored' = stored
                                  /\ clips' = [clips EXCEPT ![EventOf(s)] = @ + 1]
  <2>1. CASE IngestDelivered(e)
    <3>1. EventOf(e) = e
      BY DEF EventOf
    <3> QED BY <2>1, <3>1 DEF IngestDelivered, EnqueueClip, Answered, serverVars
  <2>2. CASE ~IngestDelivered(e)
    BY <1>3, <2>2 DEF Ingest, IngestRefused, IngestRetryable, IngestInserts,
                      IngestPrunes, IngestDefers
  <2> QED BY <2>1, <2>2
<1>4. CASE RetryLoop
  <2>1. CASE LoopDelivered
    <3>1. EventOf(Loop) = cur
      BY DEF EventOf
    <3> QED BY <2>1, <3>1 DEF LoopDelivered, EnqueueClip, Answered, serverVars
  <2>2. CASE ~LoopDelivered
    BY <1>4, <2>2 DEF RetryLoop, LoopLists, LoopPosts, LoopStillFailing,
       LoopThrottled, LoopRemoves, LoopReschedules, LoopDefers, LoopSleeps
  <2> QED BY <2>1, <2>2
<1>5. CASE Faulty
  BY <1>5 DEF Faulty, TimesOut, IngestDbError, LoopDbError, Restart
<1>6. CASE VpsChanges \/ Tick \/ UNCHANGED vars
  BY <1>6 DEF VpsChanges, Tick, clientVars, vars
<1> QED BY <1>1, <1>2, <1>3, <1>4, <1>5, <1>6 DEF Next

LEMMA StepKeepsClips ==
  ASSUME ClientInv, ClipsInv, [Next]_vars
  PROVE  ClipsInv'
<1> USE DEF ClipsInv, ClipsHaveEvents
<1> clips \in [Events -> Nat] /\ stored \in [Events -> Nat]
    /\ clips' \in [Events -> Nat] /\ stored' \in [Events -> Nat]
  BY ClientStep DEF ClientInv, TypeOK
<1>1. \A e \in Events : stored[e] <= stored'[e]
  BY StoredGrows
<1>2. \A e \in Events : clips'[e] <= stored'[e]
  <2>1. CASE clips' = clips
    BY <1>1, <2>1
  <2>2. ASSUME NEW s \in Senders, wire[s] = "created", stored' = stored,
               clips' = [clips EXCEPT ![EventOf(s)] = @ + 1]
        PROVE  \A e \in Events : clips'[e] <= stored'[e]
    BY <2>2
  <2> QED BY <2>1, <2>2, ClipsGrowOnConfirmation
<1>3. ASSUME NEW s \in Senders, wire'[s] = "created"
      PROVE  clips'[EventOf(s)'] < stored'[EventOf(s)']
  <2>1. CASE VpsReceives(s)
    <3>1. PICK x \in Events : x = EventOf(s) /\ x = EventOf(s)' /\ wire[s] = "request"
      BY <2>1, EventOfType DEF VpsReceives, EventOf, ClientInv
    <3>2. stored' = [stored EXCEPT ![x] = @ + 1] /\ clips' = clips
      <4>1. wire \in [Senders -> {"none", "request", "created", "refused",
                                  "throttled", "failed"}]
        BY DEF ClientInv, TypeOK
      <4> QED BY <1>3, <2>1, <3>1, <4>1 DEF VpsReceives
    <3> QED BY <3>1, <3>2
  <2>2. CASE wire[s] = "created" /\ EventOf(s)' = EventOf(s)
    <3>1. PICK x \in Events : x = EventOf(s) /\ x = EventOf(s)'
      BY <2>2, EventOfType DEF ClientInv
    <3>2. clips'[x] = clips[x]
      <4>1. ASSUME NEW u \in Senders, wire[u] = "created", wire'[u] = "none",
                   EventOf(u) = x
            PROVE  FALSE
        <5>1. u # s
          BY <1>3, <4>1
        <5>2. x \in Events /\ wire[x] = "created" /\ cur = x
          BY <2>2, <3>1, <4>1, <5>1 DEF EventOf, Senders
        <5> QED BY <5>2, OneSender DEF ClientInv, ControlInv
      <4> QED BY <4>1, ClipsGrowOnConfirmation
    <3> QED BY <1>1, <2>2, <3>1, <3>2
  <2> QED BY <1>3, <2>1, <2>2, Origins
<1> QED BY <1>2, <1>3

\* No event has more render jobs than committed copies.
THEOREM ClipsAlwaysHaveEvents == Spec => []ClipsHaveEvents
<1>1. Init => ClipsInv
  BY DEF Init, ClipsInv, ClipsHaveEvents, Senders
<1>2. ClipsInv => ClipsHaveEvents
  BY DEF ClipsInv
<1>3. ClientInv /\ ClipsInv /\ [Next]_vars => ClientInv' /\ ClipsInv'
  BY ClientStep, StepKeepsClips
<1> QED BY ClientInit, <1>1, <1>2, <1>3, PTL DEF Spec

----------------------------------------------------------------------------
(* The cap.                                                                *)

LEMMA StepKeepsCap ==
  ASSUME ClientInv, SizeCapped, [Next]_vars
  PROVE  SizeCapped'
<1>1. OutboxInv'
  BY ClientStep DEF ClientInv
<1>2. ASSUME rows' \subseteq rows, Loose' = Loose PROVE SizeCapped'
  BY <1>1, <1>2, OthersCap DEF ClientInv
<1>3. ASSUME NEW e \in Events, Ingest(e) PROVE SizeCapped'
  <2>1. CASE IngestInserts(e)
    BY <2>1, InsertCaps DEF IngestInserts, ClientInv
  <2>2. CASE IngestPrunes(e)
    BY <1>3, <2>2, PruneCaps DEF IngestPrunes, ClientInv
  <2>3. CASE \/ IngestDelivered(e) \/ IngestRefused(e) \/ IngestRetryable(e)
             \/ IngestDefers(e)
    BY <1>2, <2>3 DEF IngestDelivered, IngestRefused, IngestRetryable, IngestDefers,
                      DeferAll, outboxVars, Loose
  <2> QED BY <1>3, <2>1, <2>2, <2>3 DEF Ingest
<1>4. CASE RetryLoop
  BY <1>2, <1>4 DEF RetryLoop, LoopLists, LoopPosts, LoopDelivered,
     LoopStillFailing, LoopThrottled, LoopRemoves, LoopReschedules, LoopDefers,
     LoopSleeps, Remove, Reschedule, DeferAll, outboxVars, Loose
<1>5. CASE Faulty
  BY <1>2, <1>5 DEF Faulty, TimesOut, IngestDbError, EnqueueFails, LoopDbError,
     Restart, OutboxRestart, outboxVars, table, Loose
<1>6. CASE \/ \E s \in Senders : Resolves(s)
           \/ \E e \in Events : VpsReceivesLate(e) \/ IngestPosts(e)
           \/ VpsChanges \/ Tick \/ UNCHANGED vars
  BY <1>2, <1>6 DEF Resolves, VpsReceives, Unreachable, VpsReceivesLate, IngestPosts,
                    VpsChanges, Tick, OutboxTick, outboxVars, vars, Loose
<1> QED BY <1>3, <1>4, <1>5, <1>6 DEF Next

\* Whatever fails while ingest calls, the loop and restarts work on the queue,
\* it exceeds its cap by no more than the enqueues that did not prune.
THEOREM ClientSizeCapped == Spec => []SizeCapped
<1>1. Init => SizeCapped
  <2>1. Cardinality({}) = 0
    BY FS_EmptySet
  <2> QED BY <2>1 DEF Init, OutboxInit, SizeCapped
<1>2. ClientInv /\ SizeCapped /\ [Next]_vars => ClientInv' /\ SizeCapped'
  BY ClientStep, StepKeepsCap
<1> QED BY ClientInit, <1>1, <1>2, PTL DEF Spec

----------------------------------------------------------------------------
(* The client implements EventDelivery.                                    *)

\* What EventDelivery sees of the client's state.
Delivered == {e \in Events : stored[e] > 0}
Accepted == {e \in Events : pc[e] = "true"}

LEMMA StepDelivers ==
  ASSUME ClientInv, CustodyInv, [Next]_vars
  PROVE  [Delivery!Next]_(<<rows, Delivered, discarded, Accepted>>)
<1> DEFINE Goal == [Delivery!Next]_(<<rows, Delivered, discarded, Accepted>>)
<1> USE DEF Delivered, Accepted
<1> stored \in [Events -> Nat] /\ rows \subseteq Events /\ Loop \notin Events
    /\ Senders = Events \union {Loop}
    /\ pc \in [Events -> {"new", "posting", "insert", "prune", "defer", "true",
                          "false", "gone"}]
    /\ \A e \in Events : wire[e] # "none" => pc[e] = "posting"
  BY DEF ClientInv, ControlInv, TypeOK, OutboxTypeOK, Senders
<1>1. ASSUME rows' = rows, discarded' = discarded, Delivered' = Delivered,
             Accepted' = Accepted
      PROVE  Goal
  BY <1>1
<1>2. ASSUME NEW x \in Events, rows' = rows, discarded' = discarded,
             Accepted' = Accepted, Delivered' = Delivered \union {x}
      PROVE  Goal
  BY <1>2 DEF Delivery!Next, Delivery!Deliver
<1>3. ASSUME NEW x \in Events, rows' = rows, discarded' = discarded,
             Delivered' = Delivered, Accepted' = Accepted \union {x},
             x \in rows \union Delivered \union discarded
      PROVE  Goal
  BY <1>3 DEF Delivery!Next, Delivery!Accept
<1>4. ASSUME NEW s \in Senders, Resolves(s) PROVE Goal
  <2>1. CASE stored' = stored
    BY <1>1, <1>4, <2>1 DEF Resolves, VpsReceives, Unreachable, outboxVars
  <2>2. CASE stored' # stored
    <3>1. VpsReceives(s)
      BY <1>4, <2>2 DEF Resolves, Unreachable, serverVars
    <3>2. EventOf(s) \in Events
      BY <3>1, EventOfType DEF VpsReceives, ClientInv
    <3>3. stored' = [stored EXCEPT ![EventOf(s)] = @ + 1]
      BY <2>2, <3>1 DEF VpsReceives
    <3>4. Delivered' = Delivered \union {EventOf(s)}
      BY <3>2, <3>3
    <3>5. UNCHANGED <<rows, discarded, pc>>
      BY <3>1 DEF VpsReceives, outboxVars
    <3> QED BY <1>2, <3>2, <3>4, <3>5
  <2> QED BY <2>1, <2>2
<1>5. ASSUME NEW e \in Events, VpsReceivesLate(e) PROVE Goal
  <2>1. UNCHANGED <<rows, discarded, pc>>
    BY <1>5 DEF VpsReceivesLate, outboxVars, clientVars
  <2>2. Delivered' = Delivered \/ Delivered' = Delivered \union {e}
    BY <1>5 DEF VpsReceivesLate
  <2> QED BY <1>1, <1>2, <2>1, <2>2
<1>6. ASSUME NEW e \in Events, IngestPosts(e) PROVE Goal
  BY <1>1, <1>6 DEF IngestPosts, Goto, outboxVars, serverVars
<1>7. ASSUME NEW e \in Events, Ingest(e) PROVE Goal
  <2> USE DEF Goto, serverVars, outboxVars
  <2>1. CASE IngestDelivered(e)
    <3>1. stored[e] > 0
      BY <2>1 DEF IngestDelivered, CustodyInv, EventOf
    <3>2. Accepted' = Accepted \union {e} /\ UNCHANGED <<rows, discarded, stored>>
      BY <2>1 DEF IngestDelivered
    <3> QED BY <1>3, <3>1, <3>2
  <2>2. CASE IngestRefused(e) \/ IngestRetryable(e)
    BY <1>1, <2>2 DEF IngestRefused, IngestRetryable
  <2>3. CASE IngestInserts(e)
    <3>1. /\ rows' = rows \union {e} /\ Accepted' = Accepted
          /\ UNCHANGED <<discarded, stored>>
      BY <2>3 DEF IngestInserts, Insert
    <3> QED BY <3>1 DEF Delivery!Next, Delivery!Take
  <2>4. CASE IngestPrunes(e)
    <3>1. Pruned \subseteq rows /\ Pruned \in SUBSET Events
      BY DEF Pruned, TooOld, Excess
    <3>2. e \in rows \union Delivered \union discarded
      BY <2>4 DEF IngestPrunes, CustodyInv
    <3>3. PICK A \in SUBSET {e} : Accepted' = Accepted \union A
      <4>1. pc[e] = "prune" /\ (pc' = [pc EXCEPT ![e] = "defer"]
                               \/ pc' = [pc EXCEPT ![e] = "true"])
        BY <2>4 DEF IngestPrunes
      <4>2. Accepted' = Accepted \union {} \/ Accepted' = Accepted \union {e}
        BY <4>1
      <4> QED BY <4>2
    <3>4. /\ rows' = rows \ Pruned /\ discarded' = discarded \union Pruned
          /\ stored' = stored
      BY <2>4 DEF IngestPrunes, Prune
    <3>5. Delivery!Discard(Pruned, A)
      BY <3>1, <3>2, <3>3, <3>4 DEF Delivery!Discard
    <3> QED BY <3>1, <3>5 DEF Delivery!Next
  <2>5. CASE IngestDefers(e)
    <3>1. e \in rows \union Delivered \union discarded
      BY <2>5 DEF IngestDefers, CustodyInv
    <3>2. Accepted' = Accepted \union {e} /\ UNCHANGED <<rows, discarded, stored>>
      BY <2>5 DEF IngestDefers, DeferAll
    <3> QED BY <1>3, <3>1, <3>2
  <2> QED BY <1>7, <2>1, <2>2, <2>3, <2>4, <2>5 DEF Ingest
<1>8. CASE RetryLoop
  <2> USE DEF serverVars, outboxVars
  <2>1. CASE LoopRemoves
    <3>1. stored[cur] > 0 /\ cur \in Events
      BY <2>1 DEF LoopRemoves, CustodyInv, ClientInv, ControlInv
    <3>2. rows' = rows \ {cur} /\ UNCHANGED <<discarded, stored, pc>>
      BY <2>1 DEF LoopRemoves, Remove
    <3>3. CASE cur \in rows
      BY <3>1, <3>2, <3>3 DEF Delivery!Next, Delivery!Release
    <3>4. CASE cur \notin rows
      BY <1>1, <3>2, <3>4
    <3> QED BY <3>3, <3>4
  <2>2. CASE LoopReschedules \/ LoopDefers
    BY <1>1, <2>2 DEF LoopReschedules, LoopDefers, Reschedule, DeferAll
  <2>3. CASE \/ LoopLists \/ (\E e \in Events : LoopPosts(e))
             \/ LoopDelivered \/ LoopStillFailing \/ LoopThrottled \/ LoopSleeps
    BY <1>1, <2>3 DEF LoopLists, LoopPosts, LoopDelivered, LoopStillFailing,
                      LoopThrottled, LoopSleeps
  <2> QED BY <1>8, <2>1, <2>2, <2>3 DEF RetryLoop
<1>9. CASE Faulty
  <2>1. UNCHANGED <<rows, discarded, stored>>
    BY <1>9 DEF Faulty, TimesOut, IngestDbError, EnqueueFails, LoopDbError, Restart,
                OutboxRestart, serverVars, outboxVars, table
  <2>2. Accepted' = Accepted
    BY <1>9 DEF Faulty, TimesOut, IngestDbError, LoopDbError, Restart, Goto
  <2> QED BY <1>1, <2>1, <2>2
<1>10. CASE VpsChanges \/ Tick \/ UNCHANGED vars
  BY <1>1, <1>10 DEF VpsChanges, Tick, OutboxTick, outboxVars, clientVars, serverVars, vars
<1> QED BY <1>4, <1>5, <1>6, <1>7, <1>8, <1>9, <1>10 DEF Next

\* The client lets go of an event only after its delivery or as a discard.
THEOREM ImplementsDelivery == Spec => DeliverySpec
<1>1. Init => Delivery!Init
  BY DEF Init, OutboxInit, Delivery!Init
<1>2. ClientInv /\ CustodyInv /\ [Next]_vars
        => ClientInv' /\ CustodyInv' /\ [Delivery!Next]_(Delivery!deliveryVars)
  BY ClientStep, StepKeepsCustody, StepDelivers DEF Delivery!deliveryVars, Delivered, Accepted
<1> QED BY ClientInit, CustodyInit, <1>1, <1>2, PTL DEF Spec, DeliverySpec, Delivery!Spec

(***************************************************************************)
(* Working off a backlog: while the loop alone is at work, no row is tried *)
(* before its time and nothing but the clock brings its time closer.       *)
(***************************************************************************)
\* No event is being ingested, and the rows of the pass are due: what defers a row
\* takes it out of the pass, or ends the pass.
OnlyTheLoopWorks ==
  /\ \A e \in Events : pc[e] = "true"
  /\ \A e \in rows \intersect (batch \union {cur}) : wait[e] = 0

BacklogInv == ClientInv /\ OnlyTheLoopWorks

\* No row's next attempt comes closer in a step.
NothingHastens == \A e \in rows \intersect rows' : ~(wait'[e] < wait[e])

LEMMA BacklogInitInv == BacklogInit => BacklogInv
<1> SUFFICES ASSUME BacklogInit PROVE BacklogInv
  OBVIOUS
<1>1. Cardinality(Events) \in Nat
  BY FS_CardinalityType
<1>2. rowId \in [Events -> 1..Cardinality(Events)] /\ rows = Events
  BY DEF BacklogInit
<1>3. Enqueued = Events
  BY <1>1, <1>2 DEF Enqueued
<1>4. OutboxTypeOK
  BY <1>1, <1>2 DEF BacklogInit, OutboxTypeOK
<1>5. IdsInOrder
  BY <1>1, <1>2, <1>3 DEF BacklogInit, IdsInOrder
<1>6. AgesFollowIds
  <2>1. \A e \in Events : age[e] = 0
    BY DEF BacklogInit
  <2>2. 0 <= 0 + MaxLag
    OBVIOUS
  <2> QED BY <1>2, <2>1, <2>2 DEF AgesFollowIds
<1>7. OutboxInv
  BY <1>4, <1>5, <1>6 DEF BacklogInit, OutboxInv, DiscardsOldest
<1>8. TypeOK
  BY <1>4 DEF BacklogInit, TypeOK, Senders
<1>9. ControlInv
  BY <1>3 DEF BacklogInit, ControlInv, Senders
<1>10. OnlyTheLoopWorks
  BY DEF BacklogInit, OnlyTheLoopWorks
<1> QED BY <1>7, <1>8, <1>9, <1>10 DEF BacklogInv, ClientInv

\* With every ingest_event call returned, a step is one of the network, the loop,
\* the clock, or a fault of theirs.
LEMMA BacklogStepIs ==
  ASSUME BacklogInv, [Next]_vars
  PROVE  \/ /\ UNCHANGED <<rows, wait, pc, batch, cur>>
         \/ LoopLists \/ (\E e \in Events : LoopPosts(e)) \/ LoopRemoves \/ LoopReschedules
         \/ LoopDefers \/ LoopSleeps \/ LoopDbError \/ Restart \/ Tick
<1>1. /\ \A e \in Events : pc[e] = "true" /\ wire[e] = "none"
      /\ Senders = Events \union {Loop} /\ Loop \notin Events
  BY DEF BacklogInv, OnlyTheLoopWorks, ClientInv, ControlInv, Senders
<1>2. ASSUME NEW s \in Senders, Resolves(s) \/ TimesOut(s)
      PROVE  UNCHANGED <<rows, wait, pc, batch, cur>>
  BY <1>2 DEF Resolves, VpsReceives, Unreachable, TimesOut, outboxVars
<1>3. ASSUME NEW e \in Events PROVE ~(IngestPosts(e) \/ Ingest(e) \/ IngestDbError(e))
  <2>1. ~(IngestPosts(e) \/ IngestInserts(e) \/ IngestPrunes(e) \/ IngestDefers(e))
    BY <1>1 DEF IngestPosts, IngestInserts, IngestPrunes, IngestDefers
  <2>2. ~(IngestDelivered(e) \/ IngestRefused(e) \/ IngestRetryable(e))
    BY <1>1 DEF IngestDelivered, IngestRefused, IngestRetryable
  <2>3. ~IngestDbError(e)
    BY <1>1 DEF IngestDbError
  <2> QED BY <2>1, <2>2, <2>3 DEF Ingest
<1>4. ASSUME NEW e \in Events, VpsReceivesLate(e)
      PROVE  UNCHANGED <<rows, wait, pc, batch, cur>>
  BY <1>4 DEF VpsReceivesLate, outboxVars, clientVars
<1>5. CASE LoopDelivered \/ LoopStillFailing \/ LoopThrottled
  BY <1>5 DEF LoopDelivered, LoopStillFailing, LoopThrottled, outboxVars
<1>6. CASE VpsChanges \/ UNCHANGED vars
  BY <1>6 DEF VpsChanges, outboxVars, clientVars, vars
<1> QED BY <1>2, <1>3, <1>4, <1>5, <1>6 DEF Next, RetryLoop, Faulty

LEMMA BacklogStep ==
  ASSUME BacklogInv, [Next]_vars
  PROVE  BacklogInv' /\ (NothingHastens \/ OutboxTick)
<1>1. /\ rows \subseteq Events /\ wait \in [Events -> Nat] /\ Loop \notin Events
      /\ attempts \in [Events -> 0..AttemptCap] /\ cur \notin batch
      /\ hold \in [Senders -> 0..MaxRetryAfter] /\ Loop \in Senders
      /\ cur \in Events <=> loopPc \in {"posting", "remove", "reschedule", "defer"}
  BY DEF BacklogInv, ClientInv, TypeOK, OutboxTypeOK, ControlInv, Senders
<1>2. ClientInv'
  BY ClientStep DEF BacklogInv
<1>3. \A m \in Nat : ~(m < m)
  OBVIOUS
<1> USE DEF BacklogInv, OnlyTheLoopWorks, NothingHastens
<1>4. CASE UNCHANGED <<rows, wait, pc, batch, cur>>
  BY <1>1, <1>2, <1>3, <1>4
<1>5. CASE LoopLists
  <2>1. UNCHANGED <<rows, wait, pc, cur>> /\ cur \notin Events
    BY <1>1, <1>5 DEF LoopLists, outboxVars
  <2>2. batch' = {e \in rows : wait[e] = 0}
    BY <1>5 DEF LoopLists, Due
  <2> QED BY <1>1, <1>2, <1>3, <2>1, <2>2
<1>6. ASSUME NEW e \in Events, LoopPosts(e)
      PROVE  BacklogInv' /\ (NothingHastens \/ OutboxTick)
  <2>1. UNCHANGED <<rows, wait, pc>> /\ cur' = e /\ e \in batch /\ batch' = batch \ {e}
    BY <1>6 DEF LoopPosts, outboxVars
  <2> QED BY <1>1, <1>2, <1>3, <2>1
<1>7. CASE LoopRemoves
  <2>1. /\ rows' = rows \ {cur} /\ UNCHANGED <<pc, batch>> /\ cur' = Loop
        /\ \A e \in rows' : wait'[e] = wait[e]
    BY <1>1, <1>7 DEF LoopRemoves, Remove, Kept
  <2> QED BY <1>1, <1>2, <1>3, <2>1
<1>8. CASE LoopReschedules
  <2>1. UNCHANGED <<rows, pc, batch>> /\ cur' = Loop
    BY <1>8 DEF LoopReschedules, Reschedule
  <2>2. \A e \in Events \ {cur} : wait'[e] = wait[e]
    BY <1>1, <1>8 DEF LoopReschedules, Reschedule
  <2>3. cur \in rows => wait[cur] = 0 /\ wait'[cur] \in Nat
    <3>1. cur \in rows => wait'[cur] = Backoff(attempts[cur])
      BY <1>1, <1>8 DEF LoopReschedules, Reschedule
    <3>2. cur \in rows => Backoff(attempts[cur]) \in Nat
      BY <1>1, Ranges
    <3> QED BY <3>1, <3>2
  <2>4. NothingHastens
    BY <1>1, <1>3, <2>1, <2>2, <2>3
  <2>5. OnlyTheLoopWorks'
    BY <1>1, <2>1, <2>2
  <2> QED BY <1>2, <2>4, <2>5
<1>9. CASE LoopDefers
  <2>1. UNCHANGED <<rows, pc>> /\ cur' = Loop /\ batch' = {}
    BY <1>9 DEF LoopDefers, DeferAll, PassEnds
  <2>2. NothingHastens
    <3> SUFFICES ASSUME NEW e \in rows PROVE ~(wait'[e] < wait[e])
      BY DEF NothingHastens
    <3>1. wait'[e] = IF wait[e] < hold[Loop] THEN hold[Loop] ELSE wait[e]
      BY <1>1, <1>9 DEF LoopDefers, DeferAll
    <3>2. wait[e] \in Nat /\ hold[Loop] \in Nat
      BY <1>1
    <3> QED BY <3>1, <3>2
  <2> QED BY <1>1, <1>2, <2>1, <2>2
<1>10. CASE LoopSleeps \/ LoopDbError
  BY <1>1, <1>2, <1>3, <1>10 DEF LoopSleeps, LoopDbError, PassEnds, outboxVars
<1>11. CASE Restart
  <2>1. UNCHANGED <<rows, wait>> /\ cur' = Loop /\ batch' = {}
    BY <1>11 DEF Restart, OutboxRestart, PassEnds, table
  <2>2. pc' = [e \in Events |-> IF pc[e] \in {"new", "true", "false"} THEN pc[e] ELSE "gone"]
    BY <1>11 DEF Restart
  <2> QED BY <1>1, <1>2, <1>3, <2>1, <2>2
<1>12. CASE Tick
  <2>1. UNCHANGED <<rows, pc, batch, cur>> /\ OutboxTick
    BY <1>12 DEF Tick, OutboxTick, clientVars
  <2>2. \A e \in Events : wait[e] = 0 => wait'[e] = 0
    BY <1>12 DEF Tick, OutboxTick
  <2> QED BY <1>1, <1>2, <2>1, <2>2
<1> QED BY <1>4, <1>5, <1>6, <1>7, <1>8, <1>9, <1>10, <1>11, <1>12, BacklogStepIs

\* While the loop works a backlog off, it posts no row whose next attempt lies
\* ahead: a 429 stops the pass and defers every row.
THEOREM PostsAlwaysDueRows == BacklogSpec => PostsOnlyDueRows
<1>1. BacklogInv => \A e \in rows : LoopPosts(e) => wait[e] = 0
  BY DEF BacklogInv, OnlyTheLoopWorks, LoopPosts
<1>2. BacklogInv /\ [Next]_vars => BacklogInv'
  BY BacklogStep
<1>3. BacklogInv /\ [Next]_vars => [\A e \in rows : LoopPosts(e) => wait[e] = 0]_vars
  BY <1>1
<1> QED BY BacklogInitInv, <1>2, <1>3, PTL DEF BacklogSpec, PostsOnlyDueRows

\* And nothing but the clock brings a queued row's next attempt closer.
THEOREM OnlyTheClockEverHastens == BacklogSpec => OnlyTheClockHastens
<1> DEFINE Patient == \A e \in rows \intersect rows' : wait'[e] < wait[e] => OutboxTick
<1>1. BacklogInv /\ [Next]_vars => BacklogInv'
  BY BacklogStep
<1>2. BacklogInv /\ [Next]_vars => [Patient]_vars
  BY BacklogStep DEF NothingHastens
<1> QED BY BacklogInitInv, <1>1, <1>2, PTL DEF BacklogSpec, OnlyTheClockHastens
=============================================================================
