----------------------------- MODULE AlprIngest -----------------------------
(***************************************************************************)
(* Readings of one plate by one camera, from the webhook to the event.     *)
(* Cameras send a message again until they get the answer they expect.     *)
(* EventService.ingest_alpr takes a Redis key for the plate before it      *)
(* stores the event and commits after it has announced it.                 *)
(***************************************************************************)
EXTENDS Integers

CONSTANTS Readings,   \* messages about the plate
          DedupTtl,   \* alpr_dedup_ttl_seconds
          MaxSends,   \* bound: how often a message is sent
          NoReading   \* no reading

ASSUME AlprAssumption ==
  /\ NoReading \notin Readings
  /\ DedupTtl \in Nat \ {0} /\ MaxSends \in Nat

VARIABLES route,     \* reading -> the endpoint its camera was told to use
          kind,      \* reading -> "plate", "weak" below alpr_min_confidence, or "other"
          at,        \* reading -> where its request is
          sends,     \* reading -> how often it was sent
          told,      \* reading -> the last answer, "unknown" and "raised" being
                     \* 200 for no camera identified and for an exception caught
          holder,    \* the reading that set the dedup key, if it is there
          left,      \* seconds until the key expires
          dupOf,     \* reading -> the holder it was taken for a duplicate of
          plates,    \* reading -> events alpr_detected stored for it
          others,    \* readings stored as an event of the camera's own type
          ledger,    \* readings in raw_camera_events
          announced, \* readings published as alpr.detected
          broken     \* history: readings that took the key in a request that
                     \* failed or was killed, and that are not stored yet

alprVars == <<route, kind, at, sends, told, holder, left, dupOf, plates, others, ledger, announced, broken>>

Routes == {"hikvision", "intelbras", "generic", "alpr"}
ReadingKinds == {"plate", "weak", "other"}

AlprInit ==
  /\ route \in [Readings -> Routes] /\ kind \in [Readings -> ReadingKinds]
  /\ at = [r \in Readings |-> "camera"] /\ sends = [r \in Readings |-> 0]
  /\ told = [r \in Readings |-> "none"]
  /\ holder = NoReading /\ left = 0 /\ dupOf = [r \in Readings |-> NoReading]
  /\ plates = [r \in Readings |-> 0] /\ others = {} /\ ledger = {}
  /\ announced = {} /\ broken = {}

Public(r) == route[r] # "alpr"
Stored(r) == plates[r] > 0
Final == {"ok", "unknown", "raised"} \* answers after which nothing is sent again
InWork(r) == at[r] \in {"image", "publish", "commit"}
Moves(r, to) == at' = [at EXCEPT ![r] = to]
Answers(r, what) == Moves(r, "camera") /\ told' = [told EXCEPT ![r] = what]

\* Sent, and sent again until the answer is the one the firmware expects.
SendReading(r) ==
  /\ at[r] = "camera" /\ sends[r] < MaxSends /\ told[r] \notin Final
  /\ sends' = [sends EXCEPT ![r] = @ + 1]
  /\ Moves(r, IF Public(r) THEN "parse" ELSE "claim")
  /\ UNCHANGED <<route, kind, told, holder, left, dupOf, plates, others, ledger,
                 announced, broken>>

\* _parse_body: malformed XML that is declared as XML is an error 500, and so is
\* a database that does not answer in _resolve_camera.
ParseFails(r) ==
  /\ at[r] = "parse"
  /\ Answers(r, "error")
  /\ UNCHANGED <<route, kind, sends, holder, left, dupOf, plates, others, ledger,
                 announced, broken>>

\* _resolve_camera finds no active camera: 200, so that nothing is sent again.
Unidentified(r) ==
  /\ at[r] = "parse"
  /\ Answers(r, "unknown")
  /\ UNCHANGED <<route, kind, sends, holder, left, dupOf, plates, others, ledger,
                 announced, broken>>

\* _store_raw_ledger, best effort, in a transaction of its own.
StoreLedger(r) ==
  /\ at[r] = "parse"
  /\ ledger' \in {ledger, ledger \union {r}}
  /\ Moves(r, "claim")
  /\ UNCHANGED <<route, kind, sends, told, holder, left, dupOf, plates, others,
                 announced, broken>>

\* The body has no plate, ingest_alpr is not called: an event of the camera's own
\* type, or for Intelbras a frame without a plate or a bare picture, which is
\* answered ok and kept in the ledger only.
NotAPlate(r) ==
  /\ Public(r) /\ at[r] = "claim" /\ kind[r] = "other"
  /\ \/ Moves(r, "other") /\ UNCHANGED told
     \/ route[r] = "intelbras" /\ Answers(r, "ok")
  /\ UNCHANGED <<route, kind, sends, holder, left, dupOf, plates, others, ledger,
                 announced, broken>>

(***************************************************************************)
(* EventService.ingest_alpr                                                *)
(***************************************************************************)
TooWeak(r) ==
  /\ at[r] = "claim" /\ kind[r] = "weak"
  /\ Answers(r, "ok")
  /\ UNCHANGED <<route, kind, sends, holder, left, dupOf, plates, others, ledger,
                 announced, broken>>

\* Mutant of ClaimKey: the key is taken before the confidence is looked at.
ClaimKeyFirst(r) ==
  /\ at[r] = "claim" /\ kind[r] \in {"plate", "weak"} /\ left = 0
  /\ holder' = r /\ left' = DedupTtl
  /\ Moves(r, IF kind[r] = "plate" THEN "image" ELSE "camera")
  /\ UNCHANGED <<route, kind, sends, told, dupOf, plates, others, ledger, announced,
                 broken>>

\* SET key NX EX, the one step that is atomic over all requests.
ClaimKey(r) ==
  /\ at[r] = "claim" /\ kind[r] = "plate" /\ left = 0
  /\ holder' = r /\ left' = DedupTtl
  /\ Moves(r, "image")
  /\ UNCHANGED <<route, kind, sends, told, dupOf, plates, others, ledger, announced,
                 broken>>

Duplicate(r) ==
  /\ at[r] = "claim" /\ kind[r] = "plate" /\ left > 0
  /\ dupOf' = [dupOf EXCEPT ![r] = holder]
  /\ Answers(r, "ok")
  /\ UNCHANGED <<route, kind, sends, holder, left, plates, others, ledger, announced,
                 broken>>

\* save_event_image never fails the event; EventRepository.create flushes it.
InsertEvent(r) ==
  /\ at[r] = "image"
  /\ Moves(r, "publish")
  /\ UNCHANGED <<route, kind, sends, told, holder, left, dupOf, plates, others, ledger,
                 announced, broken>>

\* publish_event, before the event is committed.
PublishAlpr(r) ==
  /\ at[r] = "publish"
  /\ announced' = announced \union {r}
  /\ Moves(r, "commit")
  /\ UNCHANGED <<route, kind, sends, told, holder, left, dupOf, plates, others, ledger,
                 broken>>

CommitAlpr(r) ==
  /\ at[r] = "commit"
  /\ plates' = [plates EXCEPT ![r] = @ + 1] /\ broken' = broken \ {r}
  /\ IF Public(r) THEN Moves(r, "link") /\ UNCHANGED told ELSE Answers(r, "ok")
  /\ UNCHANGED <<route, kind, sends, holder, left, dupOf, others, ledger, announced>>

\* _link_raw_ledger, and the job of _dispatch_alpr_notification; best effort.
\* Which event a row of the ledger names is not followed.
LinkAndNotify(r) ==
  /\ at[r] = "link"
  /\ Answers(r, "ok")
  /\ UNCHANGED <<route, kind, sends, holder, left, dupOf, plates, others, ledger,
                 announced, broken>>

\* What follows an exception in ingest_alpr depends on the route: the next
\* normalizer, an event of the camera's own type, 200 all the same, or 500.
AfterException(r) ==
  \/ route[r] = "intelbras" /\ Answers(r, "raised")
  \/ route[r] = "alpr" /\ Answers(r, "error")
  \/ route[r] \in {"hikvision", "generic"} /\ Moves(r, "other") /\ UNCHANGED told
  \/ route[r] = "generic" /\ Moves(r, "claim") /\ UNCHANGED told

\* The normalizer raises, or Redis does before it has set the key.
ClaimRaises(r) ==
  /\ at[r] = "claim" /\ AfterException(r)
  /\ UNCHANGED <<route, kind, sends, holder, left, dupOf, plates, others, ledger,
                 announced, broken>>

\* Redis sets the key and its answer is lost.
ClaimInDoubt(r) ==
  /\ at[r] = "claim" /\ kind[r] = "plate" /\ left = 0
  /\ holder' = r /\ left' = DedupTtl
  /\ broken' = IF Stored(r) THEN broken ELSE broken \union {r}
  /\ AfterException(r)
  /\ UNCHANGED <<route, kind, sends, dupOf, plates, others, ledger, announced>>

\* The database or the publication raises; the transaction is rolled back and
\* the key stays set.
IngestRaises(r) ==
  /\ InWork(r) /\ AfterException(r)
  /\ broken' = IF Stored(r) THEN broken ELSE broken \union {r}
  /\ UNCHANGED <<route, kind, sends, holder, left, dupOf, plates, others, ledger,
                 announced>>

\* _store_event of the fallback, published as well.
StoreOther(r) ==
  /\ at[r] = "other"
  /\ others' = others \union {r}
  /\ Answers(r, "ok")
  /\ UNCHANGED <<route, kind, sends, holder, left, dupOf, plates, ledger, announced,
                 broken>>

\* _store_event raises: 500, but for the smart events of Intelbras, caught there.
OtherFails(r) ==
  /\ at[r] = "other"
  /\ \/ Answers(r, "error")
     \/ route[r] = "intelbras" /\ Answers(r, "raised")
  /\ UNCHANGED <<route, kind, sends, holder, left, dupOf, plates, others, ledger,
                 announced, broken>>

\* The API is killed; the camera gets no answer.
RequestDies(r) ==
  /\ at[r] # "camera"
  /\ Answers(r, "error")
  /\ broken' = IF InWork(r) /\ ~Stored(r) THEN broken \union {r} ELSE broken
  /\ UNCHANGED <<route, kind, sends, holder, left, dupOf, plates, others, ledger,
                 announced>>

KeyAges ==
  /\ left > 0
  /\ left' = left - 1
  /\ holder' = IF left = 1 THEN NoReading ELSE holder
  /\ UNCHANGED <<route, kind, at, sends, told, dupOf, plates, others, ledger, announced,
                 broken>>

AlprNext ==
  \/ \E r \in Readings :
       \/ SendReading(r) \/ ParseFails(r) \/ Unidentified(r) \/ StoreLedger(r) \/ NotAPlate(r)
       \/ TooWeak(r) \/ ClaimKey(r) \/ Duplicate(r) \/ InsertEvent(r) \/ PublishAlpr(r)
       \/ CommitAlpr(r) \/ LinkAndNotify(r) \/ ClaimRaises(r) \/ ClaimInDoubt(r)
       \/ IngestRaises(r) \/ StoreOther(r) \/ OtherFails(r) \/ RequestDies(r)
  \/ KeyAges

AlprSpec == AlprInit /\ [][AlprNext]_alprVars

-----------------------------------------------------------------------------
\* Types of the state.
AlprTypeOK ==
  /\ route \in [Readings -> Routes] /\ kind \in [Readings -> ReadingKinds]
  /\ at \in [Readings -> {"camera", "parse", "claim", "image", "publish", "commit",
                          "link", "other"}]
  /\ sends \in [Readings -> 0..MaxSends] /\ plates \in [Readings -> 0..MaxSends]
  /\ told \in [Readings -> {"none", "error"} \union Final]
  /\ holder \in Readings \union {NoReading} /\ left \in 0..DedupTtl
  /\ dupOf \in [Readings -> Readings \union {NoReading}]
  /\ others \subseteq Readings /\ ledger \subseteq Readings
  /\ announced \subseteq Readings /\ broken \subseteq Readings

\* A plate whose reading was taken for good, which is ok other than for a camera
\* nobody knows (200 to stop the resending) or an exception that the Intelbras
\* handler swallows, is in the history: as a reading, or as an event of the
\* camera's type after ingest_alpr had failed, or by the reading that it was
\* dropped for.  The one loss left is that of a reading dropped for one, itself
\* included, that took the key in a request that failed before its commit and
\* that was not sent again, or not yet: nothing gives the key back.  The same is
\* all that may have happened to a reading announced (publish_event before the
\* commit) or whose key keeps others out.
NoReadingLost ==
  /\ \A r \in Readings : told[r] = "ok" /\ kind[r] = "plate" =>
       LET kept == IF dupOf[r] = NoReading THEN r ELSE dupOf[r]
       IN r \in others \/ Stored(kept) \/ InWork(kept) \/ kept \in broken
  /\ \A r \in announced \union ({holder} \ {NoReading}) :
       Stored(r) \/ InWork(r) \/ r \in broken
=============================================================================
