------------------------------ MODULE ZoneSync ------------------------------
(***************************************************************************)
(* How a detection zone (ROI) drawn in the web interface reaches the       *)
(* analysis of a camera, and leaves it again.  Rows change in transactions *)
(* that invalidate the cache of the API process that runs them before they *)
(* commit; GET /plugins/rois answers from that cache, one per process, for *)
(* CacheTtl; the camera's task asks for its zones every RefreshEvery.      *)
(*                                                                         *)
(* A camera's key in the cache is the camera.  RefreshEvery stands for the *)
(* interval of the refresh and the longest turn of the task's loop.        *)
(***************************************************************************)
EXTENDS Naturals

CONSTANTS
    Zones, ZoneCameras,
    Watched,        \* the cameras with a task in the orchestrator
    ApiWorkers,     \* the processes of uvicorn --workers
    CacheTtl,       \* _TTL of roi_cache
    RefreshEvery,   \* _ZONE_REFRESH_INTERVAL, and a turn of the loop
    MaxDelay,       \* bound: ticks from a request to its answer
    NoCamera        \* of a zone that does not exist

ASSUME ZoneSyncAssumption ==
    /\ CacheTtl \in Nat \ {0} /\ RefreshEvery \in Nat \ {0}
    /\ MaxDelay \in Nat \ {0}
    /\ Watched \subseteq ZoneCameras
    /\ NoCamera \notin ZoneCameras
    /\ Zones # {} /\ ApiWorkers # {}

VARIABLES
    zoneAt,      \* analytics_rois: the camera of each zone
    armed,       \* the zones whose schedules, if any, cover the present
    edit,        \* the transaction that edits a zone
    zoneCache,   \* roi_cache._cache of each process
    fetch,       \* the camera task's GET /plugins/rois
    used,        \* current_zones of the camera's task
    refreshAge,  \* ticks since it last asked
    since        \* history: ticks since a zone last was (TRUE) or was not
                 \* (FALSE) one of a camera's armed zones

zoneVars == <<zoneAt, armed, edit, zoneCache, fetch, used, refreshAge, since>>

\* From one request of a camera's task to the next.
Interval == IF RefreshEvery < MaxDelay THEN MaxDelay ELSE RefreshEvery

\* The zones of a camera's task are out of date by no more than this.
StaleBound == CacheTtl + Interval + 2 * MaxDelay - 1

NoEdit  == [open |-> FALSE, zone |-> CHOOSE z \in Zones : TRUE, to |-> NoCamera]
NoFetch == [step |-> "none", data |-> {}, worker |-> CHOOSE w \in ApiWorkers : TRUE,
            age |-> 0]
Empty   == [age |-> CacheTtl, held |-> {}]

\* Type invariant.
ZoneTypeOK ==
    /\ zoneAt \in [Zones -> ZoneCameras \cup {NoCamera}]
    /\ armed \subseteq Zones
    /\ edit \in [open : BOOLEAN, zone : Zones, to : ZoneCameras \cup {NoCamera}]
    /\ zoneCache \in [ApiWorkers -> [ZoneCameras ->
                        [age : 0..CacheTtl, held : SUBSET Zones]]]
    /\ fetch \in [Watched ->
                    [step : {"none", "asked", "read", "replied"},
                     data : SUBSET Zones, worker : ApiWorkers,
                     age : 0..MaxDelay]]
    /\ used \in [Watched -> SUBSET Zones]
    /\ refreshAge \in [Watched -> 0..RefreshEvery]
    /\ since \in [Zones -> [Watched -> [BOOLEAN -> 0..StaleBound + 1]]]

\* The zones a SELECT and is_armed_now find for camera c.
ArmedZones(c) == {z \in armed : zoneAt[z] = c}

ZoneInit ==
    /\ zoneAt = [z \in Zones |-> NoCamera] /\ armed = Zones
    /\ edit = NoEdit
    /\ zoneCache = [w \in ApiWorkers |-> [c \in ZoneCameras |-> Empty]]
    /\ fetch = [c \in Watched |-> NoFetch]
    /\ used = [c \in Watched |-> {}]
    /\ refreshAge = [c \in Watched |-> RefreshEvery]
    /\ since = [z \in Zones |-> [c \in Watched |->
                 [b \in BOOLEAN |-> IF b THEN StaleBound + 1 ELSE 0]]]

\* What is true from now on was true zero ticks ago.
Touch ==
    since' = [z \in Zones |-> [c \in Watched |->
                [since[z][c] EXCEPT ![z \in ArmedZones(c)'] = 0]]]

-----------------------------------------------------------------------------
(* The web interface and the clock. *)

\* create_roi, update_roi and delete_roi: the row is written, and the entry of
\* the camera it names from now on, or named until now, is dropped in this
\* process.  A zone that moves stays in the entry of its former camera.
EditZone(w, z, to) ==
    /\ ~ edit.open /\ zoneAt[z] # to
    /\ edit' = [open |-> TRUE, zone |-> z, to |-> to]
    /\ LET key == IF to = NoCamera THEN zoneAt[z] ELSE to
       IN  zoneCache' = [zoneCache EXCEPT ![w][key] = Empty]
    /\ UNCHANGED <<zoneAt, armed, fetch, used, refreshAge, since>>

\* get_db commits when the handler has returned, or rolls back.
EndEdit ==
    /\ edit.open
    /\ edit' = NoEdit
    /\ zoneAt' \in {zoneAt, [zoneAt EXCEPT ![edit.zone] = edit.to]}
    /\ UNCHANGED <<armed, zoneCache, fetch, used, refreshAge>>
    /\ Touch

\* A window of the zone's schedules begins or ends, or one is added or deleted.
ScheduleTurns(z) ==
    /\ armed' = IF z \in armed THEN armed \ {z} ELSE armed \cup {z}
    /\ UNCHANGED <<zoneAt, edit, zoneCache, fetch, used, refreshAge>>
    /\ Touch

-----------------------------------------------------------------------------
(* The camera's task and GET /plugins/rois. *)

\* The refresh in _process_camera, at any process of the API.
AskZones(c, w) ==
    /\ fetch[c].step = "none" /\ refreshAge[c] = RefreshEvery
    /\ fetch' = [fetch EXCEPT ![c] = [NoFetch EXCEPT !.step = "asked", !.worker = w]]
    /\ refreshAge' = [refreshAge EXCEPT ![c] = 0]
    /\ UNCHANGED <<zoneAt, armed, edit, zoneCache, used, since>>

CacheEntry(c) == zoneCache[fetch[c].worker][c]

Fresh(entry) == entry.age < CacheTtl

\* roi_cache.get finds a young entry.
ServeCached(c) ==
    /\ fetch[c].step = "asked" /\ Fresh(CacheEntry(c))
    /\ fetch' = [fetch EXCEPT ![c].step = "replied", ![c].data = CacheEntry(c).held]
    /\ UNCHANGED <<zoneAt, armed, edit, zoneCache, used, refreshAge, since>>

\* Otherwise the rows and their schedules are read ...
ReadZones(c) ==
    /\ fetch[c].step = "asked" /\ ~ Fresh(CacheEntry(c))
    /\ fetch' = [fetch EXCEPT ![c].step = "read", ![c].data = ArmedZones(c)]
    /\ UNCHANGED <<zoneAt, armed, edit, zoneCache, used, refreshAge, since>>

\* ... and entered in the cache, also when they were invalidated meanwhile.
StoreZones(c) ==
    /\ fetch[c].step = "read"
    /\ zoneCache' = [zoneCache EXCEPT ![fetch[c].worker][c] =
                       [age |-> 0, held |-> fetch[c].data]]
    /\ fetch' = [fetch EXCEPT ![c].step = "replied"]
    /\ UNCHANGED <<zoneAt, armed, edit, used, refreshAge, since>>

UseZones(c) ==
    /\ fetch[c].step = "replied"
    /\ used' = [used EXCEPT ![c] = fetch[c].data]
    /\ fetch' = [fetch EXCEPT ![c] = NoFetch]
    /\ UNCHANGED <<zoneAt, armed, edit, zoneCache, refreshAge, since>>

-----------------------------------------------------------------------------
Up(n, limit) == IF n < limit THEN n + 1 ELSE limit

\* Mutant of OnTime: a task without zones does not ask for any.
OnTimeUnlessIdle(c) ==
    IF fetch[c].step = "none" THEN used[c] = {} \/ refreshAge[c] < RefreshEvery
                              ELSE fetch[c].age < MaxDelay

\* A camera asks when its interval is over, and is answered within MaxDelay.
OnTime(c) ==
    IF fetch[c].step = "none" THEN refreshAge[c] < RefreshEvery
                              ELSE fetch[c].age < MaxDelay

\* Time passes.
ZoneTick ==
    /\ \A c \in Watched : OnTime(c)
    /\ zoneCache' = [w \in ApiWorkers |-> [c \in ZoneCameras |->
                       LET age == Up(zoneCache[w][c].age, CacheTtl)
                       IN  IF age = CacheTtl THEN Empty
                           ELSE [zoneCache[w][c] EXCEPT !.age = age]]]
    /\ fetch' = [c \in Watched |-> IF fetch[c].step = "none" THEN fetch[c]
                                       ELSE [fetch[c] EXCEPT !.age = @ + 1]]
    /\ refreshAge' = [c \in Watched |-> Up(refreshAge[c], RefreshEvery)]
    /\ since' = [z \in Zones |-> [c \in Watched |-> [b \in BOOLEAN |->
                   IF b = (z \in ArmedZones(c)) THEN 0
                   ELSE Up(since[z][c][b], StaleBound + 1)]]]
    /\ UNCHANGED <<zoneAt, armed, edit, used>>

ZoneNext ==
    \/ \E z \in Zones :
          \/ ScheduleTurns(z)
          \/ \E w \in ApiWorkers, to \in ZoneCameras \cup {NoCamera} :
                EditZone(w, z, to)
    \/ EndEdit
    \/ \E c \in Watched :
          \/ \E w \in ApiWorkers : AskZones(c, w)
          \/ ServeCached(c) \/ ReadZones(c) \/ StoreZones(c) \/ UseZones(c)
    \/ ZoneTick

ZoneSpec == ZoneInit /\ [][ZoneNext]_zoneVars

-----------------------------------------------------------------------------
(* Properties. *)

\* While the API answers, an analysed zone was drawn and armed, and a zone
\* that is not analysed was not, at most StaleBound ticks ago: no order of
\* edits, cached answers of several processes and refreshes keeps an older
\* state alive.
ZonesAreRecent ==
    \A z \in Zones, c \in Watched :
        since[z][c][(z \in used[c])] <= StaleBound
=============================================================================
