------------------------------ MODULE SpeedTrap -------------------------------
(***************************************************************************)
(* The speed plugin.  It follows detections as tracks, one dictionary for  *)
(* all cameras, notes where and when a track was first and last inside a   *)
(* calibrated zone and, when it is outside, reports the distance over the  *)
(* time.  Every frame moves the notes of every track on, of those too that *)
(* it does not show.                                                       *)
(*                                                                         *)
(* The road is a line of Spots; one zone of one camera, TrapCamera, is     *)
(* calibrated.  Which of several close tracks scores best is left open.    *)
(***************************************************************************)
EXTENDS Integers, FiniteSets, FiniteSetsExt

CONSTANTS TrapCamera, OtherCameras,
          Vehicles, RoadEnd, Reach, \* a track joins detections at most Reach away
          MinShift,                 \* _MIN_DISPLACEMENT_NORM
          SpeedTracks, SpeedTtl,    \* ids of tracks; _track_ttl
          LastFrame, MaxReshapes,   \* bounds: time, edits of the zone
          MaxShown,                 \* and detections in a frame
          NoTrap

ASSUME SpeedAssumption ==
  /\ {RoadEnd, Reach, MinShift, SpeedTtl, LastFrame, MaxReshapes, MaxShown} \subseteq Nat
  /\ NoTrap \notin {TrapCamera} \cup OtherCameras

VARIABLES follows,  \* track id -> the track
          inFrame,    \* the frame that is handled
          inside,   \* the spots in the zone's polygon
          time, measured, reshapes

speedVars == <<follows, inFrame, inside, time, measured, reshapes>>

Road == 0..RoadEnd
Moments == 0..LastFrame
TrapCameras == {TrapCamera} \cup OtherCameras
\* When a position was noted, and history: when the detection that gave it was made.
Notes == [spot : Road, ts : Moments, seen : Moments]
NoPassage == [entry |-> {}, last |-> {}]
FreeTrack == [spot |-> -1]
NoFrameHere == [camera |-> NoTrap, left |-> {}, taken |-> {}]

InUse == {t \in SpeedTracks : follows[t] # FreeTrack}
Distance(a, b) == IF a < b THEN b - a ELSE a - b

SpeedInit ==
  /\ follows = [t \in SpeedTracks |-> FreeTrack]
  /\ inFrame = NoFrameHere /\ time = 0 /\ measured = {} /\ reshapes = 0
  /\ inside = 1..(RoadEnd - 1)

\* Frames of all cameras come one after another, soon or late, with at most one
\* detection of each vehicle.  Old tracks expire, unmeasured.
TakeFrame(c, shown, after) ==
  /\ inFrame = NoFrameHere /\ time + after <= LastFrame
  /\ time' = time + after
  /\ inFrame' = [camera |-> c, left |-> shown, taken |-> {}]
  /\ measured' = {}
  /\ follows' = [t \in SpeedTracks |-> IF t \in InUse /\ time' - follows[t].seen > SpeedTtl
                                         THEN FreeTrack ELSE follows[t]]
  /\ UNCHANGED <<inside, reshapes>>

Joinable(spot) ==
  {t \in InUse \ inFrame.taken : Distance(spot, follows[t].spot) <= Reach}

\* "of", "by" and "redrawn" are history: whose detections and frames made the track,
\* and did the zone change while it was followed.
Sighted(d, counts) == [spot |-> d.spot, seen |-> time, counts |-> counts,
                       passage |-> NoPassage, of |-> {d.vehicle}, by |-> {inFrame.camera},
                       redrawn |-> FALSE]
Joined(track, d, counts) ==
  [track EXCEPT !.spot = d.spot, !.seen = time, !.counts = counts,
                !.of = @ \cup {d.vehicle}, !.by = @ \cup {inFrame.camera}]

FollowDetection(d, counts) ==
  /\ d \in inFrame.left
  /\ IF Joinable(d.spot) = {}
       THEN \E t \in SpeedTracks \ InUse :
              /\ t = CHOOSE u \in SpeedTracks \ InUse : TRUE
              /\ follows' = [follows EXCEPT ![t] = Sighted(d, counts)]
              /\ inFrame' = [inFrame EXCEPT !.left = @ \ {d}]
       ELSE \E t \in Joinable(d.spot) :
              /\ follows' = [follows EXCEPT ![t] = Joined(@, d, counts)]
              /\ inFrame' = [inFrame EXCEPT !.left = @ \ {d}, !.taken = @ \cup {t}]
  /\ UNCHANGED <<inside, time, measured, reshapes>>

-----------------------------------------------------------------------------
\* The frame's timestamp goes with whatever position the track has.
Noted(t) == [spot |-> follows[t].spot, ts |-> time, seen |-> follows[t].seen]
Passing(t) == follows[t].passage.entry # {}
InZone(t) == follows[t].spot \in inside

NextPassage(t) ==
  CASE InZone(t) /\ ~Passing(t) -> [entry |-> {Noted(t)}, last |-> {Noted(t)}]
    [] InZone(t) /\ Passing(t) -> [follows[t].passage EXCEPT !.last = {Noted(t)}]
    [] OTHER -> NoPassage

\* Mutant of ExitNote: the distance goes as far as where the track is now.
ExitNoteOutside(t, last) == [last EXCEPT !.spot = follows[t].spot, !.seen = follows[t].seen]

\* The exit is where and when the track was last inside.
ExitNote(t, last) == last

\* _try_measure_speed; the limit of 180 km/h only leaves reports out.
Measures(t) ==
  {[track |-> follows[t], from |-> p[1], to |-> ExitNote(t, p[2])] :
     p \in {q \in follows[t].passage.entry \X follows[t].passage.last :
              /\ Distance(q[1].spot, ExitNote(t, q[2]).spot) >= MinShift
              /\ ExitNote(t, q[2]).ts > q[1].ts}}

\* Only frames of the zone's camera bring the zone along.
Compares(t) == inFrame.camera = TrapCamera /\ t \in InUse /\ follows[t].counts

HandleZones ==
  /\ inFrame # NoFrameHere /\ inFrame.left = {}
  /\ measured' = UNION {Measures(t) : t \in {u \in SpeedTracks :
                                                Compares(u) /\ Passing(u) /\ ~InZone(u)}}
  /\ follows' = [t \in SpeedTracks |->
                   IF Compares(t) THEN [follows[t] EXCEPT !.passage = NextPassage(t)]
                                  ELSE follows[t]]
  /\ inFrame' = NoFrameHere
  /\ UNCHANGED <<inside, time, reshapes>>

\* An operator draws the zone anew, or its schedule arms and disarms it.
Reshape(spots) ==
  /\ inFrame = NoFrameHere /\ reshapes < MaxReshapes
  /\ inside' = spots /\ reshapes' = reshapes + 1
  /\ follows' = [t \in SpeedTracks |->
                   IF t \in InUse THEN [follows[t] EXCEPT !.redrawn = TRUE]
                                  ELSE follows[t]]
  /\ measured' = {}
  /\ UNCHANGED <<inFrame, time>>

Sightings == [vehicle : Vehicles, spot : Road]
FramesShown == {shown \in UNION {kSubset(k, Sightings) : k \in 0..MaxShown} :
             \A x, y \in shown : x.vehicle = y.vehicle => x = y}

SpeedNext ==
  \/ \E c \in TrapCameras, shown \in FramesShown, after \in 1..(SpeedTtl + 1) :
       TakeFrame(c, shown, after)
  \/ \E d \in Sightings, counts \in BOOLEAN : FollowDetection(d, counts)
  \/ HandleZones
  \/ \E spots \in {1..k : k \in 0..(RoadEnd - 1)} : Reshape(spots)

SpeedSpec == SpeedInit /\ [][SpeedNext]_speedVars

-----------------------------------------------------------------------------
IsTrack(x) ==
  /\ x.spot \in Road /\ x.seen \in Moments /\ x.counts \in BOOLEAN
  /\ x.passage.entry \subseteq Notes /\ x.passage.last \subseteq Notes
  /\ x.of \subseteq Vehicles /\ x.by \subseteq TrapCameras /\ x.redrawn \in BOOLEAN

\* Type invariant.
SpeedTypeOK ==
  /\ \A t \in InUse : IsTrack(follows[t])
  /\ inFrame.camera \in TrapCameras \cup {NoTrap}
  /\ inFrame.left \subseteq Sightings /\ inFrame.taken \subseteq SpeedTracks
  /\ inside \subseteq Road /\ time \in Moments /\ reshapes \in 0..MaxReshapes
  /\ \A m \in measured : m.from \in Notes /\ m.to \in Notes /\ IsTrack(m.track)

\* Frames of another camera, or detections of another vehicle, went into the track, or
\* the zone changed under it.
MixedUp(m) ==
  \/ Cardinality(m.track.of) > 1 \/ m.track.by # {TrapCamera}
  \/ m.track.redrawn

\* No vehicle is reported faster than it was seen to go, unless it was mixed up with
\* another, or with one of another camera, or the zone was drawn anew under it:
\* what is late or missing in a track only makes the reported time longer.
NeverTooFast ==
  \A m \in measured :
    MixedUp(m) \/ m.to.ts - m.from.ts >= m.to.seen - m.from.seen
=============================================================================
