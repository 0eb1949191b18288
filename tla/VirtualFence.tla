---------------------------- MODULE VirtualFence ----------------------------
(***************************************************************************)
(* The virtual fence plugin (intrusion): it follows the detections of the  *)
(* frames it is handed as tracks and reports a track that changes sides of *)
(* a zone.  There is one instance for all cameras, and one dictionary of   *)
(* tracks.                                                                 *)
(*                                                                         *)
(* A position is one of a few Places; Close pairs those whose score        *)
(* exceeds the threshold.  Which of several close tracks scores best is    *)
(* left open.  A frame is handled without an await, so the steps of one    *)
(* are not interleaved with anything.                                      *)
(***************************************************************************)
EXTENDS Naturals, FiniteSets

CONSTANTS
    FenceCameras,
    FenceZones,     \* the zones of each camera: [FenceCameras -> SUBSET ...]
    Places,
    Close,          \* the pairs of places that one track may join
    TrackIds,       \* bound: tracks at one time
    TrackTtl,       \* _track_ttl, in ticks
    MaxDetections,  \* bound: detections in a frame
    MaxRedraws,     \* bound: edits of zones
    NoFrame

ASSUME FenceAssumption ==
    /\ TrackTtl \in Nat /\ MaxRedraws \in Nat /\ MaxDetections \in Nat
    /\ \A a, b \in Places : <<a, b>> \in Close => <<b, a>> \in Close
    /\ NoFrame \notin FenceCameras

AllZones == UNION {FenceZones[c] : c \in FenceCameras}

VARIABLES
    tracks,     \* _tracks, by id; the ids without a track are "free"
    now,        \* the camera whose frame is handled, or NoFrame
    todo,       \* its detections that are not matched yet
    matched,    \* the tracks matched in this frame
    shape,      \* the places inside each zone's polygon
    alarms,     \* the results of the last frame
    redraws

fenceVars == <<tracks, now, todo, matched, shape, alarms, redraws>>

Sides == {"unknown", "in", "out"}

\* "by", "trail" and "redrawn" are history: the cameras whose frames have moved
\* the track, where to as long as it is one camera, and the zones whose polygon
\* changed since it was compared.
TrackRecords ==
    [place : Places, age : 0..TrackTtl + 1, counts : BOOLEAN, side : [AllZones -> Sides],
     by : SUBSET FenceCameras, trail : SUBSET Places, redrawn : SUBSET AllZones]
Alarms == [camera : FenceCameras, zone : AllZones, track : TrackIds,
           redrawn : BOOLEAN]

Free == [age |-> "free"]

Live == {t \in TrackIds : tracks[t] # Free}

\* Type invariant.
FenceTypeOK ==
    /\ \A t \in Live : tracks[t] \in TrackRecords
    /\ now \in FenceCameras \cup {NoFrame}
    /\ todo \subseteq Places /\ matched \subseteq Live
    /\ shape \in [AllZones -> SUBSET Places]
    /\ alarms \subseteq Alarms
    /\ redraws \in 0..MaxRedraws

FenceInit ==
    /\ tracks = [t \in TrackIds |-> Free]
    /\ now = NoFrame /\ todo = {} /\ matched = {}
    /\ \E p \in Places : shape = [z \in AllZones |-> {p}]
    /\ alarms = {} /\ redraws = 0

-----------------------------------------------------------------------------
\* The plugin is handed a frame: old tracks expire.
FrameArrives(c, detections) ==
    /\ now = NoFrame /\ Cardinality(detections) <= MaxDetections
    /\ now' = c /\ todo' = detections /\ matched' = {} /\ alarms' = {}
    /\ tracks' = [t \in TrackIds |->
                    IF t \in Live /\ tracks[t].age > TrackTtl THEN Free
                    ELSE tracks[t]]
    /\ UNCHANGED <<shape, redraws>>

Candidates(p) == {t \in Live \ matched : <<p, tracks[t].place>> \in Close}

Side(p, z) == IF p \in shape[z] THEN "in" ELSE "out"

\* The track as camera c saw it at p, as a detection that is of the zones'
\* classes and sure enough, or not.
SeenAt(track, p, c, counts) ==
    [track EXCEPT !.place = p, !.age = 0, !.counts = counts, !.by = @ \cup {c},
                  !.trail = IF track.by = {c} THEN @ \cup {p} ELSE {}]

\* Mutant of NewTrack: a track is taken to come from outside.
NewTrackOutside(p, c, counts) ==
    [place |-> p, age |-> 0, counts |-> counts, side |-> [z \in AllZones |-> "out"],
     by |-> {c}, trail |-> {p},
     redrawn |-> {}]

NewTrack(p, c, counts) ==
    [place |-> p, age |-> 0, counts |-> counts, side |-> [z \in AllZones |-> "unknown"],
     by |-> {c}, trail |-> {p},
     redrawn |-> {}]

\* The next detection joins the best track that is close and not yet matched,
\* or begins one, which a later detection of the same frame may still join.
MatchDetection(p, counts) ==
    /\ now # NoFrame /\ p \in todo
    /\ todo' = todo \ {p}
    /\ IF Candidates(p) = {}
       THEN /\ TrackIds # Live
            /\ tracks' = [tracks EXCEPT ![CHOOSE t \in TrackIds \ Live : TRUE] =
                                             NewTrack(p, now, counts)]
            /\ UNCHANGED matched
       ELSE \E t \in Candidates(p) :
               /\ tracks' = [tracks EXCEPT ![t] = SeenAt(@, p, now, counts)]
               /\ matched' = matched \cup {t}
    /\ UNCHANGED <<now, shape, alarms, redraws>>

\* A track that was compared with the zone before, on the other side of it.
Crossed(t, z) ==
    tracks[t].counts /\ tracks[t].side[z] \notin {"unknown", Side(tracks[t].place, z)}

Compared(t) ==
    [tracks[t] EXCEPT
        !.side = [z \in AllZones |-> IF z \in FenceZones[now]
                                     THEN Side(tracks[t].place, z) ELSE @[z]],
        !.redrawn = @ \ FenceZones[now]]

\* Every track whose last detection counts is compared with every zone of the
\* frame's camera; one that does not keeps the side it had.
FrameEnds ==
    /\ now # NoFrame /\ todo = {}
    /\ now' = NoFrame /\ matched' = {}
    /\ alarms' = UNION {{[camera |-> now, zone |-> z, track |-> t,
                          redrawn |-> z \in tracks[t].redrawn] :
                            t \in {u \in Live : Crossed(u, z)}} :
                              z \in FenceZones[now]}
    /\ tracks' = [t \in TrackIds |-> IF t \in Live /\ tracks[t].counts THEN Compared(t)
                                                                       ELSE tracks[t]]
    /\ UNCHANGED <<todo, shape, redraws>>

-----------------------------------------------------------------------------
\* An operator draws a zone anew; the refresh of the camera's task brings it in.
RedrawZone(z, p) ==
    /\ now = NoFrame
    /\ redraws < MaxRedraws
    /\ redraws' = redraws + 1
    /\ shape' = [shape EXCEPT ![z] = {p}]
    /\ tracks' = [t \in TrackIds |->
                    IF t \in Live THEN [tracks[t] EXCEPT !.redrawn = @ \cup {z}]
                    ELSE Free]
    /\ alarms' = {}
    /\ UNCHANGED <<now, todo, matched>>

FenceTick ==
    /\ now = NoFrame
    /\ \E t \in Live : tracks[t].age <= TrackTtl
    /\ tracks' = [t \in TrackIds |->
                    IF t \in Live /\ tracks[t].age <= TrackTtl
                    THEN [tracks[t] EXCEPT !.age = @ + 1] ELSE tracks[t]]
    /\ alarms' = {}
    /\ UNCHANGED <<now, todo, matched, shape, redraws>>

FenceNext ==
    \/ \E c \in FenceCameras, detections \in SUBSET Places :
          FrameArrives(c, detections)
    \/ \E p \in Places, counts \in BOOLEAN : MatchDetection(p, counts)
    \/ FrameEnds
    \/ \E z \in AllZones, p \in Places : RedrawZone(z, p)
    \/ FenceTick

FenceSpec == FenceInit /\ [][FenceNext]_fenceVars

-----------------------------------------------------------------------------
(* Properties. *)

\* Another camera's frames have moved the track.
Shared(a) == tracks[a.track].by # {a.camera}

\* The camera's own frames have put the track on both sides of the zone.
Witnessed(a) ==
    LET trail == tracks[a.track].trail
    IN  trail \cap shape[a.zone] # {} /\ trail \ shape[a.zone] # {}

\* A reported crossing was witnessed by the camera it is reported for, unless
\* the track is one of another camera too, or the zone was drawn anew under it.
FalseAlarmsExplained ==
    \A a \in alarms :
        Witnessed(a) \/ Shared(a) \/ a.redrawn
=============================================================================
