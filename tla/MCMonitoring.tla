---------------------------- MODULE MCMonitoring ----------------------------
(***************************************************************************)
(* From a camera to what users are told of it, one instance each: the path *)
(* of its video, its recordings, its motion, the plates it reads, the      *)
(* reading and the analysis of its frames, zones, fences, speeds.          *)
(* They share no state in these models, so that every behaviour of all is  *)
(* an interleaving of their own: it is enough to let one part move, the    *)
(* one that part names, with the others at rest.                           *)
(***************************************************************************)
EXTENDS CameraPath, AlprIngest, Orchestrator, ZoneSync, VirtualFence,
        Recordings, SpeedTrap, FrameSource, Ptz

CONSTANTS OneRequest, \* the request about a camera that the other may overlap
          OneReading, \* one of the readings, which is of the plate
          OneCamera,  \* the one camera that changes while it is analysed
          OneSpot

VARIABLE part

Parts == {"camera", "alpr", "orchestrator", "zones", "fence",
          "recordings", "speed", "source", "ptz"}

MCFenceZones == [c \in FenceCameras |-> IF c = "gate" THEN {"court"} ELSE {}]
MCClose == {pair \in Places \X Places :
              pair[1] = pair[2] \/ {pair[1], pair[2]} = {"p1", "p2"}}

Chosen(p, value) == part = p \/ value

\* A part at rest has one initial state.
MonitoringInit ==
  /\ part \in Parts
  /\ CameraInit /\ Chosen("camera", push /\ ~created) /\ (created /\ ~push => cameraRow.rec)
  /\ AlprInit /\ kind[OneReading] = "plate"
  /\ Chosen("alpr", \A r \in Readings : route[r] = "alpr" /\ kind[r] = "plate")
  /\ OrchInit
  /\ IF part = "orchestrator" THEN Cameras \ {OneCamera} \subseteq shown ELSE shown = {}
  /\ ZoneInit
  /\ FenceInit /\ \A z \in AllZones : shape[z] = {"p1"}
  /\ RecordingsInit /\ Chosen("recordings", recRow.days = 1)
  /\ SpeedInit
  /\ SourceInit /\ Chosen("source", streamUp)
  /\ PtzInit /\ looks = OneSpot

\* Bound: the other cameras are only there to share the queue and the batches,
\* with one frame that shows something.
OrchStaysSmall ==
  \A c \in Cameras \ {OneCamera} :
    /\ frame'[c].no <= 1 /\ (frame'[c].no = 1 => frame'[c].busy)
    /\ (c \in shown') = (c \in shown)
    /\ (c \in readable') = (c \in readable)
    /\ installed'[c] = installed[c]

\* Bound: a stream comes up only on a camera that is pulled and meets one edit;
\* two edits, which may overlap, meet a path without a stream.
CameraStaysSmall ==
  \/ ~ready' /\ hooks' = {} /\ ~cameraRow'.online /\ cameraRow'.seen = Long
  \/ edits' <= 1 /\ ~push
OneOverlapsTheOther ==
  \A r \in CameraRequests \ {OneRequest} :
    task[r].op = "idle" => task'[r].op = "idle" \/ task[OneRequest].op # "idle"

Rests(p, vars) == IF part = p THEN TRUE ELSE UNCHANGED vars

MonitoringNext ==
  /\ UNCHANGED part
  /\ Rests("camera", cameraVars) /\ Rests("alpr", alprVars)
  /\ Rests("orchestrator", orchVars) /\ Rests("zones", zoneVars)
  /\ Rests("fence", fenceVars) /\ Rests("recordings", recVars)
  /\ Rests("speed", speedVars) /\ Rests("source", sourceVars) /\ Rests("ptz", ptzVars)
  /\ \/ part = "camera" /\ CameraNext /\ CameraStaysSmall /\ OneOverlapsTheOther
     \/ part = "alpr" /\ AlprNext
     \/ part = "orchestrator" /\ OrchNext /\ OrchStaysSmall
     \/ part = "zones" /\ ZoneNext
     \/ part = "fence" /\ FenceNext
     \/ part = "recordings" /\ RecordingsNext
     \/ part = "speed" /\ SpeedNext
     \/ part = "source" /\ SourceNext
     \/ part = "ptz" /\ PtzNext

monitoringVars == <<part, cameraVars, alprVars, orchVars, zoneVars, fenceVars, recVars,
                    speedVars, sourceVars, ptzVars>>

MonitoringSpec == MonitoringInit /\ [][MonitoringNext]_monitoringVars

\* What the variables of the part that moves may hold; the others are at rest.
MonitoringTypeOK ==
  /\ part \in Parts
  /\ part = "camera" => CameraTypeOK
  /\ part = "alpr" => AlprTypeOK
  /\ part = "orchestrator" => OrchTypeOK
  /\ part = "zones" => ZoneTypeOK
  /\ part = "fence" => FenceTypeOK
  /\ part = "recordings" => RecordingsTypeOK
  /\ part = "speed" => SpeedTypeOK
  /\ part = "source" => SourceTypeOK
  /\ part = "ptz" => PtzTypeOK
=============================================================================
