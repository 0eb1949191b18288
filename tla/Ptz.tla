--------------------------------- MODULE Ptz ----------------------------------
(***************************************************************************)
(* Pan, tilt and zoom of one ONVIF camera.  Every request of a user asks   *)
(* the camera for the address of its PTZ service and for a profile, at     *)
(* once, and then posts its command; each does so on connections of its    *)
(* own, with a timeout of its own, and no request knows of another.  A     *)
(* continuous move goes on until the camera is told otherwise.             *)
(***************************************************************************)
EXTENDS Integers, FiniteSets

CONSTANTS PtzRequests, \* requests, each made at most once
          Spots,       \* where the camera may look
          NoMove, NoToken

ASSUME PtzAssumption == IsFiniteSet(PtzRequests) /\ NoMove \notin PtzRequests

VARIABLES ptz,     \* request -> what it is and how far it is
          onWire,  \* commands the camera has yet to read
          motion,  \* axis -> the move that drives it, or NoMove
          looks,   \* where the camera looks
          presets  \* presets in the camera: token -> spot

ptzVars == <<ptz, onWire, motion, looks, presets>>

Axes == {"pantilt", "zoom"}
PtzOps == {"move", "stop", "goto", "save", "list"}
\* The camera hands out tokens by counting.
Tokens == 1..Cardinality(PtzRequests)
NewPtz == [op |-> "none", axes |-> {}, token |-> NoToken, step |-> "new", earlier |-> {}]

PtzInit ==
  /\ ptz = [r \in PtzRequests |-> NewPtz] /\ onWire = {}
  /\ motion = [x \in Axes |-> NoMove]
  /\ looks \in Spots /\ presets = <<>>

PtzAt(r, step) == ptz[r].step = step
Answered == {r \in PtzRequests : PtzAt(r, "done")}

-----------------------------------------------------------------------------
(***************************************************************************)
(* A request.                                                              *)
(***************************************************************************)
\* axes: those whose velocity in the body is not zero.
BeginPtz(r) ==
  /\ PtzAt(r, "new")
  /\ \E op \in PtzOps, axes \in SUBSET Axes, t \in Tokens \cup {NoToken} :
       /\ op # "move" => axes = {}
       /\ (op = "goto") = (t # NoToken)
       /\ ptz' = [ptz EXCEPT ![r] = [op |-> op, axes |-> axes, token |-> t, step |-> "context",
                                     earlier |-> Answered]]
  /\ UNCHANGED <<onWire, motion, looks, presets>>

\* When both answers of gather are there.
PostPtz(r) ==
  /\ PtzAt(r, "context")
  /\ ptz' = [ptz EXCEPT ![r].step = "sent"]
  /\ onWire' = onWire \cup {r}
  /\ UNCHANGED <<motion, looks, presets>>

\* Not an ONVIF camera, no PTZ service, a timeout, an answer that is not 200: 404, 400
\* or 502.  What was sent stays on its way.
PtzFails(r) ==
  /\ ptz[r].step \in {"context", "sent", "executed"}
  /\ ptz' = [ptz EXCEPT ![r].step = "failed"]
  /\ UNCHANGED <<onWire, motion, looks, presets>>

PtzAnswers(r) ==
  /\ PtzAt(r, "executed")
  /\ ptz' = [ptz EXCEPT ![r].step = "done"]
  /\ UNCHANGED <<onWire, motion, looks, presets>>

-----------------------------------------------------------------------------
(***************************************************************************)
(* The camera.                                                             *)
(***************************************************************************)
\* Mutant of StoppedAxes: the flag Zoom is left out.
PanTiltOnly == {"pantilt"}

StoppedAxes == {"pantilt", "zoom"}

Still == [x \in Axes |-> NoMove]

ContinuousMove(r) ==
  /\ ptz[r].op = "move"
  /\ motion' = [x \in Axes |-> IF x \in ptz[r].axes THEN r ELSE NoMove]
  /\ UNCHANGED <<looks, presets>>

StopMove(r) ==
  /\ ptz[r].op = "stop"
  /\ motion' = [x \in Axes |-> IF x \in StoppedAxes THEN NoMove ELSE motion[x]]
  /\ UNCHANGED <<looks, presets>>

GotoPreset(r) ==
  /\ ptz[r].op = "goto" /\ ptz[r].token \in DOMAIN presets
  /\ looks' = presets[ptz[r].token] /\ motion' = Still
  /\ UNCHANGED presets

\* The request names a preset, but only the name is sent: the camera makes a new one.
SetPreset(r) ==
  /\ ptz[r].op = "save"
  /\ presets' = [t \in DOMAIN presets \cup {Cardinality(DOMAIN presets) + 1} |->
                   IF t \in DOMAIN presets THEN presets[t] ELSE looks]
  /\ UNCHANGED <<looks, motion>>

GetPresets(r) == ptz[r].op = "list" /\ UNCHANGED <<motion, looks, presets>>

CameraExecutes(r) ==
  /\ r \in onWire
  /\ ContinuousMove(r) \/ StopMove(r) \/ GotoPreset(r) \/ SetPreset(r) \/ GetPresets(r)
  /\ onWire' = onWire \ {r}
  /\ ptz' = [ptz EXCEPT ![r].step = IF @ = "sent" THEN "executed" ELSE @]

\* Presets that the camera will not list are answered as if there were none.
CameraRefuses(r) ==
  /\ r \in onWire
  /\ onWire' = onWire \ {r}
  /\ ptz' = [ptz EXCEPT ![r].step =
               IF ptz[r].op = "list" /\ @ = "sent" THEN "executed" ELSE "failed"]
  /\ UNCHANGED <<motion, looks, presets>>

\* It turns while it is driven.
CameraTurns ==
  /\ motion # Still
  /\ looks' \in Spots
  /\ UNCHANGED <<ptz, onWire, motion, presets>>

PtzNext ==
  \/ \E r \in PtzRequests : \/ BeginPtz(r) \/ PostPtz(r) \/ PtzFails(r) \/ PtzAnswers(r)
                            \/ CameraExecutes(r) \/ CameraRefuses(r)
  \/ CameraTurns

PtzSpec == PtzInit /\ [][PtzNext]_ptzVars

-----------------------------------------------------------------------------
\* Type invariant.
PtzTypeOK ==
  /\ ptz \in [PtzRequests -> [op : PtzOps \cup {"none"}, axes : SUBSET Axes,
                              token : Tokens \cup {NoToken},
                              step : {"new", "context", "sent", "executed", "done", "failed"},
                              earlier : SUBSET PtzRequests]]
  /\ onWire \subseteq PtzRequests /\ motion \in [Axes -> PtzRequests \cup {NoMove}]
  /\ looks \in Spots /\ DOMAIN presets \subseteq Tokens
  /\ \A t \in DOMAIN presets : presets[t] \in Spots

\* What is to end all motion: stop, a move with all velocities zero, a preset.
Halts(r) ==
  \/ ptz[r].op \in {"stop", "goto"}
  \/ ptz[r].op = "move" /\ ptz[r].axes = {}

\* Nothing turns the camera that its user was told was done before he asked it to halt
\* and was told that too.  A move that was still under way, or had been given up, may.
HaltsHold ==
  \A x \in Axes, r \in PtzRequests :
    Halts(r) /\ PtzAt(r, "done") => motion[x] \notin ptz[r].earlier
=============================================================================
