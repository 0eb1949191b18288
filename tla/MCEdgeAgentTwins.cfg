SPECIFICATION Spec
CONSTANTS
  Cameras = {c1, c2}
  Urls = {u1}
  Objs = {o1, o2, o3, o4}
  Procs = {p1, p2, p3, p4}
  Poll = poll
  Push = push
  Health = health
  Main = main
  Tasks = {poll, push, health, main}
  None = None
  InitialDelay = 1
  MaxDelay = 2
  RestartCap = 1
  MaxDeaths = 0
  MaxFailures = 0
  MaxChanges = 2
  MaxRaises = 0
SYMMETRY CameraSymmetry
INVARIANT OneProcessPerCamera
CHECK_DEADLOCK FALSE
