SPECIFICATION Spec
CONSTANTS
  Cameras = {c1, c2}
  Urls = {u1}
  Objs = {o1, o2, o3}
  Procs = {p1, p2, p3}
  Poll = poll
  Push = push
  Health = health
  Main = main
  Tasks = {poll, push, health, main}
  None = None
  InitialDelay = 1
  MaxDelay = 2
  RestartCap = 1
  MaxDeaths = 1
  MaxFailures = 1
  MaxChanges = 1
  MaxRaises = 1
SYMMETRY CameraSymmetry
INVARIANTS
  TypeOK
  ProcessesTracked
  StopLeavesNothing
CHECK_DEADLOCK FALSE
