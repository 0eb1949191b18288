SPECIFICATION FairSpec
CONSTANTS
  Cameras = {c1}
  Urls = {u1}
  Objs = {o1, o2}
  Procs = {p1, p2, p3}
  Poll = poll
  Push = push
  Health = health
  Main = main
  Tasks = {poll, push, health, main}
  None = None
  InitialDelay = 1
  MaxDelay = 2
  RestartCap = 1
  MaxDeaths = 0
  MaxFailures = 1
  MaxChanges = 0
  MaxRaises = 0
PROPERTY NeverGivesUp
CHECK_DEADLOCK FALSE
