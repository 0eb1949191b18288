SPECIFICATION FairSpec
CONSTANTS
  Cameras = {c1}
  Urls = {u1, u2}
  Objs = {o1, o2}
  Procs = {p1, p2}
  Poll = poll
  Push = push
  Health = health
  Main = main
  Tasks = {poll, push, health, main}
  None = None
  InitialDelay = 1
  MaxDelay = 2
  RestartCap = 1
  MaxDeaths = 0
  MaxFailures = 0
  MaxChanges = 1
  MaxRaises = 0
PROPERTY UrlsConverge
CHECK_DEADLOCK FALSE
