SPECIFICATION BacklogSpec
CONSTANTS
  Events = {e1, e2, e3}
  Loop = Loop
  Poison = {e1}
  MaxRows = 3
  MaxAge = 0
  MaxLag = 0
  InitialBackoff = 1
  MaxBackoff = 2
  AttemptCap = 1
  MaxRetryAfter = 2
  MaxFaults = 1
PROPERTIES
  PostsOnlyDueRows
  OnlyTheClockHastens
  QueueDrains
