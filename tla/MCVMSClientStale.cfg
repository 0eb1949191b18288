SPECIFICATION Spec
CONSTANTS
  Events = {e1, e2}
  Loop = Loop
  Poison = {}
  MaxRows = 1
  MaxAge = 1
  MaxLag = 0
  InitialBackoff = 1
  MaxBackoff = 2
  AttemptCap = 1
  MaxRetryAfter = 2
  MaxFaults = 1
PROPERTY PostsOnlyDueRows
