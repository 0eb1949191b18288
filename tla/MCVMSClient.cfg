SPECIFICATION Spec
CONSTANTS
  Events = {e1, e2}
  Loop = Loop
  Poison = {e1}
  MaxRows = 1
  MaxAge = 1
  MaxLag = 0
  InitialBackoff = 1
  MaxBackoff = 1
  AttemptCap = 0
  MaxRetryAfter = 1
  MaxFaults = 2
INVARIANTS
  TypeOK
  AcceptedNotLost
  CopiesExplained
  ClipsHaveEvents
PROPERTY DeliverySpec
