SPECIFICATION OutboxSpec
CONSTANTS
  Events = {e1, e2, e3, e4}
  MaxRows = 2
  MaxAge = 2
  MaxLag = 1
  InitialBackoff = 1
  MaxBackoff = 1
  AttemptCap = 0
  MaxRetryAfter = 1
SYMMETRY EventSymmetry
INVARIANTS
  DiscardsOldest
  SizeCapped
