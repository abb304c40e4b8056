CONSTANTS
  r1 = r1
  r2 = r2
  Requests = {r1, r2}
  MaxConcurrency = 1
  Gated = TRUE
  MaxSpawns = 2
  MaxInits = 2
SPECIFICATION Spec
CHECK_DEADLOCK FALSE
INVARIANT ProxySurvives
