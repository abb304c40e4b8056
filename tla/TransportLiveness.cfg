\* Behind the gate: capacity, liveness and refinement.  No symmetry; one worker,
\* whose exit ends the run.
CONSTANTS
  r1 = r1
  r2 = r2
  Requests = {r1, r2}
  MaxConcurrency = 1
  Gated = TRUE
  MaxSpawns = 1
  MaxInits = 1
SPECIFICATION FairSpec
CHECK_DEADLOCK FALSE
INVARIANTS
  CapacityRespected
PROPERTIES
  EveryRequestEnds
  EverySlotIsFreed
  ImplementsService
