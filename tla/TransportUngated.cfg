\* Callers that do not pass requireWorkerReady, and two slots; what a caller
\* behind the gate does is among the behaviours.
CONSTANTS
  r1 = r1
  r2 = r2
  Requests = {r1, r2}
  MaxConcurrency = 2
  Gated = FALSE
  MaxSpawns = 2
  MaxInits = 2
SPECIFICATION Spec
SYMMETRY Symmetry
CHECK_DEADLOCK FALSE
INVARIANTS
  InductiveInvariant
  SlotAccounting
  ReadyMeansHandshake
  NobodyStranded
  LiveHearsItself
PROPERTIES
  OutcomeIsFinal
