\* Streams that compete for one token, with PROXY_KILL_ON_DISCONNECT.
CONSTANTS
  s1 = s1
  s2 = s2
  Streams = {s1, s2}
  MaxConc = 1
  KillOnDisconnect = TRUE
  StopAfterTools = TRUE
  MaxEvents = 1
  MaxComments = 0
  MaxStalls = 0
SPECIFICATION FairSpec
CHECK_DEADLOCK FALSE
INVARIANTS
  GuardCounts
  BackendsBounded
PROPERTIES
  ImplementsService
