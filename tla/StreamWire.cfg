\* One stream in detail, without PROXY_KILL_ON_DISCONNECT (the default).
CONSTANTS
  s1 = s1
  s2 = s2
  Streams = {s1}
  MaxConc = 1
  KillOnDisconnect = FALSE
  StopAfterTools = TRUE
  MaxEvents = 3
  MaxComments = 1
  MaxStalls = 2
SPECIFICATION FairSpec
CHECK_DEADLOCK FALSE
INVARIANTS
  StreamGrammar
  ToolCallsEndWell
  NoTextAfterBlock
PROPERTIES
  NothingAfterRelease
  StreamsEnd
