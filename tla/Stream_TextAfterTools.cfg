\* One stream with PROXY_STOP_AFTER_TOOLS: a structured tool call, then text.
CONSTANTS
  s1 = s1
  s2 = s2
  Streams = {s1}
  MaxConc = 1
  KillOnDisconnect = FALSE
  StopAfterTools = TRUE
  MaxEvents = 2
  MaxComments = 0
  MaxStalls = 0
SPECIFICATION Spec
CHECK_DEADLOCK FALSE
INVARIANT NoTextAfterTools
