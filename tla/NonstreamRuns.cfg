\* Two choices, the early truncation and PROXY_KILL_ON_DISCONNECT.
CONSTANTS
  MaxChoices = 2
  MaxBlocks = 1
  KillOnDisconnect = TRUE
  EarlyTruncate = TRUE
  MaxCalls = 2
  MaxLines = 2
SPECIFICATION FairSpec
CHECK_DEADLOCK FALSE
INVARIANTS
  OneAnswerOneLog
  ChoicesAreTrue
  ResponsesShape
PROPERTIES
  AnswerIsComplete
  RequestsEnd
