SPECIFICATION FairSpec
CHECK_DEADLOCK FALSE
INVARIANT AnswerFits
PROPERTY NothingLeftBehind
