\* Texts of three pieces, cut in deltas of up to five tokens, and one structured call.
CONSTANTS
  Texts <- MCTexts
  MaxDelta = 5
  MaxCalls = 1
SPECIFICATION Spec
CHECK_DEADLOCK FALSE
INVARIANTS
  InOrderOnce
  TagsNotTorn
  ToolShownOnce
  NothingHeldBack
