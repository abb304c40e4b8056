\* The arguments' last token is their first again.
CONSTANTS
  Names = {"p"}
  Tokens = {"a", "b"}
  Truths <- NestedTruths
  MaxChunk = 2
  MaxTexts = 0
SPECIFICATION Spec
CHECK_DEADLOCK FALSE
INVARIANT CumulativeArguments
