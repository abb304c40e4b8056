\* Two calls and a text delta; the arguments repeat tokens, in fragments that do
\* not look repeated.
CONSTANTS
  Names = {"p", "q"}
  Tokens = {"a", "b"}
  Truths <- RepeatedTruths
  MaxChunk = 2
  MaxTexts = 1
SPECIFICATION FairPlainSpec
CHECK_DEADLOCK FALSE
INVARIANTS
  EventGrammar
  ArgumentsAddUp
PROPERTY StreamEnds
