-------------------------- MODULE MCResponsesStream --------------------------
(* Small instances of ResponsesStream for TLC. *)
EXTENDS ResponsesStream

\* The last token is the first again, as the brace of a nested object is.
NestedTruths == {<<"a", "b", "a">>}

\* A token comes again behind others, and twice in a row.
RepeatedTruths == NestedTruths \cup {<<"b", "a", "a">>}
=============================================================================
