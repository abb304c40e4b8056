---------------------------- MODULE MCStreamText ----------------------------
(* A small instance of StreamText for TLC. *)
EXTENDS StreamText

Block == OPEN \o CLOSE
Pieces == {<<"a">>, <<"<">>, OPEN, CLOSE, Block}

\* The texts of at most three pieces, two of them whole blocks at most.
MCTexts == {t \in {FlattenSeq(s) : s \in UNION {[1 .. n -> Pieces] : n \in 1 .. 3}} : Len(t) <= 11}
=============================================================================
