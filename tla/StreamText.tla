------------------------------ MODULE StreamText ------------------------------
(***************************************************************************)
(* What a streamed choice shows of the text its backend sends: the text    *)
(* arrives in pieces that may cut a <use_tool>...</use_tool> block         *)
(* anywhere, and in the obsidian-xml mode a block is shown whole or as the *)
(* XML of a structured tool call.                                          *)
(*                                                                         *)
(*   src/src/handlers/chat/stream-output.js           what is forwarded    *)
(*   src/src/handlers/chat/tool-buffer.js             open blocks          *)
(*   src/src/handlers/chat/stream-runtime-emitter.js  deltas and messages  *)
(*                                                                         *)
(* A text is a sequence of tokens: "u" ends the opening tag's name, ">"    *)
(* the closing tag, the others are plain.  Positions count from 0, as in   *)
(* the code.  Choices share nothing here, so there is one.                 *)
(***************************************************************************)
EXTENDS Integers, Sequences, FiniteSets, SequencesExt

CONSTANTS
  Texts,     \* bound: the texts a backend says
  MaxDelta,  \* bound: tokens of one delta
  MaxCalls   \* bound: structured tool calls

OPEN  == <<"<", "u">>
CLOSE == <<"<", "/", ">">>
Tokens == {"<", "u", "/", ">", "a", "b"}

ASSUME TextAssumption ==
  /\ Texts \subseteq Seq(Tokens)
  /\ MaxDelta \in Nat \ {0} /\ MaxCalls \in Nat

VARIABLES
  obsidian,  \* the output mode is obsidian-xml
  limit,     \* PROXY_SUPPRESS_TAIL_AFTER_TOOLS
  said,      \* the text the backend says
  position,  \* how much of it has come
  choice,    \* the choice's state, with its tool buffer and what it sent
  ended      \* "no", "message" (the final one came), "yes"

vars == <<obsidian, limit, said, position, choice, ended>>

Kinds == {"text", "block", "aborted", "xml"}

Choice ==
  [emitted : Seq(Tokens),
   upTo    : Nat,                   \* forwardedUpTo
   scan    : Nat,                   \* scanPos
   toolEnd : Nat \cup {-1},         \* lastToolEnd
   active  : Nat \cup {-1},         \* toolBuffer.active.start, -1 for null
   nested  : Nat,                   \* toolBuffer.active.nestedScanPos
   search  : Nat,                   \* toolBuffer.searchPos
   skip    : Nat,                   \* toolBuffer.skipUntil
   seen    : BOOLEAN,               \* textualToolContentSeen
   drop    : BOOLEAN,               \* dropAssistantContentAfterTools
   any     : BOOLEAN,               \* sentAny
   shown   : Nat,                   \* forwardedToolCount
   calls   : Seq({"part", "whole"}), \* the aggregator: do the arguments parse?
   sent    : Seq([kind : Kinds, from : Nat, to : Nat])]  \* content chunks

\* Every variable has its type.
TypeOK ==
  /\ obsidian \in BOOLEAN /\ limit \in BOOLEAN
  /\ said \in Seq(Tokens) /\ position \in 0 .. Len(said)
  /\ choice \in Choice
  /\ ended \in {"no", "message", "yes"}

Init ==
  /\ obsidian \in BOOLEAN /\ limit \in BOOLEAN
  /\ said \in Texts /\ position = 0 /\ ended = "no"
  /\ choice = [emitted |-> <<>>, upTo |-> 0, scan |-> 0, toolEnd |-> -1, active |-> -1,
               nested |-> 0, search |-> 0, skip |-> 0, seen |-> FALSE, drop |-> FALSE,
               any |-> FALSE, shown |-> 0, calls |-> <<>>, sent |-> <<>>]

-----------------------------------------------------------------------------
(* Texts and the tags in them.                                              *)

Least(a, b) == IF a <= b THEN a ELSE b
Most(a, b) == IF a >= b THEN a ELSE b

Slice(t, from, to) == SubSeq(t, from + 1, to)

Places(t, tag) == {i \in 0 .. Len(t) - Len(tag) : \A j \in DOMAIN tag : t[i + j] = tag[j]}

\* String.indexOf and lastIndexOf.
IndexOf(t, tag, from) ==
  LET later == {i \in Places(t, tag) : i >= from}
  IN IF later = {} THEN -1 ELSE CHOOSE i \in later : \A j \in later : i <= j

LastIndexOf(t, tag) ==
  LET all == Places(t, tag)
  IN IF all = {} THEN -1 ELSE CHOOSE i \in all : \A j \in all : j <= i

\* extractUseToolBlocks: from each opening tag to the next closing one.
Blocks(t, from) ==
  LET next[i \in 0 .. Len(t)] ==
        LET open  == IndexOf(t, OPEN, i)
            close == IF open < 0 THEN -1 ELSE IndexOf(t, CLOSE, open)
        IN IF close < 0 THEN <<>>
           ELSE <<[start |-> open, end |-> close + Len(CLOSE)]>> \o next[close + Len(CLOSE)]
  IN next[from]

\* A text's last tokens that may be the beginning of a tag.
TagBegins(t) == {s \in {<<"<">>, OPEN, <<"<", "/">>} : Len(t) - Len(s) \in Places(t, s)}

\* The new part of a delta: what repeats the end of the text is taken off.
NewPart(emitted, text) ==
  LET overlaps == {i \in 0 .. Least(Len(emitted), Len(text)) :
                     \A j \in 1 .. i : emitted[Len(emitted) - i + j] = text[j]}
      overlap == CHOOSE i \in overlaps : \A j \in overlaps : j <= i
  IN SubSeq(text, overlap + 1, Len(text))

-----------------------------------------------------------------------------
(* The tool buffer.                                                         *)

Complete(x, boundary) ==
  [x EXCEPT !.skip = Most(@, boundary), !.search = Most(@, boundary), !.active = -1]

\* trackToolBufferOpen.
TrackOpen(x) ==
  LET from == Most(x.search, x.upTo)
      open == IndexOf(x.emitted, OPEN, from)
  IN CASE x.active >= 0 \/ Places(x.emitted, OPEN) = {} -> x
       [] x.active < 0 /\ open >= 0 ->
            [x EXCEPT !.active = open, !.nested = open + Len(OPEN),
                      !.search = open + Len(OPEN)]
       [] OTHER -> [x EXCEPT !.search = Most(Len(x.emitted) - Len(OPEN), from)]

\* detectNestedToolBuffer: a second opening tag before the closing one?
Nested(x) ==
  LET close  == IndexOf(x.emitted, CLOSE, x.active)
      second == IndexOf(x.emitted, OPEN, x.nested)
  IN x.active >= 0 /\ second >= 0 /\ (close < 0 \/ second < close)

NestedScan(x) ==
  CASE x.active < 0 -> x
    [] x.active >= 0 /\ Nested(x) -> [x EXCEPT !.nested = IndexOf(x.emitted, OPEN, x.nested)]
    [] OTHER -> [x EXCEPT !.nested = Most(Len(x.emitted) - Len(OPEN), x.nested)]

-----------------------------------------------------------------------------
(* What is sent.                                                            *)

Send(x, kind, from, to) ==
  [x EXCEPT !.sent = Append(@, [kind |-> kind, from |-> from, to |-> to]), !.any = TRUE]

\* emitTextualToolMetadata: the blocks of a text become calls when there are none.
TextualCalls(x, t) ==
  IF x.calls # <<>> THEN x
  ELSE [x EXCEPT !.calls = [i \in DOMAIN Blocks(t, 0) |-> "whole"]]

\* emitToolContentChunk for a part of the text.
ShowPart(x, kind, from, to) ==
  LET y == TextualCalls(x, Slice(x.emitted, from, to))
  IN [Send(y, kind, from, to) EXCEPT !.drop = TRUE, !.seen = TRUE, !.shown = @ + 1]

\* Mutant: an open block is given up, and nothing of it is shown.
FlushNothing(x) == IF obsidian THEN [x EXCEPT !.active = -1] ELSE x

\* flushActiveToolBuffer: what an open block holds is shown as it is.
FlushActive(x) ==
  LET close == LastIndexOf(x.emitted, CLOSE)
      size == Len(x.emitted)
  IN CASE ~obsidian \/ x.active < 0 -> x
       [] obsidian /\ x.active >= 0 /\ close >= 0 -> Complete(x, close + Len(CLOSE))
       [] OTHER -> [ShowPart(x, "aborted", x.active, size) EXCEPT
                      !.upTo = size, !.scan = size, !.skip = size, !.search = size,
                      !.active = -1]

\* emitAggregatorToolContent: the XML of every call that is whole, in order.
EmitAggregator(x) ==
  LET whole == {n \in x.shown .. Len(x.calls) :
                  \A i \in x.shown + 1 .. n : x.calls[i] = "whole"}
      upTo == CHOOSE n \in whole : \A m \in whole : m <= n
      xmls == [i \in 1 .. upTo - x.shown |-> [kind |-> "xml", from |-> 0, to |-> 0]]
  IN CASE x.seen -> [x EXCEPT !.shown = Most(@, Len(x.calls))]
       [] ~x.seen /\ x.shown > Len(x.calls) -> [x EXCEPT !.shown = Len(x.calls)]
       [] ~x.seen /\ x.shown <= Len(x.calls) /\ upTo > x.shown ->
            [x EXCEPT !.sent = @ \o xmls, !.any = TRUE, !.drop = TRUE, !.shown = upTo]
       [] OTHER -> x

\* Mutant: what the text holds does not matter.
NeverShowsBlock(x, text) == FALSE

\* hasTextualToolPrefix: may the text be about to show a block itself?
MayShowBlock(x, text) ==
  LET t == x.emitted \o text
  IN x.active >= 0 \/ Places(t, OPEN) # {} \/ Places(t, <<"<", "/">>) # {} \/ TagBegins(t) # {}

-----------------------------------------------------------------------------
(* appendContentSegment.                                                    *)

\* Mutant: what was shown may be forwarded again.
ShowAllOnly(x, new) ==
  LET y == TextualCalls(x, Slice(x.emitted, new[1].start, new[1].end))
      chunks == [i \in DOMAIN new |-> [kind |-> "block", from |-> new[i].start, to |-> new[i].end]]
  IN Complete([y EXCEPT !.sent = @ \o chunks, !.any = TRUE, !.drop = TRUE, !.seen = TRUE,
                        !.shown = @ + Len(new)], new[Len(new)].end)

\* Each block is shown in a chunk of its own; the first one becomes a call when
\* there is none.
ShowAll(x, new) ==
  LET y == TextualCalls(x, Slice(x.emitted, new[1].start, new[1].end))
      chunks == [i \in DOMAIN new |-> [kind |-> "block", from |-> new[i].start, to |-> new[i].end]]
      end == new[Len(new)].end
  IN Complete([y EXCEPT !.sent = @ \o chunks, !.any = TRUE, !.drop = TRUE, !.seen = TRUE,
                        !.shown = @ + Len(new), !.upTo = end], end)

\* The blocks that are complete now; those whose end was forwarded or given up
\* are passed over, and they come first.  In the other mode the first new one
\* ends the text and is not shown.
ShowBlocks(x) ==
  LET found == Blocks(x.emitted, x.scan)
      last == found[Len(found)].end
      fresh == {i \in DOMAIN found : found[i].end > x.upTo /\ found[i].end > x.skip}
      first == CHOOSE i \in fresh : \A j \in fresh : i <= j
      scanned == [x EXCEPT !.scan = last, !.toolEnd = last]
  IN CASE found = <<>> -> x
       [] found # <<>> /\ fresh = {} -> scanned
       [] fresh # {} /\ obsidian -> ShowAll(scanned, SubSeq(found, first, Len(found)))
       [] OTHER -> [scanned EXCEPT !.upTo = found[first].end, !.drop = TRUE]

\* Mutant: the beginning of a tag is forwarded.
AllowedAll(x) ==
  LET ends == {Len(x.emitted)} \cup {e \in {x.active} : e >= x.upTo}
  IN CHOOSE e \in ends : \A f \in ends : e <= f

\* How far text may be forwarded: not into an open block, nor into what may be
\* the beginning of a tag.
Allowed(x) ==
  LET ends == {Len(x.emitted)}
        \cup {e \in {x.toolEnd} : limit /\ e >= 0}
        \cup {e \in {x.active} : e >= x.upTo}
        \cup {Len(x.emitted) - Len(s) : s \in {s \in TagBegins(x.emitted) :
                obsidian /\ Len(x.emitted) - Len(s) >= x.upTo}}
  IN CHOOSE e \in ends : \A f \in ends : e <= f

ForwardText(x) ==
  LET until == Allowed(x)
      close == LastIndexOf(Slice(x.emitted, x.upTo, until), CLOSE)
      to == IF limit /\ close >= 0 THEN x.upTo + close + Len(CLOSE) ELSE until
  IN IF until <= x.upTo THEN x ELSE [Send(x, "text", x.upTo, to) EXCEPT !.upTo = until]

AppendContent(x, text) ==
  LET new == NewPart(x.emitted, text)
      grown == [x EXCEPT !.emitted = @ \o new]
      opened == IF obsidian THEN TrackOpen(grown) ELSE grown
      flushed == IF Nested(opened) THEN FlushActive(NestedScan(opened)) ELSE NestedScan(opened)
      shown == ShowBlocks(flushed)
  IN CASE x.drop \/ new = <<>> -> x
       [] ~x.drop /\ new # <<>> /\ limit /\ Len(shown.sent) > Len(flushed.sent) -> shown
       [] OTHER -> ForwardText(shown)

-----------------------------------------------------------------------------
(* The backend's deltas and its final message.                              *)

Piece(k) == Slice(said, position, position + k)

\* A delta that is a string.
TextDelta(k) ==
  /\ ended = "no"
  /\ position' = position + k
  /\ choice' = AppendContent(choice, Piece(k))
  /\ UNCHANGED <<obsidian, limit, said, ended>>

\* What a change of the aggregator's calls shows.
CallsChanged(x, text) ==
  CASE ~obsidian -> [x EXCEPT !.drop = TRUE, !.shown = Len(x.calls)]
    [] obsidian /\ x.seen -> [x EXCEPT !.shown = Len(x.calls)]
    [] obsidian /\ ~x.seen /\ ~MayShowBlock(x, text) -> EmitAggregator(x)
    [] OTHER -> x

\* A delta that is an object: it opens a call or completes the last one, and may
\* carry text.
CallDelta(calls, k) ==
  /\ ended = "no"
  /\ position' = position + k
  /\ LET x == CallsChanged([choice EXCEPT !.calls = calls], Piece(k))
     IN choice' = IF k = 0 THEN x ELSE AppendContent(x, Piece(k))
  /\ UNCHANGED <<obsidian, limit, said, ended>>

\* The part of the final message the deltas did not bring.
Rest(x) ==
  CASE IsPrefix(x.emitted, said) -> SubSeq(said, Len(x.emitted) + 1, Len(said))
    [] ~IsPrefix(x.emitted, said) /\ ~x.any -> said
    [] OTHER -> <<>>

AppendRest(x) == IF Rest(x) = <<>> THEN x ELSE AppendContent(x, Rest(x))

\* The final message: a string,
TextMessage ==
  /\ ended = "no"
  /\ ended' = "message" /\ position' = Len(said)
  /\ choice' = AppendRest(TextualCalls(choice, said))
  /\ UNCHANGED <<obsidian, limit, said>>

\* or an object with n whole calls.
CallMessage(n) ==
  /\ ended = "no"
  /\ ended' = "message" /\ position' = Len(said)
  /\ LET named == TextualCalls([choice EXCEPT !.calls = [i \in 1 .. n |-> "whole"]], said)
         updated == Len(named.calls) > Len(choice.calls)
         counted == [named EXCEPT !.shown = Len(named.calls), !.drop = @ \/ updated]
     IN choice' = AppendRest(IF obsidian THEN CallsChanged(named, said)
                             ELSE counted)
  /\ UNCHANGED <<obsidian, limit, said>>

\* flushDanglingToolBuffers: the stream ends, with or without a final message.
End ==
  /\ ended # "yes"
  /\ ended' = "yes"
  /\ choice' = FlushActive(choice)
  /\ UNCHANGED <<obsidian, limit, said, position>>

OpenCall == Append(choice.calls, "part")
WholeCall == [choice.calls EXCEPT ![Len(choice.calls)] = "whole"]

Next ==
  \/ \E k \in 1 .. Least(MaxDelta, Len(said) - position) : TextDelta(k)
  \/ \E k \in 0 .. Least(MaxDelta, Len(said) - position) :
       \/ Len(choice.calls) < MaxCalls /\ CallDelta(OpenCall, k)
       \/ choice.calls # <<>> /\ Last(choice.calls) = "part" /\ CallDelta(WholeCall, k)
  \/ TextMessage
  \/ \E n \in Len(choice.calls) .. MaxCalls : CallMessage(n)
  \/ End

Spec == Init /\ [][Next]_vars
-----------------------------------------------------------------------------

ToolChunks == {i \in DOMAIN choice.sent : choice.sent[i].kind \in {"block", "aborted"}}
TextChunks == {i \in DOMAIN choice.sent : choice.sent[i].kind = "text"}
Covers(i, at) == choice.sent[i].from <= at /\ at < choice.sent[i].to

ClientText ==
  FlattenSeq([i \in DOMAIN choice.sent |->
                Slice(choice.emitted, choice.sent[i].from, choice.sent[i].to)])

\* An opening tag follows another one that is not closed.
SecondOpening(t) ==
  \E i, j \in Places(t, OPEN) : i < j /\ \A k \in Places(t, CLOSE) : k < i \/ j < k

\* A closing tag comes behind an opening one.
OpensFirst(t) == \A k \in Places(t, CLOSE) : \E i \in Places(t, OPEN) : i < k

\* The client reads the text in its order and no part of it twice, however the
\* deltas cut it, whether a block is shown whole or given up, and although the
\* final message says it all again.  (In the obsidian-xml mode a block opened
\* inside another one is the exception: with both in one delta the code may show
\* a later block that it has forwarded as text.)
InOrderOnce ==
  ~obsidian \/ ~SecondOpening(choice.emitted) =>
    \A i, j \in TextChunks \cup ToolChunks :
      i < j => choice.sent[i].to <= choice.sent[j].from

\* With the tail suppressed, no part of an opening tag is shown as text: a client
\* that looks for blocks never sees the beginning of one in one chunk and its
\* rest in another.  (A block opened inside another one is the exception.)
TagsNotTorn ==
  obsidian /\ limit /\ ~SecondOpening(choice.emitted) =>
    \A at \in Places(choice.emitted, OPEN) : \A i \in TextChunks :
      ~Covers(i, at) /\ ~Covers(i, at + 1)

\* A tool call is shown as the text has it or as the XML of the structured call,
\* never as both, in whatever order the two arrive.
ToolShownOnce ==
  ToolChunks # {} => \A i \in DOMAIN choice.sent : choice.sent[i].kind # "xml"

\* When the stream of a choice without tools has ended nothing it took in is
\* kept back, but what may be the beginning of a tag at the very end.  (For a
\* text whose tags open before they close, and not inside each other.)
NothingHeldBack ==
  /\ ended = "yes" /\ ~choice.drop
  /\ OpensFirst(choice.emitted) /\ ~SecondOpening(choice.emitted)
  => \A at \in 0 .. Len(choice.emitted) - 1 :
       \/ \E i \in TextChunks : Covers(i, at)
       \/ \E s \in TagBegins(choice.emitted) : obsidian /\ at >= Len(choice.emitted) - Len(s)

\* What README.md says of the stream: the chunks are the deltas as the backend
\* emits them.  For a text without tags and calls.
TextAsEmitted ==
  ended = "no" /\ choice.calls = <<>> /\ (\A i \in DOMAIN said : said[i] \in {"a", "b"}) =>
    ClientText = SubSeq(said, 1, position)
=============================================================================
