---------------------------- MODULE ResponsesStream ----------------------------
(***************************************************************************)
(* A streamed /v1/responses request: the chat handler's chunks, which the  *)
(* adapter turns into the typed events of the Responses API, and the two   *)
(* ways they reach the socket: the adapter's chain of promises and the     *)
(* queue of the SSE writer, where the chat handler also writes an error.   *)
(*                                                                         *)
(*   src/src/handlers/responses/stream-adapter.js  the adapter             *)
(*   src/src/handlers/responses/stream.js          the route               *)
(*   src/src/handlers/chat/stream.js               its chunks and its end  *)
(*   src/src/services/sse.js                       the queue               *)
(*                                                                         *)
(* One choice, output mode openai-json (the default of the route).  An     *)
(* action of the program is a task of Node's event loop; the promises it   *)
(* leaves are run by the actions below until the program is Quiet.         *)
(***************************************************************************)
EXTENDS ToolCalls

CONSTANTS
  Tokens,    \* what arguments are made of
  Truths,    \* bound: the arguments a backend may give a call
  MaxChunk,  \* bound: tokens of one fragment
  MaxTexts   \* bound: text deltas

ASSUME ResponsesAssumption ==
  /\ Truths \subseteq Seq(Tokens) /\ "none" \notin Tokens
  /\ MaxChunk \in Nat \ {0} /\ MaxTexts \in Nat

VARIABLES
  backend,  \* what the backend says
  chat,     \* the chat handler
  adapter,  \* the adapter
  out       \* the way to the socket

vars == <<backend, chat, adapter, out>>

Event(kind, id, args) == [kind |-> kind, id |-> id, args |-> args]
Plain(kind) == Event(kind, NoName, <<>>)

\* sendRoleOnce has sent the first chunk when the handler returns.
Init ==
  /\ backend \in [style : {"chunks", "items"}, truth : [Names -> Truths],
                  sent : {[n \in Names |-> 0]}, child : {"running"}]
  /\ chat = [agg |-> EmptyAggregator,  \* toolCallAggregator
             texts |-> 0,              \* text deltas that came
             any |-> FALSE,            \* sentAny
             drop |-> FALSE,           \* dropAssistantContentAfterTools
             responded |-> FALSE, finalized |-> FALSE]
  /\ adapter = [agg |-> EmptyAggregator, items |-> <<>>, finished |-> FALSE]
  /\ out = [chain |-> <<Plain("created")>>,  \* writeChain: events, and "end"
            flying |-> FALSE,                \* the chain awaits an event's write
            queue |-> <<>>,                  \* the SSE queue
            waiting |-> "none",              \* what write() refused: whose drain is awaited
            ending |-> FALSE,                \* finishSSE's write is done
            ended |-> FALSE,                 \* res.writableEnded
            conn |-> "open",
            wire |-> <<>>]                   \* what the client gets

-----------------------------------------------------------------------------
(* The way to the socket.                                                   *)

Flushable == out.queue # <<>> /\ out.waiting = "none"
Chained == out.chain # <<>> /\ ~out.flying
Quiet == ~Flushable /\ ~out.ending /\ ~Chained /\ out.conn = "open"

IsRaw(e) == e.kind \in {"error", "DONE"}

\* flushSseQueue, one write; the socket takes it and may ask to wait.
Write(full) ==
  LET e == Head(out.queue)
  IN /\ out.conn = "open" /\ Flushable
     /\ out' = [out EXCEPT
          !.queue = Tail(@),
          !.wire = IF out.ended THEN @ ELSE Append(@, e),
          !.waiting = IF full THEN e.kind ELSE "none",
          !.flying = IF full \/ IsRaw(e) THEN @ ELSE FALSE,
          !.ending = @ \/ (~full /\ e.kind = "DONE")]
     /\ UNCHANGED <<backend, chat, adapter>>

\* The client reads, the socket drains, and the awaited write is done.
Drain ==
  /\ out.conn = "open" /\ out.waiting # "none"
  /\ ~out.ending /\ ~Chained
  /\ out' = [out EXCEPT !.waiting = "none",
                        !.flying = @ /\ out.waiting \in {"error", "DONE"},
                        !.ending = @ \/ out.waiting = "DONE"]
  /\ UNCHANGED <<backend, chat, adapter>>

\* finishSSE: the response ends when [DONE] is written.
EndRaw ==
  /\ out.conn = "open" /\ out.ending /\ ~Flushable
  /\ out' = [out EXCEPT !.ending = FALSE, !.ended = TRUE]
  /\ UNCHANGED <<backend, chat, adapter>>

\* writeEventInternal, for the next event of the chain: an ended response takes
\* none.  endStream's end comes after all of them.
Hand ==
  LET e == Head(out.chain)
  IN /\ out.conn = "open" /\ Chained /\ ~Flushable /\ ~out.ending
     /\ out' = CASE e.kind = "end" -> [out EXCEPT !.chain = Tail(@), !.ended = TRUE]
                 [] e.kind # "end" /\ out.ended -> [out EXCEPT !.chain = Tail(@)]
                 [] OTHER -> [out EXCEPT !.chain = Tail(@), !.flying = TRUE,
                                         !.queue = Append(@, e)]
     /\ UNCHANGED <<backend, chat, adapter>>

\* The socket closes: nothing of what follows is seen.
Disconnect ==
  /\ Quiet /\ ~out.ended
  /\ out' = [out EXCEPT !.conn = "gone"]
  /\ UNCHANGED <<backend, chat, adapter>>

-----------------------------------------------------------------------------
(* The adapter.                                                             *)

NewItem(id) == [id |-> id, last |-> <<>>]

\* resolveToolCallState: a known id decides, then the ordinal.
ItemOf(items, id, ordinal) ==
  LET known == {k \in DOMAIN items : items[k].id = id}
  IN IF known # {} THEN CHOOSE k \in known : TRUE ELSE ordinal

\* Mutant: a delta is taken for what it adds.
AllOf(last, args) == args

\* The part of the arguments the item has not been sent.
Remainder(last, args) ==
  IF Len(args) >= Len(last) THEN SubSeq(args, Len(last) + 1, Len(args)) ELSE args

\* emitToolCallDeltas, for one delta: the item when it is new, and the rest of
\* its arguments.
WithRest(r, d, k, item, rest) ==
  [items |-> [i \in 1 .. (IF k > Len(r.items) THEN k ELSE Len(r.items)) |->
                IF i # k THEN r.items[i]
                ELSE IF rest = <<>> THEN item ELSE [item EXCEPT !.last = d.args]],
   events |-> r.events
     \o (IF k > Len(r.items) THEN <<Event("added", item.id, <<>>)>> ELSE <<>>)
     \o (IF rest = <<>> THEN <<>> ELSE <<Event("args", item.id, rest)>>)]

WithItem(r, d, k, item) ==
  WithRest(r, d, k, item, IF d.args = NoArgs THEN <<>> ELSE Remainder(item.last, d.args))

AtItem(r, d, k) ==
  WithItem(r, d, k,
           IF k > Len(r.items) THEN NewItem(d.id)
           ELSE IF d.id = NoName THEN r.items[k] ELSE [r.items[k] EXCEPT !.id = d.id])

EmitDelta(r, d) == AtItem(r, d, ItemOf(r.items, d.id, d.index))

EmitDeltas(items, deltas) ==
  LET after[i \in 0 .. Len(deltas)] ==
        IF i = 0 THEN [items |-> items, events |-> <<>>]
        ELSE EmitDelta(after[i - 1], deltas[i])
  IN after[Len(deltas)]

\* onChunk, with tool calls in it: ingestDelta, and the events of its deltas.
OnIngested(agg, emitted) ==
  [adapter |-> [adapter EXCEPT !.agg = agg, !.items = emitted.items],
   events |-> emitted.events]

OnToolDeltas(deltas) ==
  LET r == Ingest(adapter.agg, AsFragments(deltas), FALSE)
  IN OnIngested(r.agg, EmitDeltas(adapter.items, r.deltas))

\* finalizeToolCalls: what is missing of every call, and its end.
CallEvents(k) ==
  LET call == adapter.agg.calls[k]
      i == ItemOf(adapter.items, call.id, k)
      last == IF i \in DOMAIN adapter.items THEN adapter.items[i].last ELSE <<>>
      rest == SubSeq(call.args, Len(last) + 1, Len(call.args))
  IN (IF i \in DOMAIN adapter.items THEN <<>> ELSE <<Event("added", call.id, <<>>)>>)
       \o (IF rest = <<>> THEN <<>> ELSE <<Event("args", call.id, rest)>>)
       \o <<Event("argsDone", call.id, call.args), Event("itemDone", call.id, call.args)>>

FinalEvents ==
  LET events[k \in 0 .. Len(adapter.agg.calls)] ==
        IF k = 0 THEN <<>> ELSE events[k - 1] \o CallEvents(k)
  IN events[Len(adapter.agg.calls)]

\* Mutant: the response ends before the chain has.
OnDoneAtOnce(o) ==
  [o EXCEPT !.chain = @ \o <<Plain("textDone")>> \o FinalEvents
                        \o <<Plain("completed"), Plain("done")>>,
            !.ended = TRUE]

\* onDone: everything is done, and the chain ends the response.
OnDone(o) ==
  [o EXCEPT !.chain = @ \o <<Plain("textDone")>> \o FinalEvents
                        \o <<Plain("completed"), Plain("done")>>
                        \o (IF o.ended THEN <<>> ELSE <<Plain("end")>>)]

-----------------------------------------------------------------------------
(* The chat handler.                                                        *)

\* emitDelta or emitMessage: the calls' deltas go to the adapter, then the text,
\* which is dropped behind tool calls.
Tell(r, text) ==
  LET t == OnToolDeltas(r.deltas)
      drop == chat.drop \/ r.deltas # <<>>
      shown == text /\ ~drop
  IN /\ chat' = [chat EXCEPT !.agg = r.agg, !.drop = drop, !.any = @ \/ shown]
     /\ adapter' = t.adapter
     /\ out' = [out EXCEPT !.chain = @ \o t.events
                                 \o (IF shown THEN <<Plain("text")>> ELSE <<>>)]

Reading == Quiet /\ backend.child = "running" /\ ~chat.finalized

TextDelta ==
  /\ Reading /\ chat.texts < MaxTexts
  /\ chat' = [chat EXCEPT !.texts = @ + 1, !.any = @ \/ ~chat.drop]
  /\ out' = IF chat.drop THEN out ELSE [out EXCEPT !.chain = Append(@, Plain("text"))]
  /\ UNCHANGED <<backend, adapter>>

\* The tokens of a call that came, and the k that come next.
Said(n) == SubSeq(backend.truth[n], 1, backend.sent[n])
Coming(n, k) == SubSeq(backend.truth[n], backend.sent[n] + 1, backend.sent[n] + k)

ToolFragment(n, k) ==
  LET part == Coming(n, k)
      first == backend.sent[n] = 0
      known == Alias(chat.agg, Id(n))
      f == IF backend.style = "items"
           THEN Fragment(Id(n), NoName, 0, part, FALSE)
           ELSE Fragment(NoName, IF first THEN Id(n) ELSE NoName,
                         IF first THEN Len(chat.agg.calls) + 1 ELSE known, part, FALSE)
  IN /\ Reading /\ Tell(Ingest(chat.agg, <<f>>, FALSE), FALSE)
     /\ backend' = [backend EXCEPT !.sent[n] = @ + k]

\* An item's arguments.done: all of the arguments again.
ArgumentsDone(n) ==
  /\ Reading /\ backend.style = "items" /\ backend.sent[n] > 0
  /\ Tell(Ingest(chat.agg,
                 <<Fragment(Id(n), NoName, 0, backend.truth[n], TRUE)>>, FALSE), FALSE)
  /\ backend' = [backend EXCEPT !.sent[n] = Len(backend.truth[n])]

\* The final message: the calls again, those the deltas did not bring, and the
\* text when no delta did.
Message(named, text) ==
  LET order == SetToSeq(named)
      fragments == [i \in DOMAIN order |->
                      Fragment(NoName, Id(order[i]), i, backend.truth[order[i]], TRUE)]
  IN /\ Reading /\ backend.style = "chunks" /\ (named # {} \/ text)
     /\ text => ~chat.any
     /\ \A n \in Names :
          backend.sent[n] > 0 => n \in named /\ backend.sent[n] = Len(backend.truth[n])
     /\ Tell(Ingest(chat.agg, fragments, TRUE), text)
     /\ backend' = [backend EXCEPT !.sent = [n \in Names |->
                      IF n \in named THEN Len(backend.truth[n]) ELSE 0]]

\* finalizeStream: the finish chunk has no event of its own; onDone follows, and
\* the backend is told to end.
Finalize(o) ==
  /\ chat' = [chat EXCEPT !.finalized = TRUE, !.responded = TRUE]
  /\ adapter' = [adapter EXCEPT !.finished = TRUE]
  /\ out' = IF adapter.finished THEN o ELSE OnDone(o)

TaskComplete ==
  /\ Reading
  /\ Finalize(out)
  /\ backend' = [backend EXCEPT !.child = "exiting"]

\* Mutant: the error is written, and the stream left open.
FailOpen ==
  /\ Quiet /\ ~chat.responded /\ backend.child = "running"
  /\ backend' = [backend EXCEPT !.child = "exiting"]
  /\ IF chat.agg.calls # <<>> THEN Finalize(out)
     ELSE /\ chat' = [chat EXCEPT !.responded = TRUE]
          /\ out' = [out EXCEPT !.queue = Append(@, Plain("error"))]
          /\ UNCHANGED adapter

\* onChildError, for an error of the backend or the request's timeout: with tool
\* calls it is an end like another, else the error goes past the adapter.
Fail ==
  /\ Quiet /\ ~chat.responded /\ backend.child = "running"
  /\ backend' = [backend EXCEPT !.child = "exiting"]
  /\ IF chat.agg.calls # <<>> THEN Finalize(out)
     ELSE /\ chat' = [chat EXCEPT !.responded = TRUE]
          /\ out' = [out EXCEPT !.queue = @ \o <<Plain("error"), Plain("DONE")>>]
          /\ UNCHANGED adapter

\* handleChildClose: the backend has ended, by itself or because it was told to.
\* When no text was sent, all it wrote is.
ChildCloses ==
  /\ Quiet /\ backend.child # "closed"
  /\ backend' = [backend EXCEPT !.child = "closed"]
  /\ IF chat.finalized THEN UNCHANGED <<chat, adapter, out>>
     ELSE Finalize(IF chat.any \/ (chat.texts = 0 /\ chat.agg.calls = <<>>) THEN out
                   ELSE [out EXCEPT !.chain = Append(@, Plain("text"))])

Next ==
  \/ \E full \in BOOLEAN : Write(full)
  \/ Drain \/ EndRaw \/ Hand \/ Disconnect
  \/ TextDelta
  \/ \E n \in Names : \E k \in 1 .. MaxChunk :
       k <= Len(backend.truth[n]) - backend.sent[n] /\ ToolFragment(n, k)
  \/ \E n \in Names : ArgumentsDone(n)
  \/ \E named \in SUBSET Names, text \in BOOLEAN : Message(named, text)
  \/ TaskComplete \/ Fail \/ ChildCloses

Spec == Init /\ [][Next]_vars

\* Promises and the queue go on, the request's timeout fires and a backend that
\* is told to end does; the client reads.
Fairness ==
  /\ WF_vars(\E full \in BOOLEAN : Write(full))
  /\ WF_vars(Drain) /\ WF_vars(EndRaw) /\ WF_vars(Hand) /\ WF_vars(Fail)

FairSpec == Spec /\ Fairness

-----------------------------------------------------------------------------

\* The next k tokens of a call look like what came before: they are its last
\* fragment again, or they begin as all that came does.
LooksRepeated(n, k) ==
  LET call == Alias(chat.agg, Id(n))
  IN \/ call # 0 /\ chat.agg.calls[call].last = Coming(n, k)
     \/ Said(n) # <<>> /\ (IsPrefix(Said(n), Coming(n, k)) \/ IsPrefix(Coming(n, k), Said(n)))

\* A step brings no such fragment; what its tokens are apart from that is free.
NoneLooksRepeated ==
  \A n \in Names, k \in 1 .. MaxChunk :
    k <= Len(backend.truth[n]) - backend.sent[n] /\ ToolFragment(n, k) => ~LooksRepeated(n, k)

PlainSpec == Init /\ [][Next /\ NoneLooksRepeated]_vars

FairPlainSpec == PlainSpec /\ Fairness

-----------------------------------------------------------------------------

W == out.wire
Before(i, kind, id) == {j \in 1 .. i - 1 : W[j].kind = kind /\ W[j].id = id}

\* What the client has read of a call's arguments, event by event.
Spelled(i, id) ==
  LET spell[j \in 0 .. i] ==
        IF j = 0 THEN <<>>
        ELSE spell[j - 1] \o (IF W[j].kind = "args" /\ W[j].id = id THEN W[j].args ELSE <<>>)
  IN spell[i]

\* Whatever the deltas, the final message and the backend's end bring together:
\* the first event is response.created; every item is added once, its arguments
\* are done once and then the item is, all before response.completed; the stream
\* ends with the done event.  After an error it ends with [DONE], which at most
\* the one event that waited in the queue follows.
EventGrammar ==
  /\ W # <<>> => W[1].kind = "created"
  /\ \A i \in DOMAIN W :
       /\ W[i].kind = "added" => Before(i, "added", W[i].id) = {}
       /\ W[i].kind \in {"args", "argsDone", "itemDone"} =>
            /\ Before(i, "added", W[i].id) # {}
            /\ Before(i, "itemDone", W[i].id) = {}
       /\ W[i].kind = "args" => Before(i, "argsDone", W[i].id) = {}
       /\ W[i].kind = "itemDone" => Cardinality(Before(i, "argsDone", W[i].id)) = 1
       /\ W[i].kind = "completed" =>
            /\ Before(i, "completed", NoName) = {}
            /\ \A j \in 1 .. i - 1 : W[j].kind = "added" => Before(i, "itemDone", W[j].id) # {}
       /\ W[i].kind = "done" => i = Len(W)
       /\ W[i].kind = "DONE" => i >= Len(W) - 1
  /\ out.ended => Last(W).kind = "done" \/ \E i \in DOMAIN W : W[i].kind = "DONE"

\* The item of a backend's call.
ItemName(n) ==
  LET k == Alias(chat.agg, Id(n))
  IN IF k = 0 THEN NoName ELSE chat.agg.calls[k].id

\* Of PlainSpec: the argument deltas of every item add up to the arguments of its
\* own call, and the done events have all of them, although two aggregators pass
\* the arguments on as a whole each time.
ArgumentsAddUp ==
  \A n \in Names : \A i \in DOMAIN W :
    W[i].id = ItemName(n) /\ W[i].kind \in {"args", "argsDone", "itemDone"} =>
      LET spelled == Spelled(i, W[i].id)
      IN /\ IsPrefix(spelled, backend.truth[n])
         /\ W[i].kind # "args" =>
              W[i].args = spelled /\ Len(spelled) = backend.sent[n]

\* A stream ends, for a client that reads: behind a full socket, after an error,
\* and when the backend says nothing more.
StreamEnds == <>(out.ended \/ out.conn = "gone")

\* What docs/dev/tool-call-aggregator.md says of the deltas: they contain the
\* cumulative arguments, here those of all the fragments that came.
CumulativeArguments ==
  \A n \in Names :
    LET k == Alias(chat.agg, Id(n))
    IN k # 0 => chat.agg.calls[k].told = SubSeq(backend.truth[n], 1, backend.sent[n])
=============================================================================
