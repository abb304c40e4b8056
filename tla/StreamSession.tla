---------------------------- MODULE StreamSession ----------------------------
(***************************************************************************)
(* Chat completions streamed over server-sent events: the handler of each  *)
(* request, the queue in front of its socket, and the semaphore that limits*)
(* how many stream at a time.                                              *)
(*                                                                         *)
(*   src/src/handlers/chat/stream.js              the handler              *)
(*   src/src/handlers/chat/stream-event-router.js the backend's lines      *)
(*   src/src/handlers/chat/stop-after-tools-controller.js  the tool cut    *)
(*   src/src/services/sse.js                      the write queue          *)
(*   src/src/services/concurrency-guard.js        the semaphore            *)
(*   src/src/services/transport/child-adapter.js  kill, error and exit     *)
(*                                                                         *)
(* A handler runs to its end before another one starts, and the handlers it*)
(* calls synchronously run inside it: kill() of an adapter with a context  *)
(* emits "error", whose listener may finish the stream, all before kill()  *)
(* returns.  So the handlers are functions from a stream's record to the   *)
(* record they leave, composed as the code calls them; an action applies   *)
(* one of them to one stream.                                              *)
(*                                                                         *)
(* Output mode obsidian-xml (the other mode holds no text back), one choice*)
(* per request.                                                            *)
(***************************************************************************)
EXTENDS Naturals, Sequences, FiniteSets

CONSTANTS
  Streams,           \* the streaming requests
  MaxConc,           \* PROXY_SSE_MAX_CONCURRENCY; 0 is no limit
  KillOnDisconnect,  \* PROXY_KILL_ON_DISCONNECT
  StopAfterTools,    \* PROXY_STOP_AFTER_TOOLS
  MaxEvents,         \* bound: lines of the backend per stream
  MaxComments,       \* bound: keepalives per stream
  MaxStalls          \* bound: writes that meet a full socket, per stream

ASSUME StreamsAssumption == IsFiniteSet(Streams)
ASSUME LimitsAssumption ==
  /\ MaxConc \in Nat /\ MaxEvents \in Nat /\ MaxComments \in Nat /\ MaxStalls \in Nat
  /\ KillOnDisconnect \in BOOLEAN /\ StopAfterTools \in BOOLEAN

VARIABLES
  stream,  \* the state of each request
  count    \* _count of the semaphore

vars == <<stream, count>>

FinishReasons == {"stop", "length", "tool_calls"}
\* "tools" is a tool call shown as an XML block, "call" one told only as structured
\* deltas (both carry tool_calls).
Frames == {"role", "text", "tools", "call", "raw", "usage", "error", "done", "comment"}
            \cup FinishReasons
Timers == {"request", "idle", "keepalive", "grace"}

Session ==
  [stage     : {"new", "refused", "streaming"},
   token     : {"none", "held", "released"},     \* the semaphore's token
   adapter   : {"off", "setup", "held", "exiting", "exited"},
   responded : BOOLEAN,
   finalized : BOOLEAN,
   closed    : BOOLEAN,                          \* streamClosed, ~responseWritable
   armed     : SUBSET Timers,
   stopped   : BOOLEAN,                          \* the tool cut has happened
   tools     : BOOLEAN,                          \* hasToolCallEvidence()
   shown     : BOOLEAN,                          \* dropAssistantContentAfterTools
   out       : BOOLEAN,                          \* the backend has written a line
   sent      : BOOLEAN,                          \* sentAny of the choice
   residue   : {"none", "text", "tool"},         \* received, held back
   best      : FinishReasons \cup {"none"},      \* bestReason of the tracker
   rank      : 0..4,                             \* bestPriority
   length    : BOOLEAN,                          \* lengthEvidence
   finished  : BOOLEAN,                          \* finishSent
   wantUsage : BOOLEAN,                          \* stream_options.include_usage
   logs      : Seq({"failure", "usage"}),        \* usage events appended
   outcome   : FinishReasons \cup {"none", "error", "client_abort"},
   conn      : {"open", "ending", "ended", "gone"},
   full      : BOOLEAN,                          \* the next res.write() returns false
   flushing  : BOOLEAN,                          \* the queue awaits a drain event
   queue     : Seq(Frames),
   wire      : Seq(Frames),                      \* given to the socket
   events    : Nat, comments : Nat, stalls : Nat]

Fresh ==
  [stage |-> "new", token |-> "none", adapter |-> "off",
   responded |-> FALSE, finalized |-> FALSE, closed |-> FALSE,
   armed |-> {}, stopped |-> FALSE, tools |-> FALSE, shown |-> FALSE, out |-> FALSE,
   sent |-> FALSE, residue |-> "none", best |-> "none", rank |-> 4, length |-> FALSE,
   finished |-> FALSE, wantUsage |-> FALSE, logs |-> <<>>, outcome |-> "none",
   conn |-> "open", full |-> FALSE, flushing |-> FALSE, queue |-> <<>>, wire |-> <<>>,
   events |-> 0, comments |-> 0, stalls |-> 0]

Init == /\ stream = [s \in Streams |-> Fresh]
        /\ count = 0

-----------------------------------------------------------------------------
(* The socket.                                                              *)

\* writeSseChunk: into the queue while a flush waits for drain, else through
\* it to the socket.  Once [DONE] is written its promise resolves, and res.end()
\* follows when the running handler has returned: "ending" until then.
Write(x, f) ==
  CASE x.conn \in {"ended", "gone"} -> x
    [] x.conn \in {"open", "ending"} /\ x.flushing -> [x EXCEPT !.queue = Append(@, f)]
    [] OTHER -> [x EXCEPT !.wire = Append(@, f),
                          !.flushing = x.full,
                          !.conn = IF f = "done" /\ ~x.full THEN "ending" ELSE @]

\* sendSSE and sendComment: nothing is written when the response is closed.
Send(x, f) == IF x.closed THEN x ELSE Write(x, f)

-----------------------------------------------------------------------------
(* Parts of the handlers.                                                   *)

\* The recorded finish reason of the lowest priority number stays.
Track(x, reason, rank) ==
  [x EXCEPT !.best = IF rank < x.rank THEN reason ELSE @,
            !.rank = IF rank < x.rank THEN rank ELSE @,
            !.length = @ \/ reason = "length"]

\* determineChoiceFinishReason: what the finish chunk says.
FinishOf(x) == CASE x.tools -> "tool_calls"
                 [] ~x.tools /\ x.best \in {"none", "tool_calls"} -> "stop"
                 [] OTHER -> x.best

\* finishTracker.resolve: what the metrics and the usage log say.
OutcomeOf(x) == CASE x.tools /\ x.best # "length" -> "tool_calls"
                  [] ~x.tools /\ x.best = "none" -> "stop"
                  [] OTHER -> x.best

\* Mutant: finishSent is not looked at.
EmitFinishAgain(x) == Send([x EXCEPT !.finished = TRUE], FinishOf(x))

EmitFinish(x) == IF x.finished THEN x
                 ELSE Send([x EXCEPT !.finished = TRUE], FinishOf(x))

\* recordStreamOutcome: the first one counts.
Record(x, outcome) == [x EXCEPT !.outcome = IF @ = "none" THEN outcome ELSE @]

Release(x) == [x EXCEPT !.token = IF @ = "held" THEN "released" ELSE @]

\* scheduleStopAfterTools, when it does not cut at once: only blocks count as
\* forwarded (forwardedToolCount).
Schedule(x) == [x EXCEPT !.armed = IF StopAfterTools /\ x.shown /\ ~x.stopped
                                   THEN @ \cup {"grace"} ELSE @]

\* Mutant: the test for a block is dropped.
SendTextAnyway(x) == Send([x EXCEPT !.sent = TRUE], "text")

\* appendContentSegment: no text follows a block.
SendText(x) == IF x.shown THEN Schedule(x)
               ELSE Send([x EXCEPT !.sent = TRUE], "text")

\* emitToolContentChunk.
SendTool(x) == Send([x EXCEPT !.tools = TRUE, !.shown = TRUE, !.sent = TRUE], "tools")

\* A structured delta is evidence of a tool call, but neither text that was sent
\* nor a block behind which text is dropped.
SendCall(x) == Send([x EXCEPT !.tools = TRUE], "call")

\* flushDanglingToolBuffers and flushSanitizedSegments.
Flush(x) ==
  LET y == [x EXCEPT !.residue = "none"]
  IN CASE x.residue = "text" -> SendText(y)
       [] x.residue = "tool" -> Schedule(SendTool(y))
       [] OTHER -> y

\* kill() or the end of the context, without the "error" event.
Shut(x) == [x EXCEPT !.adapter = IF @ \in {"setup", "held"} THEN "exiting" ELSE @]

\* cleanupStream but for the kill and the release; it runs once, and a timer armed
\* after it stays.
Close(x) == IF x.closed THEN x
            ELSE [x EXCEPT !.closed = TRUE, !.armed = @ \ {"keepalive", "idle", "request"}]

\* The tool_call_count comment that precedes the finish chunk.
Stats(x) == IF x.shown THEN Send(x, "comment") ELSE x

\* finalizeStream.  responded is set, so the "error" that kill() emits is
\* ignored, and a kill in cleanupStream is the same as the kill at its end.
Finalize(x, reason) ==
  IF x.finalized THEN x ELSE
  LET begun   == [x EXCEPT !.finalized = TRUE, !.responded = TRUE,
                           !.armed = @ \ {"grace"}]
      tracked == Track(Flush(begun), reason, 2)
      ended   == EmitFinish(Stats(tracked))
      counted == IF ended.wantUsage THEN Send(ended, "usage") ELSE ended
      logged  == [counted EXCEPT !.logs = Append(@, "usage")]
      done    == Write(Record(logged, OutcomeOf(logged)), "done")
  IN Shut(Release(Close(done)))

\* Mutant: a tool call that was delivered is not looked at.
ChildErrorBlunt(x) ==
  IF x.responded THEN x ELSE
  LET failed == [Send([x EXCEPT !.armed = @ \ {"request"}], "error")
                   EXCEPT !.responded = TRUE, !.logs = Append(@, "failure")]
  IN Record(Release(Write(failed, "done")), "error")

\* Mutant: the token comes back with the error, [DONE] only with the exit.
ChildErrorHasty(x) ==
  IF x.responded THEN x ELSE
  LET y == [x EXCEPT !.armed = @ \ {"request"}]
  IN IF y.tools THEN Finalize(y, "tool_calls")
     ELSE Record(Release([Send(y, "error") EXCEPT !.responded = TRUE,
                                                  !.logs = Append(@, "failure")]), "error")

\* onChildError: the adapter's "error" event, and the request timeout.
ChildError(x) ==
  IF x.responded THEN x ELSE
  LET y == [x EXCEPT !.armed = @ \ {"request"}]
  IN IF x.tools THEN Finalize(y, "tool_calls")
     ELSE LET failed == [Send(y, "error") EXCEPT !.responded = TRUE,
                                                 !.logs = Append(@, "failure")]
          IN Record(Release(Write(failed, "done")), "error")

\* child.kill(): an adapter that holds a context emits "error" first.
Kill(x) == Shut(IF x.adapter = "held" THEN ChildError(x) ELSE x)

\* cleanupStream as the listener of "close", "finish" and "aborted".
Cleanup(x) ==
  IF x.closed THEN x ELSE
  LET y == IF KillOnDisconnect THEN Kill(Close(x)) ELSE Close(x)
  IN Release(IF y.finalized THEN y ELSE Record(y, "client_abort"))

\* cutNow and onCutoff of the stop-after-tools controller.
Cut(x) ==
  IF x.stopped THEN x ELSE
  LET y == Kill([x EXCEPT !.stopped = TRUE, !.armed = @ \ {"grace", "keepalive"}])
  IN IF y.finalized THEN y ELSE Track(y, "length", 0)

\* child.stdout "data": a line of the backend re-arms the idle timer.
Hear(x) == [x EXCEPT !.out = TRUE, !.armed = @ \cup {"idle"}, !.events = @ + 1]

-----------------------------------------------------------------------------
(* Actions.                                                                 *)

\* The handler has left y; then the microtasks run.  A released token has been
\* given back to the semaphore, whose release() clamps at zero.
EndOfTask(y) == [y EXCEPT !.conn = IF @ = "ending" THEN "ended" ELSE @]

\* Mutant: the token does not remember that it was released.
GiveBackAgain(s, y) == IF y.token = "released" /\ count > 0 THEN count - 1 ELSE count

GiveBack(s, y) == IF stream[s].token = "held" /\ y.token = "released" /\ count > 0
                  THEN count - 1 ELSE count

Run(s, y) == /\ stream' = [stream EXCEPT ![s] = EndOfTask(y)]
             /\ count' = GiveBack(s, y)

\* Validation fails (400, 403, 404), before the semaphore is asked or, with a
\* normalization error, after which the token is given back in the same handler.
Reject(s) == /\ stream[s].stage = "new"
             /\ stream' = [stream EXCEPT ![s].stage = "refused"]
             /\ UNCHANGED count

\* Mutant: off by one.
TryAcquireOneMore == MaxConc = 0 \/ count <= MaxConc

TryAcquire == MaxConc = 0 \/ count < MaxConc

\* 429.
Busy(s) == /\ stream[s].stage = "new"
           /\ ~TryAcquire
           /\ stream' = [stream EXCEPT ![s].stage = "refused"]
           /\ UNCHANGED count

\* postChatStream of a request that passes, up to its stdin.write.
Start(s, wantUsage) ==
  /\ stream[s].stage = "new"
  /\ TryAcquire
  /\ stream' = [stream EXCEPT ![s] =
       Send([@ EXCEPT !.stage = "streaming", !.adapter = "setup",
                      !.token = IF MaxConc = 0 THEN "none" ELSE "held",
                      !.armed = {"request", "idle", "keepalive"},
                      !.wantUsage = wantUsage], "role")]
  /\ count' = IF MaxConc = 0 THEN count ELSE count + 1

\* createChatRequest has resolved and the context is wired.
SetUp(s) == /\ stream[s].adapter = "setup"
            /\ Run(s, [stream[s] EXCEPT !.adapter = "held"])

\* A line of the backend; nothing is heard of an adapter that is closed.
Line(s) == stream[s].adapter = "held" /\ stream[s].events < MaxEvents

Text(s) == /\ Line(s) /\ stream[s].residue # "tool"
           /\ Run(s, Schedule(SendText(Flush(Hear(stream[s])))))

\* Text that may turn out to be metadata, or an open <use_tool block.
Hold(s, what) == /\ Line(s) /\ stream[s].residue = "none"
                 /\ what = "tool" => ~stream[s].shown
                 /\ Run(s, [Hear(stream[s]) EXCEPT !.residue = what])

\* A complete tool call: a block in the text, which what was held back precedes,
\* with text behind it in the same delta or not; or a structured call shown as a
\* block, which leaves held text where it is.  The cut comes at once (mode "first",
\* or beyond PROXY_TOOL_BLOCK_MAX) or after a grace.
Tool(s, tail, now) ==
  /\ Line(s)
  /\ tail => ~StopAfterTools /\ ~stream[s].shown
  /\ now => StopAfterTools
  /\ LET heard == Hear(stream[s])
     IN \E ready \in IF heard.residue = "tool" THEN {[heard EXCEPT !.residue = "none"]}
                     ELSE {Flush(heard), heard} :
          /\ tail => ready.residue = "none"
          /\ LET told == IF tail THEN Send(SendTool(ready), "text") ELSE SendTool(ready)
             IN Run(s, IF now THEN Cut(told) ELSE Schedule(told))

\* A structured delta that is not shown as a block: its arguments are not complete,
\* or a block was seen or may be arriving in the text.  Content of the same delta
\* follows it.
Call(s, content) ==
  /\ Line(s)
  /\ content => stream[s].residue # "tool"
  /\ LET told == SendCall(Hear(stream[s]))
     IN Run(s, IF content THEN Schedule(SendText(Flush(told))) ELSE told)

\* token_count, maybe with a finish reason; usage and other notifications.
Count(s, reason) ==
  /\ Line(s)
  /\ LET y == Hear(stream[s])
     IN Run(s, IF reason = "none" THEN y ELSE Track(y, reason, 0))

\* The result with a finish reason: task_complete.
TaskComplete(s, reason) ==
  /\ stream[s].adapter = "held"
  /\ LET y == EmitFinish(Track(Hear(stream[s]), reason, 1))
     IN Run(s, Finalize(y, reason))

\* The context's promise resolves: #finalize(0).
Resolve(s) == /\ stream[s].adapter = "held"
              /\ Run(s, Shut(stream[s]))

\* createChatRequest rejects or the context fails: #handleError.
Fail(s) == /\ stream[s].adapter \in {"setup", "held"}
           /\ Run(s, Shut(ChildError(stream[s])))

\* Mutant: a stream that has been answered with an error is left as it is.
ExitUnlessResponded(s) ==
  /\ stream[s].adapter = "exiting"
  /\ LET flushed == Flush([stream[s] EXCEPT !.adapter = "exited"])
     IN Run(s, IF flushed.responded THEN flushed
               ELSE Finalize(flushed, IF flushed.length THEN "length" ELSE "stop"))

\* The adapter's "exit": handleChildClose.
Exit(s) ==
  /\ stream[s].adapter = "exiting"
  /\ LET flushed == Flush([stream[s] EXCEPT !.adapter = "exited"])
         told    == IF ~flushed.sent /\ flushed.out
                    THEN [Send(flushed, "raw") EXCEPT !.sent = TRUE] ELSE flushed
     IN Run(s, IF flushed.finalized THEN flushed
               ELSE Finalize(told, IF told.length THEN "length" ELSE "stop"))

Disarm(s, timer) == [stream[s] EXCEPT !.armed = @ \ {timer}]

\* Mutant: the backend is not killed.
RequestTimerMild(s) == /\ "request" \in stream[s].armed
                       /\ Run(s, ChildError(Disarm(s, "request")))

RequestTimer(s) ==
  /\ "request" \in stream[s].armed
  /\ LET y == Disarm(s, "request")
     IN Run(s, IF y.responded THEN y ELSE Kill(ChildError(y)))

IdleTimer(s) ==
  /\ "idle" \in stream[s].armed
  /\ LET y == Disarm(s, "idle")
     IN Run(s, Kill(IF y.finalized THEN y ELSE Track(y, "length", 0)))

GraceTimer(s) == /\ "grace" \in stream[s].armed
                 /\ Run(s, Cut(Disarm(s, "grace")))

Keepalive(s) ==
  /\ "keepalive" \in stream[s].armed
  /\ stream[s].comments < MaxComments
  /\ Run(s, Send([stream[s] EXCEPT !.comments = @ + 1], "comment"))

\* The client goes away; nothing written from then on arrives.
Disconnect(s) ==
  /\ stream[s].stage = "streaming"
  /\ stream[s].conn \in {"open", "ended"}
  /\ Run(s, Cleanup([stream[s] EXCEPT !.conn = "gone", !.flushing = FALSE,
                                      !.full = FALSE, !.queue = <<>>]))

\* "finish": the response has been handed to the system.
Finished(s) == /\ stream[s].conn = "ended"
               /\ ~stream[s].closed
               /\ Run(s, Cleanup(stream[s]))

\* The socket's buffer reaches its high-water mark.
Fill(s) ==
  /\ stream[s].stage = "streaming" /\ stream[s].conn = "open"
  /\ ~stream[s].full /\ stream[s].stalls < MaxStalls
  /\ stream' = [stream EXCEPT ![s].full = TRUE, ![s].stalls = @ + 1]
  /\ UNCHANGED count

\* "drain": the flush goes on with the queue, until a write fills the socket
\* again.  When the write of [DONE] is over, res.end() follows; what is still
\* queued then stays there, for an ended response emits no "drain".
Drain(s, n, again) ==
  LET x    == stream[s]
      over == SubSeq(x.queue, 1, IF again THEN n - 1 ELSE n)
      done == \E i \in DOMAIN (x.wire \o over) : (x.wire \o over)[i] = "done"
  IN /\ x.flushing /\ x.conn = "open"
     /\ again => n > 0 /\ x.stalls < MaxStalls
     /\ ~again => n = Len(x.queue)
     /\ stream' = [stream EXCEPT ![s] =
          [x EXCEPT !.wire = @ \o SubSeq(x.queue, 1, n),
                    !.queue = SubSeq(@, n + 1, Len(@)),
                    !.flushing = again, !.full = again,
                    !.stalls = IF again THEN @ + 1 ELSE @,
                    !.conn = IF done THEN "ended" ELSE @]]
     /\ UNCHANGED count

BackendLine(s) ==
  \/ Text(s)
  \/ \E what \in {"text", "tool"} : Hold(s, what)
  \/ \E tail \in BOOLEAN, now \in BOOLEAN : Tool(s, tail, now)
  \/ \E content \in BOOLEAN : Call(s, content)
  \/ \E reason \in {"none", "stop", "length"} : Count(s, reason)
  \/ \E reason \in {"stop", "length"} : TaskComplete(s, reason)

BackendEnds(s) == Resolve(s) \/ Fail(s)

Timer(s) == RequestTimer(s) \/ IdleTimer(s) \/ GraceTimer(s)

Next == \E s \in Streams :
  \/ Reject(s) \/ Busy(s)
  \/ \E wantUsage \in BOOLEAN : Start(s, wantUsage)
  \/ SetUp(s) \/ BackendLine(s) \/ BackendEnds(s) \/ Exit(s)
  \/ Timer(s) \/ Keepalive(s)
  \/ Disconnect(s) \/ Finished(s) \/ Fill(s)
  \/ \E n \in 0..Len(stream[s].queue), again \in BOOLEAN : Drain(s, n, again)

Spec == Init /\ [][Next]_vars

\* Armed timers fire, setImmediate callbacks run, and the transport ends every
\* request (EveryRequestEnds of Transport).  The client owes nothing.  Each of
\* these handlers is enabled by one condition, which it ends, so its weak fairness
\* is that the condition does not last.
FairSpec == /\ Spec
            /\ \A s \in Streams :
                 /\ []<>("request" \notin stream[s].armed)
                 /\ []<>("idle" \notin stream[s].armed)
                 /\ []<>(stream[s].adapter \notin {"setup", "held"})
                 /\ []<>(stream[s].adapter # "exiting")

-----------------------------------------------------------------------------
(* Properties.                                                              *)

Holders == {s \in Streams : stream[s].token = "held"}

TypeOK == /\ stream \in [Streams -> Session]
          /\ count \in Nat

\* The semaphore counts the streams that hold a token, no token is given back
\* twice, and the limit is kept (concurrency-guard.js:8, :101).
GuardCounts == /\ count = Cardinality(Holders)
               /\ MaxConc > 0 => count <= MaxConc

\* With PROXY_KILL_ON_DISCONNECT the limit on streams is a limit on the backend:
\* whichever way a token comes back (error, timeout, disconnect, cut, end), the
\* adapter has been closed in the same handler.
BackendsBounded ==
  KillOnDisconnect /\ MaxConc > 0 =>
    Cardinality({s \in Streams : stream[s].adapter \in {"setup", "held"}}) <= MaxConc

\* What the client is told, up to the first [DONE]: the places on the wire.
Told(s) == {i \in DOMAIN stream[s].wire : \A k \in 1..i : stream[s].wire[k] # "done"}

Ends == FinishReasons \cup {"error"}

\* A stream opens with the role and only then; it has one end, a finish chunk or
\* an error; usage comes after the finish chunk; [DONE] comes after an end
\* (README.md:25, tests/sse-finish-reason-order.spec.js).
StreamGrammar ==
  \A s \in Streams :
    LET w == stream[s].wire
    IN /\ \A i \in DOMAIN w : (w[i] = "role") <=> (i = 1)
       /\ \A i, j \in Told(s) : i < j /\ w[i] \in Ends => w[j] \notin Ends
       /\ \A i \in Told(s) : w[i] = "usage" => \E j \in 1..(i - 1) : w[j] \in FinishReasons
       /\ (\E i \in DOMAIN w : w[i] = "done") => \E i \in Told(s) : w[i] \in Ends

ToolFrames == {"tools", "call"}

\* A client that has been given a tool call is never given an error afterwards:
\* timeouts, kills and backend errors end the stream with "tool_calls"
\* (docs/codex-proxy-tool-calls.md:329).
ToolCallsEndWell ==
  \A s \in Streams :
    LET w == stream[s].wire
    IN \A i, j \in DOMAIN w : i < j /\ w[i] \in ToolFrames /\ w[j] \in Ends
                             => w[j] = "tool_calls"

\* With PROXY_STOP_AFTER_TOOLS no text follows a tool call that was shown as a
\* block, whatever was held back, queued or left to the exit when it was shown
\* (stream-output.js:162, :226).
NoTextAfterBlock ==
  StopAfterTools =>
    \A s \in Streams :
      LET w == stream[s].wire
      IN \A i, j \in DOMAIN w : i < j /\ w[i] = "tools" => w[j] \notin {"text", "raw"}

\* A token is not given back before the client has been given all it will get
\* of the answer: what is written afterwards, to a client that is there, can
\* only follow a [DONE] (the error path, handleChildClose).
NothingAfterRelease ==
  [][\A s \in Streams :
       stream[s].token = "released" /\ stream[s].conn = "open"
       /\ Len(stream'[s].wire) + Len(stream'[s].queue)
            > Len(stream[s].wire) + Len(stream[s].queue)
       => \E i \in DOMAIN (stream[s].wire \o stream[s].queue) :
            (stream[s].wire \o stream[s].queue)[i] = "done"]_vars

\* Every stream comes to its end, however the backend, the timers and the client
\* take turns: it is finalized and logged, its adapter has exited, and the client
\* has its end unless it left or does not read.
StreamsEnd ==
  \A s \in Streams :
    stream[s].stage = "streaming" ~>
      /\ stream[s].finalized /\ stream[s].adapter = "exited"
      /\ stream[s].logs # <<>>
      /\ stream[s].conn \in {"ended", "gone"} \/ stream[s].flushing

\* Seen from the semaphore, a stream is a request of RequestService with MaxConc
\* slots: refused, or active while it holds its token, then answered or failed.
Stage(s) ==
  LET x == stream[s]
  IN CASE x.stage = "new" -> "new"
       [] x.stage = "streaming" /\ x.token = "held" -> "active"
       [] x.stage = "streaming" /\ x.token = "released" /\ x.outcome \in FinishReasons -> "answered"
       [] OTHER -> "failed"

Slots == INSTANCE RequestService
           WITH Requests <- Streams, Limit <- MaxConc, up <- TRUE,
                stage <- [s \in Streams |-> Stage(s)]

ImplementsService == Slots!Spec

-----------------------------------------------------------------------------
(* What the repository says and the code does not keep.                     *)

\* "Final JSON before [DONE] must be finish_reason chunk"
\* (tests/sse-usage-negative.spec.js:34): nothing but usage is told after it.
FinishIsLast ==
  \A s \in Streams :
    LET w == stream[s].wire
    IN \A i, j \in Told(s) : i < j /\ w[i] \in FinishReasons => w[j] \in {"usage", "comment"}

\* "stop writing textual content once a tool call is detected
\* (`PROXY_STOP_AFTER_TOOLS`)" (docs/codex-proxy-tool-calls.md:327).
NoTextAfterTools ==
  StopAfterTools =>
    \A s \in Streams :
      LET w == stream[s].wire
      IN \A i, j \in DOMAIN w : i < j /\ w[i] \in ToolFrames => w[j] \notin {"text", "raw"}

\* "logs estimated prompt/completion token usage for each request" (README.md:218):
\* one usage event per request.
UsageLoggedOnce == \A s \in Streams : Len(stream[s].logs) <= 1

\* "drop late backend frames after sending [DONE]"
\* (docs/codex-proxy-tool-calls.md:327).
NothingAfterDone ==
  \A s \in Streams : \A i, j \in DOMAIN stream[s].wire :
    i < j /\ stream[s].wire[i] = "done" => stream[s].wire[j] = "comment"

\* "graceful SSE cleanup on disconnect; keepalive/timers cleared" (README.md:31).
TimersCleared ==
  \A s \in Streams : stream[s].closed => stream[s].armed \subseteq {"grace"}

=============================================================================
