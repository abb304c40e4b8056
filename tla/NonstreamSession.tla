--------------------------- MODULE NonstreamSession ---------------------------
(***************************************************************************)
(* One completion that is answered with a single JSON document: the chat   *)
(* handler, its timers and its backend, and the Responses handler that     *)
(* calls it and rewrites its answer.                                       *)
(*                                                                         *)
(*   src/src/handlers/chat/nonstream.js           the handler              *)
(*   src/src/handlers/responses/nonstream.js      the Responses route      *)
(*   src/src/handlers/chat/shared.js              the finish reason        *)
(*   src/src/services/transport/child-adapter.js  kill, error and exit     *)
(*                                                                         *)
(* Requests share nothing here (the transport's slots are module           *)
(* Transport), so there is one.  The handlers are functions from the       *)
(* session to the session they leave, because kill() may run the "error"   *)
(* listener, and with it finalizeResponse, before it returns.              *)
(***************************************************************************)
EXTENDS Integers, Sequences, FiniteSets, FiniteSetsExt

CONSTANTS
  MaxChoices,        \* PROXY_MAX_CHAT_CHOICES
  MaxBlocks,         \* PROXY_TOOL_BLOCK_MAX; 0 is no limit
  KillOnDisconnect,  \* PROXY_KILL_ON_DISCONNECT
  EarlyTruncate,     \* PROXY_NONSTREAM_TRUNCATE_AFTER_MS is not 0
  MaxCalls,          \* bound: tool calls per choice
  MaxLines           \* bound: lines of the backend

ASSUME SessionAssumption ==
  /\ MaxChoices \in Nat \ {0} /\ MaxBlocks \in Nat /\ MaxCalls \in Nat /\ MaxLines \in Nat
  /\ KillOnDisconnect \in BOOLEAN /\ EarlyTruncate \in BOOLEAN

VARIABLE session

ChoiceIds == 0 .. MaxChoices - 1

\* What is refused before a backend is asked, in the order of the checks.
Checks == <<"model", "messages", "choices", "options", "known", "tokens", "normalize">>

CheckStatus == [model |-> 400, messages |-> 400, choices |-> 400, options |-> 400,
                known |-> 404, tokens |-> 403, normalize |-> 400]

Reasons == {"stop", "length", "tool_calls", "function_call", "content_filter"}
Texts == {"none", "plain", "block"}   \* "block": it holds a <use_tool> block
Timers == {"request", "idle", "early"}
Contents == [from : {"own", "blocks", "primary"}, choice : ChoiceIds]
              \cup [from : {"calls", "null", "stdout", "nothing"}, choice : {0}]
Statuses == {200, 400, 401, 403, 404, 429, 499, 500, 503, 504}

Session ==
  [stage     : {"new", "refused", "waiting"},
   route     : {"chat", "responses"},
   obsidian  : BOOLEAN,                    \* the output mode is obsidian-xml
   n         : 0 .. MaxChoices + 1,        \* the choices asked for
   fault     : {Checks[i] : i \in DOMAIN Checks} \cup {"none"},
   transform : BOOLEAN,                    \* res.locals.responseTransform is set
   adapter   : {"off", "setup", "held", "exiting", "exited"},
   responded : BOOLEAN,
   armed     : SUBSET Timers,
   text      : [ChoiceIds -> Texts],         \* choiceStates
   calls     : [ChoiceIds -> Nat],           \* order.length of the aggregator
   json      : [ChoiceIds -> BOOLEAN],       \* do the arguments parse?
   tools     : BOOLEAN,                    \* hasToolCalls
   function  : BOOLEAN,                    \* hasFunctionCall
   best      : Reasons \cup {"none"},      \* bestReason of the tracker
   rank      : 0 .. 4,                     \* bestPriority; 4 is an unlisted source
   lines     : Nat,                        \* lines of the backend in out
   conn      : {"open", "gone"},
   logs      : Seq([kind : {"failure", "usage"}, status : Statuses]),
   answers   : Seq([status : Statuses, shape : {"error", "chat", "responses"},
                    choices : Seq([content : Contents, calls : Nat, reason : Reasons])])]

vars == session

\* A request as it arrives; the Responses handler has set the transform.
Init ==
  \E route \in {"chat", "responses"}, obsidian \in BOOLEAN, n \in 0 .. MaxChoices + 1,
     fault \in {Checks[i] : i \in DOMAIN Checks} \cup {"none"} :
    session =
      [stage |-> "new", route |-> route, obsidian |-> obsidian, n |-> n, fault |-> fault,
       transform |-> FALSE, adapter |-> "off", responded |-> FALSE, armed |-> {},
       text |-> [c \in ChoiceIds |-> "none"], calls |-> [c \in ChoiceIds |-> 0],
       json |-> [c \in ChoiceIds |-> TRUE], tools |-> FALSE, function |-> FALSE,
       best |-> "none", rank |-> 4, lines |-> 0, conn |-> "open",
       logs |-> <<>>, answers |-> <<>>]

-----------------------------------------------------------------------------
(* The answer.                                                              *)

Log(x, kind, status) == [x EXCEPT !.logs = Append(@, [kind |-> kind, status |-> status])]

\* responses/nonstream.js, cleanup: the transform goes when the answer is
\* finished or the client is gone.
Cleanup(x) == [x EXCEPT !.transform = FALSE]

\* The transform of the Responses handler rewrites an answer that is not an error.
Shape(x, status) == CASE status >= 400 -> "error"
                      [] status < 400 /\ x.transform -> "responses"
                      [] OTHER -> "chat"

\* respondWithJson: nothing is sent once the headers are; the response is finished
\* then.
Respond(x, status, choices) ==
  IF x.answers # <<>> THEN x
  ELSE Cleanup([x EXCEPT !.answers = <<[status |-> status, shape |-> Shape(x, status),
                                        choices |-> choices]>>])

\* finishReasonTracker.record: the lowest priority number stays.
Track(x, reason, rank) ==
  IF reason # "none" /\ (x.best = "none" \/ rank < x.rank)
  THEN [x EXCEPT !.best = reason, !.rank = rank] ELSE x

\* finishReasonTracker.resolve, with adjustReasonForContext.
Canonical(x) ==
  LET reason == IF x.best = "none" THEN "stop" ELSE x.best
  IN CASE reason \in {"length", "content_filter"} -> reason
       [] reason \notin {"length", "content_filter"} /\ x.tools -> "tool_calls"
       [] reason = "stop" /\ ~x.tools /\ x.function -> "function_call"
       [] OTHER -> reason

\* getPrimaryContent: the first choice that has content.
Primary(x) == {c \in ChoiceIds : x.text[c] # "none"
                                /\ \A d \in ChoiceIds : d < c => x.text[d] = "none"}

\* computeFinal, for a choice with no content of its own.  (stderr is written by
\* an error only, and an error is answered before the text is looked for.)
Final(x) == IF Primary(x) # {}
            THEN [from |-> "primary", choice |-> CHOOSE c \in Primary(x) : TRUE]
            ELSE [from |-> IF x.lines > 0 THEN "stdout" ELSE "nothing", choice |-> 0]

\* choiceContent: what the choice said, or what there is instead.
ChoiceContent(x, c) == IF x.text[c] # "none" THEN [from |-> "own", choice |-> c] ELSE Final(x)

\* buildAssistantMessage, the content of a choice with tool calls: its calls as
\* XML when their arguments parse, else the blocks of its text, else the primary
\* content, else what there is.
ToolContent(x, c) ==
  LET source == ChoiceContent(x, c)
  IN CASE ~x.obsidian -> [from |-> "null", choice |-> 0]
       [] x.obsidian /\ x.json[c] -> [from |-> "calls", choice |-> 0]
       [] x.obsidian /\ ~x.json[c] /\ source.from \in {"own", "primary"}
            /\ x.text[source.choice] = "block" -> [from |-> "blocks", choice |-> source.choice]
       [] OTHER -> IF Primary(x) # {} THEN Final(x) ELSE source

\* buildAssistantMessage: PROXY_TOOL_BLOCK_MAX cuts the calls, and a legacy
\* function_call becomes a tool call.
CallsOf(x, c) == CASE x.calls[c] = 0 -> IF x.function THEN 1 ELSE 0
                   [] x.calls[c] > 0 /\ MaxBlocks = 0 -> x.calls[c]
                   [] OTHER -> IF x.calls[c] > MaxBlocks THEN MaxBlocks ELSE x.calls[c]

ContentOf(x, c, canonical) ==
  CASE canonical = "content_filter" -> [from |-> "null", choice |-> 0]
    [] canonical # "content_filter" /\ x.calls[c] > 0 -> ToolContent(x, c)
    [] canonical # "content_filter" /\ x.calls[c] = 0 /\ x.function -> [from |-> "null", choice |-> 0]
    [] OTHER -> ChoiceContent(x, c)

\* Mutant: the reason of the whole request is every choice's reason.
RequestReason(x, c, canonical) == canonical

\* determineChoiceFinishReason.
ChoiceReason(x, c, canonical) ==
  CASE CallsOf(x, c) > 0 -> "tool_calls"
    [] CallsOf(x, c) = 0 /\ canonical = "tool_calls" -> "stop"
    [] OTHER -> canonical

Payload(x) == LET canonical == Canonical(x)
              IN [i \in 1 .. x.n |-> [content |-> ContentOf(x, i - 1, canonical),
                                      calls   |-> CallsOf(x, i - 1),
                                      reason  |-> ChoiceReason(x, i - 1, canonical)]]

-----------------------------------------------------------------------------
(* finalizeResponse and what calls it.                                      *)

\* Mutant: responded is not looked at.
FinalizeAgain(x, status) ==
  LET y == [x EXCEPT !.responded = TRUE, !.armed = {},
                     !.tools = @ \/ \E c \in ChoiceIds : x.calls[c] > 0]
  IN IF status = 200 THEN Respond(Log(y, "usage", 200), 200, Payload(y))
     ELSE Respond(Log(y, "failure", status), status, <<>>)

\* finalizeResponse, once: the timers stop, usage or a failure is logged, and
\* the answer is sent.
Finalize(x, status) ==
  LET y == [x EXCEPT !.responded = TRUE, !.armed = {},
                     !.tools = @ \/ \E c \in ChoiceIds : x.calls[c] > 0]
  IN CASE x.responded -> x
       [] ~x.responded /\ status = 200 -> Respond(Log(y, "usage", 200), 200, Payload(y))
       [] OTHER -> Respond(Log(y, "failure", status), status, <<>>)

\* A chunk on stdout or stderr: the idle timer starts again, also after the
\* answer.
Chunk(x) == [x EXCEPT !.armed = @ \cup {"idle"}]

\* The adapter's #handleError: the message on stderr, "error" (finalizeFailure),
\* then its end is scheduled.
Fail(x, status) == [Finalize(Chunk(x), status) EXCEPT !.adapter = "exiting"]

\* Mutant: a kill before the context is wired is lost.
KillWithContext(x) == IF x.adapter = "held" THEN Fail(x, 499) ELSE x

\* The adapter's kill(): a context it holds settles with request_aborted, whose
\* "error" is heard before kill() returns; without one only its end is scheduled.
Kill(x) == CASE x.adapter = "held" -> Fail(x, 499)
             [] x.adapter = "setup" -> [x EXCEPT !.adapter = "exiting"]
             [] OTHER -> x

-----------------------------------------------------------------------------
(* The request.                                                             *)

Fails(x, check) == x.fault = check \/ (check = "choices" /\ x.n \notin 1 .. MaxChoices)

Faults(x) == {i \in DOMAIN Checks : Fails(x, Checks[i])}

Refuse(x, status) == [Respond(x, status, <<>>) EXCEPT !.stage = "refused"]

\* postChatNonStream: the first check that fails is logged and answered; else
\* the backend is asked and the timers run.
ChatHandler(x) ==
  IF Faults(x) # {}
  THEN LET status == CheckStatus[Checks[Min(Faults(x))]]
       IN Refuse(Log(x, "failure", status), status)
  ELSE [x EXCEPT !.stage = "waiting", !.adapter = "setup",
                 !.armed = {"request", "idle"} \cup (IF EarlyTruncate THEN {"early"} ELSE {})]

\* Mutant: the transform is dropped when the chat handler returns.
StartAndRestore ==
  /\ session.stage = "new"
  /\ session' = LET x == [session EXCEPT !.transform = (session.route = "responses")]
                IN IF x.route = "responses" /\ Fails(x, "choices")
                   THEN Refuse(x, 400) ELSE Cleanup(ChatHandler(x))

\* postChatNonStream, or postResponsesNonStream and then it: the transform is
\* installed, and a bad number of choices is answered here (and not logged).
Start ==
  /\ session.stage = "new"
  /\ session' = LET x == [session EXCEPT !.transform = (session.route = "responses")]
                IN IF x.route = "responses" /\ Fails(x, "choices")
                   THEN Refuse(x, 400) ELSE ChatHandler(x)

-----------------------------------------------------------------------------
(* The backend.                                                             *)

\* mapTransportError: what a failure of the backend is to the client.
BackendStatuses == {401, 429, 500, 503, 504}

\* createChatRequest resolves and the adapter wires its context, or it rejects.
Wire ==
  /\ session.adapter = "setup"
  /\ session' = [session EXCEPT !.adapter = "held"]

BackendFails(status) ==
  /\ session.adapter \in {"setup", "held"}
  /\ session' = Fail(session, status)

\* A line on stdout: the handlers below say what it changes.
Line(x) == [Chunk(x) EXCEPT !.lines = @ + 1]

CanLine == session.adapter = "held" /\ session.lines < MaxLines

\* A string delta: text, and a tool call when it holds a whole block and the
\* choice has no call ("part" completes a block begun in an earlier delta).
TextDelta(c, t) ==
  /\ CanLine
  /\ LET made == t = "block" /\ session.calls[c] = 0
     IN session' = [Line(session) EXCEPT
          !.text[c]  = IF t = "plain" /\ @ # "none" THEN @ ELSE IF t = "plain" THEN "plain" ELSE "block",
          !.calls[c] = IF made THEN 1 ELSE @,
          !.tools    = @ \/ made \/ session.calls[c] > 0]

\* A delta that carries tool calls: new ones, or more of the last.
ToolDelta(c, new, parses) ==
  /\ CanLine
  /\ session.calls[c] + new \in 1 .. MaxCalls
  /\ session' = [Line(session) EXCEPT !.calls[c] = @ + new, !.json[c] = parses, !.tools = TRUE]

\* The whole message: its text replaces what the deltas built, its tool calls
\* are added, and a block in its text is one when the choice has none.
WholeMessage(c, t, new) ==
  /\ CanLine
  /\ session.calls[c] + new <= MaxCalls
  /\ LET made == IF t = "block" /\ session.calls[c] + new = 0 THEN 1 ELSE new
     IN session' = [Line(session) EXCEPT
          !.text[c]  = IF t = "none" THEN @ ELSE t,
          !.calls[c] = @ + made,
          !.tools    = @ \/ session.calls[c] + made > 0]

\* token_count, with a finish reason or not.
Usage(reason) ==
  /\ CanLine
  /\ session' = Track(Line(session), reason, 0)

\* Another notification: trackToolSignals finds tool calls or a function call
\* in it that the aggregator is not given.
Signal(kind, reason) ==
  /\ CanLine
  /\ session' = Track([Line(session) EXCEPT !.tools = @ \/ kind = "tools",
                                            !.function = @ \/ kind = "function"], reason, 4)

\* The result of the turn: task_complete if it has a finish reason; the context
\* resolves and the adapter's end is scheduled.
BackendCompletes(reason) ==
  /\ session.adapter = "held"
  /\ session' = [Track(IF reason = "none" THEN session ELSE Line(session), reason, 1)
                   EXCEPT !.adapter = "exiting"]

\* stdout "end" and then "exit": finalizeSuccess.
AdapterEnds ==
  /\ session.adapter = "exiting"
  /\ session' = Finalize([session EXCEPT !.adapter = "exited"], 200)

-----------------------------------------------------------------------------
(* Timers and the client.                                                   *)

Disarm(x, t) == [x EXCEPT !.armed = @ \ {t}]

\* The request timeout answers by itself and stops no other timer.
RequestTimeout ==
  /\ "request" \in session.armed
  /\ session' = IF session.responded THEN Disarm(session, "request")
                ELSE LET x == Kill([Disarm(session, "request") EXCEPT !.responded = TRUE])
                     IN Respond(Log(x, "failure", 504), 504, <<>>)

\* Mutant: the idle timer answers with what there is.
IdleAnswers ==
  /\ "idle" \in session.armed
  /\ session' = IF session.responded THEN Disarm(session, "idle")
                ELSE Kill(Finalize(Disarm(session, "idle"), 200))

\* The idle timer answers first and kills then.
IdleTimeout ==
  /\ "idle" \in session.armed
  /\ session' = IF session.responded THEN Disarm(session, "idle")
                ELSE Kill(Finalize(Disarm(session, "idle"), 504))

\* The early truncation only kills.
EarlyTimeout ==
  /\ "early" \in session.armed
  /\ session' = IF session.responded THEN Disarm(session, "early")
                ELSE Kill(Disarm(session, "early"))

\* The client goes: res "close" and req "close".
Disconnect ==
  /\ session.stage = "waiting" /\ session.conn = "open"
  /\ session' = LET x == Cleanup([session EXCEPT !.conn = "gone"])
                IN IF KillOnDisconnect THEN Kill(x) ELSE x

BackendLine ==
  \/ \E c \in ChoiceIds, t \in {"plain", "block", "part"} : TextDelta(c, t)
  \/ \E c \in ChoiceIds, new \in {0, 1}, parses \in BOOLEAN : ToolDelta(c, new, parses)
  \/ \E c \in ChoiceIds, t \in Texts, new \in {0, 1} : WholeMessage(c, t, new)
  \/ \E reason \in Reasons \cup {"none"} : Usage(reason)
  \/ \E kind \in {"none", "tools", "function"}, reason \in {"stop", "none"} : Signal(kind, reason)

Next ==
  \/ Start \/ Wire \/ BackendLine \/ AdapterEnds
  \/ \E status \in BackendStatuses : BackendFails(status)
  \/ \E reason \in Reasons \cup {"none"} : BackendCompletes(reason)
  \/ RequestTimeout \/ IdleTimeout \/ EarlyTimeout \/ Disconnect

Spec == Init /\ [][Next]_vars

\* A timer that is set fires unless it is cleared, and a setImmediate runs.  The
\* backend owes nothing.
FairSpec == Spec /\ WF_vars(Start) /\ WF_vars(RequestTimeout) /\ WF_vars(AdapterEnds)

-----------------------------------------------------------------------------

\* The types of the session's parts.
TypeOK == session \in Session

\* However timers, the backend's end and its errors meet, a request that reached
\* the backend is answered at most once, and what the usage log says of it is
\* the one answer: a failure with its status, or usage.
OneAnswerOneLog ==
  session.stage = "waiting" =>
    /\ Len(session.answers) <= 1 /\ Len(session.logs) = Len(session.answers)
    /\ \A i \in DOMAIN session.answers :
         /\ session.logs[i].status = session.answers[i].status
         /\ (session.logs[i].kind = "usage") <=> (session.answers[i].shape # "error")

\* Every choice of an answer says tool_calls exactly when it has tool calls,
\* whichever choice the calls came for and whatever else the backend said of
\* them, and never more calls than the limit.  Filtered content is not told; a
\* choice that said something and calls nothing is told with its own words, and
\* none is told with the backend's raw lines while another has words to lend.
ChoicesAreTrue ==
  \A i \in DOMAIN session.answers : \A k \in DOMAIN session.answers[i].choices :
    LET choice == session.answers[i].choices[k]
        said == session.text[k - 1] # "none"
    IN /\ (choice.reason = "tool_calls") <=> (choice.calls > 0)
       /\ MaxBlocks > 0 => choice.calls <= MaxBlocks
       /\ choice.reason = "content_filter" => choice.content.from = "null"
       /\ said /\ choice.calls = 0 /\ choice.reason # "content_filter" =>
            choice.content = [from |-> "own", choice |-> k - 1]
       /\ choice.content.from = "stdout" => Primary(session) = {}

\* A completion is an answer to all of the backend's lines: none comes after it,
\* and the backend has ended.
AnswerIsComplete ==
  [][\A i \in DOMAIN session'.answers :
       session'.answers[i].shape # "error" =>
         session'.adapter = "exited" /\ session'.lines = session.lines]_vars

\* A client of /v1/responses that is there gets a Responses object or an error,
\* although the handler that installed the rewriting returned long before.
ResponsesShape ==
  session.stage = "waiting" /\ session.conn = "open" /\ session.route = "responses" =>
    \A i \in DOMAIN session.answers : session.answers[i].shape # "chat"

\* Every request is answered, and the backend it took has ended or been told to.
RequestsEnd == <>[](session.answers # <<>> /\ session.adapter \in {"off", "exited"})

\* What the repository says of the early truncation: the content so far is
\* finalized when the timer ends the backend.
EarlyTruncationAnswers ==
  [][EarlyTimeout /\ Primary(session) # {} =>
       \A i \in DOMAIN session'.answers : session'.answers[i].status = 200]_vars
=============================================================================
