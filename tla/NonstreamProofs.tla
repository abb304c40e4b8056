---------------------------- MODULE NonstreamProofs ----------------------------
(***************************************************************************)
(* Proofs about NonstreamSession, for any limits and bounds: a request     *)
(* that reached the backend has one answer and one log entry that says the *)
(* same, an answer that is not an error comes from a backend that has      *)
(* ended, its choices say what the backend said of them, and the Responses *)
(* route never sends a chat document.                                      *)
(*                                                                         *)
(* A waiting request is Open (nothing was answered, nothing logged) or     *)
(* Told (both were).  The handlers are composed of one another and may run *)
(* inside each other, so each is shown to keep that once.                  *)
(***************************************************************************)
EXTENDS NonstreamSession, TLAPS

\* The fields the invariant is about.
Has(x) == {"stage", "route", "n", "transform", "adapter", "responded", "armed", "text",
           "calls", "tools", "function", "lines", "conn", "logs", "answers"} \subseteq DOMAIN x

\* What the choices of an answer are counted from.
Typed(x) == /\ x.n \in 1 .. MaxChoices /\ x.calls \in [ChoiceIds -> Nat]
            /\ x.function \in BOOLEAN

Rewrites(x) == x.route = "responses" /\ x.conn = "open"

Open(x) == /\ x.responded = FALSE /\ x.answers = <<>> /\ x.logs = <<>>
           /\ Rewrites(x) => x.transform

\* ChoicesAreTrue, of the k-th choice of an answer to x.
TrueOf(x, choice, k) ==
  /\ (choice.reason = "tool_calls") <=> (choice.calls > 0)
  /\ MaxBlocks > 0 => choice.calls <= MaxBlocks
  /\ choice.reason = "content_filter" => choice.content.from = "null"
  /\ x.text[k - 1] # "none" /\ choice.calls = 0 /\ choice.reason # "content_filter" =>
       choice.content = [from |-> "own", choice |-> k - 1]
  /\ choice.content.from = "stdout" => Primary(x) = {}

AllTrue(x, choices) == \A k \in DOMAIN choices : TrueOf(x, choices[k], k)

\* An error has no choices; a completion's are true, and no line comes after it
\* that could make them false.
Agrees(x, a) == IF a.shape = "error" THEN a.choices = <<>>
                ELSE x.adapter = "exited" /\ AllTrue(x, a.choices)

\* One answer a, and one log entry l that agrees with it.
Told(x) ==
  /\ x.responded = TRUE
  /\ \E a, l : /\ x.answers = <<a>> /\ x.logs = <<l>>
               /\ l.status = a.status /\ ((l.kind = "usage") <=> (a.shape # "error"))
               /\ Rewrites(x) => a.shape # "chat"
               /\ Agrees(x, a)

Good(x) == Has(x) /\ Typed(x) /\ x.stage = "waiting" /\ (Open(x) \/ Told(x))

\* What a request is before and after it waits.
Idle(x) == Has(x) /\ x.adapter = "off" /\ x.armed = {}
New(x) == /\ Idle(x) /\ x.stage = "new" /\ x.responded = FALSE
          /\ x.answers = <<>> /\ x.logs = <<>>
          /\ x.calls \in [ChoiceIds -> Nat] /\ x.function \in BOOLEAN
Refused(x) == /\ Idle(x) /\ x.stage = "refused"
              /\ \E a : x.answers = <<a>> /\ a.shape = "error" /\ a.choices = <<>>

SessionInvariant == New(session) \/ Good(session) \/ Refused(session)

\* A backend that has ended.
Ended(x) == x.adapter = "exited"

\* An answer is due: the request has responded, and nothing was sent or logged.
Due(x) == /\ Has(x) /\ Typed(x) /\ x.stage = "waiting" /\ x.responded = TRUE
          /\ x.answers = <<>> /\ x.logs = <<>> /\ (Rewrites(x) => x.transform)

\* What may be said of it.
Fits(x, kind, status, choices) ==
  \/ kind = "usage" /\ status < 400 /\ Ended(x) /\ AllTrue(x, choices)
  \/ kind = "failure" /\ status >= 400 /\ choices = <<>>

\* The request was answered, the backend goes on as it did.
Answered(x, y) == Good(y) /\ y.responded = TRUE /\ y.adapter = x.adapter /\ y.lines = x.lines

\* The backend was told to end.
Closing(x, y) == Good(y) /\ y.responded = TRUE /\ y.adapter = "exiting" /\ y.lines = x.lines

\* A handler that touches none of it but the timers, and the words of a backend
\* that goes on.
Same(x, y) == /\ DOMAIN y = DOMAIN x
              /\ y.stage = x.stage /\ y.route = x.route /\ y.conn = x.conn
              /\ y.transform = x.transform /\ y.responded = x.responded
              /\ y.answers = x.answers /\ y.logs = x.logs
              /\ y.adapter = x.adapter
              /\ Typed(x) => Typed(y)
              /\ x.adapter = "exited" => y.text = x.text

-----------------------------------------------------------------------------
(* The handlers.                                                            *)

\* What a choice says is about the words of the request alone.
LEMMA SameWords ==
  ASSUME NEW x, NEW y, NEW choices, y.text = x.text, AllTrue(x, choices)
  PROVE  AllTrue(y, choices)
  BY DEF AllTrue, TrueOf, Primary

LEMMA SameAgrees ==
  ASSUME NEW x, NEW y, NEW a, Agrees(x, a), y.adapter = x.adapter,
         x.adapter = "exited" => y.text = x.text
  PROVE  Agrees(y, a)
  BY SameWords DEF Agrees

\* What touches none of it keeps a request Good.
LEMMA SameGood == ASSUME NEW x, NEW y, Good(x), Same(x, y) PROVE Good(y)
<1>1. Has(y) /\ Typed(y) /\ y.stage = "waiting"
  BY DEF Good, Same, Has
<1>2. CASE Open(x)
  BY <1>1, <1>2 DEF Good, Same, Open, Rewrites
<1>3. CASE Told(x)
  BY <1>1, <1>3, SameAgrees DEF Good, Same, Told, Rewrites
<1>4. QED BY <1>2, <1>3 DEF Good

\* respondWithJson, for an answer that has not been sent.
LEMMA RespondOnce ==
  ASSUME NEW x, NEW status \in Nat, NEW choices, Has(x), x.answers = <<>>
  PROVE  LET y == Respond(x, status, choices)
         IN /\ DOMAIN y = DOMAIN x
            /\ y.stage = x.stage /\ y.route = x.route /\ y.conn = x.conn
            /\ y.responded = x.responded /\ y.logs = x.logs /\ y.adapter = x.adapter
            /\ y.armed = x.armed /\ y.lines = x.lines /\ y.text = x.text
            /\ Typed(x) => Typed(y)
            /\ \E a : /\ y.answers = <<a>> /\ a.status = status /\ a.choices = choices
                      /\ (a.shape = "error") <=> (status >= 400)
                      /\ x.transform => a.shape # "chat"
<1> DEFINE a == [status |-> status, shape |-> Shape(x, status), choices |-> choices]
<1>1. Respond(x, status, choices) = [[x EXCEPT !.answers = <<a>>] EXCEPT !.transform = FALSE]
  BY DEF Respond, Cleanup
<1>2. (Shape(x, status) = "error") <=> (status >= 400)
  BY DEF Shape
<1>3. x.transform => Shape(x, status) # "chat"
  BY DEF Shape
<1>4. a.status = status /\ a.shape = Shape(x, status) /\ a.choices = choices
  OBVIOUS
<1>5. QED BY <1>1, <1>2, <1>3, <1>4 DEF Has, Typed

\* appendUsage and logUsageFailure.
LEMMA LogOnce ==
  ASSUME NEW x, NEW kind, NEW status, Has(x), x.logs = <<>>
  PROVE  LET y == Log(x, kind, status)
         IN /\ DOMAIN y = DOMAIN x
            /\ y.stage = x.stage /\ y.route = x.route /\ y.conn = x.conn
            /\ y.transform = x.transform /\ y.responded = x.responded
            /\ y.answers = x.answers /\ y.adapter = x.adapter
            /\ y.armed = x.armed /\ y.lines = x.lines /\ y.text = x.text
            /\ Typed(x) => Typed(y)
            /\ y.logs = <<[kind |-> kind, status |-> status]>>
  BY DEF Log, Has, Typed

\* A request that has responded is logged and answered once, in this order.
LEMMA AnswerGood ==
  ASSUME NEW x, NEW kind, NEW status \in Nat, NEW choices,
         Due(x), Fits(x, kind, status, choices)
  PROVE  Answered(x, Respond(Log(x, kind, status), status, choices))
<1> DEFINE l == [kind |-> kind, status |-> status]
           z == Log(x, kind, status)
           y == Respond(z, status, choices)
<1>1. Has(z) /\ z.answers = <<>>
  BY LogOnce DEF Has, Due
<1>2. /\ DOMAIN z = DOMAIN x /\ z.logs = <<l>> /\ z.stage = x.stage /\ z.route = x.route
      /\ z.conn = x.conn /\ z.transform = x.transform /\ z.responded = x.responded
      /\ z.adapter = x.adapter /\ z.lines = x.lines /\ z.text = x.text /\ Typed(z)
  BY LogOnce DEF Due
<1>3. /\ DOMAIN y = DOMAIN z /\ y.stage = z.stage /\ y.route = z.route /\ y.conn = z.conn
      /\ y.responded = z.responded /\ y.logs = z.logs /\ y.adapter = z.adapter
      /\ y.lines = z.lines /\ y.text = z.text /\ Typed(y)
  BY <1>1, <1>2, RespondOnce
<1>4. PICK a : /\ y.answers = <<a>> /\ a.status = status /\ a.choices = choices
               /\ (a.shape = "error") <=> (status >= 400)
               /\ z.transform => a.shape # "chat"
  BY <1>1, RespondOnce
<1>5. l.status = status /\ l.kind = kind
  OBVIOUS
<1>6. Told(y)
  <2>1. l.status = a.status /\ ((l.kind = "usage") <=> (a.shape # "error"))
    BY <1>4, <1>5 DEF Fits
  <2>2. Rewrites(y) => a.shape # "chat"
    BY <1>2, <1>3, <1>4 DEF Rewrites, Due
  <2>3. Agrees(y, a)
    <3>1. CASE kind = "failure"
      BY <1>4, <3>1 DEF Fits, Agrees
    <3>2. CASE kind # "failure"
      <4>1. Ended(x) /\ AllTrue(x, choices) /\ a.shape # "error"
        BY <1>4, <3>2 DEF Fits
      <4>2. AllTrue(y, choices)
        BY <1>2, <1>3, <4>1, SameWords
      <4>3. QED BY <1>2, <1>3, <1>4, <4>1, <4>2 DEF Agrees, Ended
    <3>3. QED BY <3>1, <3>2
  <2>4. QED BY <1>2, <1>3, <1>4, <2>1, <2>2, <2>3 DEF Told, Due
<1>7. QED BY <1>2, <1>3, <1>6 DEF Answered, Good, Has, Due

\* What computeFinal and choiceContent find: raw lines only when no choice has words.
LEMMA FinalTrue ==
  ASSUME NEW x, NEW c
  PROVE  /\ Final(x).from = "stdout" => Primary(x) = {}
         /\ ChoiceContent(x, c).from = "stdout" => Primary(x) = {}
         /\ ToolContent(x, c).from = "stdout" => Primary(x) = {}
<1>1. Final(x).from = "stdout" => Primary(x) = {}
  BY DEF Final
<1>2. ChoiceContent(x, c).from = "stdout" => Primary(x) = {}
  BY <1>1 DEF ChoiceContent
<1>3. ToolContent(x, c).from = "stdout" => Primary(x) = {}
  <2> DEFINE source == ChoiceContent(x, c)
  <2>1. \/ ToolContent(x, c) \in {Final(x), source}
        \/ ToolContent(x, c) \in {[from |-> "null", choice |-> 0], [from |-> "calls", choice |-> 0]}
        \/ ToolContent(x, c) = [from |-> "blocks", choice |-> source.choice]
    BY DEF ToolContent
  <2>2. QED BY <1>1, <1>2, <2>1
<1>4. QED BY <1>1, <1>2, <1>3

\* buildAssistantMessage: a choice has calls or none, and no more than the limit.
LEMMA CallsCounted ==
  ASSUME NEW x, Typed(x), NEW c \in ChoiceIds
  PROVE  /\ CallsOf(x, c) \in Nat /\ (MaxBlocks > 0 => CallsOf(x, c) <= MaxBlocks)
         /\ CallsOf(x, c) = 0 => x.calls[c] = 0 /\ ~x.function
<1>1. x.calls[c] \in Nat /\ x.function \in BOOLEAN /\ MaxBlocks \in Nat
  BY SessionAssumption DEF Typed
<1>2. CASE x.calls[c] = 0
  BY <1>1, <1>2 DEF CallsOf
<1>3. CASE x.calls[c] > 0
  BY <1>1, <1>3 DEF CallsOf
<1>4. QED BY <1>1, <1>2, <1>3

\* Each choice says tool_calls for its own calls, and tells its own words.
LEMMA ChoiceTrue ==
  ASSUME NEW x, Typed(x), NEW c \in ChoiceIds, NEW canonical
  PROVE  TrueOf(x, [content |-> ContentOf(x, c, canonical), calls |-> CallsOf(x, c),
                    reason |-> ChoiceReason(x, c, canonical)], c + 1)
<1> DEFINE reason == ChoiceReason(x, c, canonical)
           content == ContentOf(x, c, canonical)
<1>1. CallsOf(x, c) \in Nat /\ (MaxBlocks > 0 => CallsOf(x, c) <= MaxBlocks)
  BY CallsCounted
<1>2. CallsOf(x, c) = 0 => x.calls[c] = 0 /\ ~x.function
  BY CallsCounted
<1>3. (reason = "tool_calls") <=> (CallsOf(x, c) > 0)
  BY <1>1 DEF ChoiceReason
<1>4. reason = "content_filter" => canonical = "content_filter"
  BY <1>1 DEF ChoiceReason
<1>5. canonical = "content_filter" => content.from = "null"
  BY DEF ContentOf
<1>6. ASSUME x.text[c] # "none", CallsOf(x, c) = 0, reason # "content_filter"
      PROVE  content = [from |-> "own", choice |-> c]
  <2>1. canonical # "content_filter"
    BY <1>6 DEF ChoiceReason
  <2>2. content = ChoiceContent(x, c)
    BY <1>2, <1>6, <2>1 DEF ContentOf
  <2>3. QED BY <1>6, <2>2 DEF ChoiceContent
<1>7. content.from = "stdout" => Primary(x) = {}
  <2>1. \/ content = [from |-> "null", choice |-> 0]
        \/ content \in {ToolContent(x, c), ChoiceContent(x, c)}
    BY DEF ContentOf
  <2>2. QED BY <2>1, FinalTrue
<1>8. c + 1 - 1 = c
  BY DEF ChoiceIds
<1> HIDE DEF reason, content
<1> DEFINE said == [content |-> content, calls |-> CallsOf(x, c), reason |-> reason]
<1>9. said.content = content /\ said.calls = CallsOf(x, c) /\ said.reason = reason
  OBVIOUS
<1> HIDE DEF said
<1>10. TrueOf(x, said, c + 1)
  <2>1. /\ (said.reason = "tool_calls") <=> (said.calls > 0)
        /\ MaxBlocks > 0 => said.calls <= MaxBlocks
        /\ said.calls \in Nat /\ MaxBlocks \in Nat /\ c \in Int
    BY <1>1, <1>3, <1>9, SessionAssumption DEF ChoiceIds
  <2>2. said.reason = "content_filter" => said.content.from = "null"
    BY <1>4, <1>5, <1>9
  <2>3. x.text[c + 1 - 1] # "none" /\ said.calls = 0 /\ said.reason # "content_filter" =>
          said.content = [from |-> "own", choice |-> c + 1 - 1]
    BY <1>6, <1>8, <1>9
  <2>4. said.content.from = "stdout" => Primary(x) = {}
    BY <1>7, <1>9
  <2>5. QED BY <2>1, <2>2, <2>3, <2>4 DEF TrueOf
<1>11. QED BY <1>10 DEF said, content, reason

\* The choices of a completion.
LEMMA PayloadTrue == ASSUME NEW x, Typed(x) PROVE AllTrue(x, Payload(x))
<1> DEFINE canonical == Canonical(x)
           choice(k) == [content |-> ContentOf(x, k - 1, canonical), calls |-> CallsOf(x, k - 1),
                         reason |-> ChoiceReason(x, k - 1, canonical)]
<1>1. Payload(x) = [k \in 1 .. x.n |-> choice(k)]
  BY DEF Payload
<1>2. ASSUME NEW k \in 1 .. x.n PROVE TrueOf(x, choice(k), k)
  <2>1. k - 1 \in ChoiceIds /\ (k - 1) + 1 = k
    BY SessionAssumption DEF Typed, ChoiceIds
  <2>2. TrueOf(x, choice(k), (k - 1) + 1)
    BY <2>1, ChoiceTrue
  <2>3. QED BY <2>1, <2>2
<1> HIDE DEF choice
<1>3. QED BY <1>1, <1>2 DEF AllTrue

\* finalizeResponse: 200 is said of a backend that has ended.
LEMMA FinalizeGood ==
  ASSUME NEW x, NEW status \in Nat, Good(x), status >= 400 \/ (status = 200 /\ Ended(x))
  PROVE  Answered(x, Finalize(x, status))
<1>1. CASE x.responded = TRUE
  BY <1>1 DEF Finalize, Answered
<1>2. CASE x.responded = FALSE
  <2> DEFINE y == [x EXCEPT !.responded = TRUE, !.armed = {},
                            !.tools = @ \/ \E c \in ChoiceIds : x.calls[c] > 0]
  <2>1. Open(x) /\ Has(x) /\ Typed(x) /\ x.stage = "waiting"
    BY <1>2 DEF Good, Told
  <2>2. Due(y) /\ y.adapter = x.adapter /\ y.lines = x.lines
    BY <2>1 DEF Has, Typed, Open, Due, Rewrites
  <2>3. CASE status = 200
    <3>1. Finalize(x, status) = Respond(Log(y, "usage", status), status, Payload(y))
      BY <1>2, <2>3 DEF Finalize
    <3> HIDE DEF y
    <3>2. Fits(y, "usage", status, Payload(y))
      BY <2>2, <2>3, PayloadTrue DEF Fits, Ended, Due
    <3>3. Answered(y, Respond(Log(y, "usage", status), status, Payload(y)))
      BY <2>2, <3>2, AnswerGood
    <3>4. QED BY <2>2, <3>1, <3>3 DEF Answered
  <2>4. CASE status # 200
    <3>1. Finalize(x, status) = Respond(Log(y, "failure", status), status, <<>>)
      BY <1>2, <2>4 DEF Finalize
    <3> HIDE DEF y
    <3>2. Fits(y, "failure", status, <<>>)
      BY <2>4 DEF Fits
    <3>3. Answered(y, Respond(Log(y, "failure", status), status, <<>>))
      BY <2>2, <3>2, AnswerGood
    <3>4. QED BY <2>2, <3>1, <3>3 DEF Answered
  <2>5. QED BY <2>3, <2>4
<1>3. QED BY <1>1, <1>2 DEF Good, Open, Told

\* The idle timer is none of it.
LEMMA ChunkSame == ASSUME NEW x, Has(x) PROVE Same(x, Chunk(x)) /\ Chunk(x).lines = x.lines
  BY DEF Chunk, Same, Has, Typed

\* The adapter's error: the request is answered with it, if it is not yet.
LEMMA FailGood ==
  ASSUME NEW x, NEW status \in Nat, Good(x), status >= 400, ~Ended(x)
  PROVE  Closing(x, Fail(x, status))
<1> DEFINE z == Finalize(Chunk(x), status)
<1>1. Same(x, Chunk(x)) /\ Good(Chunk(x)) /\ Chunk(x).lines = x.lines
  BY ChunkSame, SameGood DEF Good
<1>2. Answered(Chunk(x), z)
  BY <1>1, FinalizeGood
<1>3. Good(z) /\ z.responded = TRUE /\ ~Ended(z) /\ z.lines = x.lines
  BY <1>1, <1>2 DEF Same, Answered, Ended
<1>4. Fail(x, status) = [z EXCEPT !.adapter = "exiting"]
  BY DEF Fail
<1> HIDE DEF z
<1>5. QED BY <1>3, <1>4 DEF Good, Has, Typed, Open, Told, Agrees, Rewrites, Ended, Closing

\* A kill leaves a request Good and its backend ended or not, as it was.
Killed(x, y) == /\ Good(y) /\ y.lines = x.lines
                /\ x.responded = TRUE => y.responded = TRUE
                /\ Ended(x) => y = x
                /\ ~Ended(x) => ~Ended(y)

\* kill(), whose error may answer the request inside it.
LEMMA KillGood == ASSUME NEW x, Good(x) PROVE Killed(x, Kill(x))
<1>1. CASE x.adapter = "held"
  <2>1. Kill(x) = Fail(x, 499)
    BY <1>1 DEF Kill
  <2>2. ~Ended(x)
    BY <1>1 DEF Ended
  <2>3. Closing(x, Fail(x, 499))
    BY <2>2, FailGood
  <2>4. QED BY <2>1, <2>2, <2>3 DEF Closing, Killed, Ended
<1>2. CASE x.adapter = "setup"
  <2>1. Kill(x) = [x EXCEPT !.adapter = "exiting"]
    BY <1>2 DEF Kill
  <2>2. QED BY <1>2, <2>1 DEF Good, Has, Typed, Open, Told, Agrees, Rewrites, Killed, Ended
<1>3. CASE x.adapter \notin {"held", "setup"}
  BY <1>3 DEF Kill, Killed
<1>4. QED BY <1>1, <1>2, <1>3

\* A kill that answers nothing.
Muted(x, y) == /\ DOMAIN y = DOMAIN x /\ y.stage = x.stage /\ y.route = x.route
               /\ y.conn = x.conn /\ y.transform = x.transform /\ y.responded = TRUE
               /\ y.answers = x.answers /\ y.logs = x.logs /\ y.lines = x.lines
               /\ Typed(x) => Typed(y)
               /\ ~Ended(x) => ~Ended(y)

\* kill() of a request that has responded answers nothing.
LEMMA KillMuted == ASSUME NEW x, Has(x), x.responded = TRUE PROVE Muted(x, Kill(x))
<1>1. Same(x, Chunk(x)) /\ Chunk(x).lines = x.lines /\ Finalize(Chunk(x), 499) = Chunk(x)
  BY ChunkSame DEF Same, Finalize
<1>2. CASE x.adapter = "held"
  <2>1. Kill(x) = [Chunk(x) EXCEPT !.adapter = "exiting"]
    BY <1>1, <1>2 DEF Kill, Fail
  <2>2. QED BY <1>1, <2>1 DEF Same, Has, Typed, Muted, Ended
<1>3. CASE x.adapter = "setup"
  <2>1. Kill(x) = [x EXCEPT !.adapter = "exiting"]
    BY <1>3 DEF Kill
  <2>2. QED BY <2>1 DEF Has, Typed, Muted, Ended
<1>4. CASE x.adapter \notin {"held", "setup"}
  BY <1>4 DEF Kill, Muted
<1>5. QED BY <1>2, <1>3, <1>4

-----------------------------------------------------------------------------
(* The actions.                                                             *)

\* What an action of a waiting request leaves: a line is one of a backend that
\* has not ended.
Stepped(x, y) == Good(y) /\ (Ended(y) => y.lines = x.lines)

\* No request is answered at first.
LEMMA InitGood == Init => SessionInvariant
  BY DEF Init, SessionInvariant, New, Idle, Has, ChoiceIds

\* A refusal: an error, and nothing that could go on.
LEMMA RefuseRefused ==
  ASSUME NEW x, NEW status \in Nat, status >= 400, Idle(x), x.answers = <<>>
  PROVE  Refused(Refuse(x, status))
<1> DEFINE y == Respond(x, status, <<>>)
<1>1. /\ DOMAIN y = DOMAIN x /\ y.adapter = x.adapter /\ y.armed = x.armed
      /\ \E a : y.answers = <<a>> /\ a.shape = "error" /\ a.choices = <<>>
  BY RespondOnce DEF Idle
<1>2. Refuse(x, status) = [y EXCEPT !.stage = "refused"]
  BY DEF Refuse
<1> HIDE DEF y
<1>3. QED BY <1>1, <1>2 DEF Refused, Idle, Has

\* Every check answers with an error.
LEMMA ChecksAreErrors ==
  \A i \in DOMAIN Checks : CheckStatus[Checks[i]] \in Nat /\ CheckStatus[Checks[i]] >= 400
<1>1. DOMAIN Checks = 1 .. 7
  BY DEF Checks
<1>2. \A i \in 1 .. 7 : Checks[i] \in {"model", "messages", "choices", "options", "known",
                                       "tokens", "normalize"}
  BY DEF Checks
<1>3. QED BY <1>1, <1>2 DEF CheckStatus

\* postChatNonStream.
LEMMA ChatHandlerGood ==
  ASSUME NEW x, New(x), x.route = "responses" => x.transform
  PROVE  (Good(ChatHandler(x)) /\ Open(ChatHandler(x))) \/ Refused(ChatHandler(x))
<1>1. CASE Faults(x) = {}
  <2>1. ChatHandler(x) =
          [x EXCEPT !.stage = "waiting", !.adapter = "setup",
                    !.armed = {"request", "idle"} \cup (IF EarlyTruncate THEN {"early"} ELSE {})]
    BY <1>1 DEF ChatHandler
  <2>2. x.n \in 1 .. MaxChoices
    <3>1. 3 \in DOMAIN Checks /\ Checks[3] = "choices"
      BY DEF Checks
    <3>2. QED BY <1>1, <3>1 DEF Faults, Fails
  <2>3. QED BY <2>1, <2>2 DEF New, Idle, Has, Typed, Good, Open, Rewrites
<1>2. CASE Faults(x) # {}
  <2> DEFINE status == CheckStatus[Checks[Min(Faults(x))]]
             y == Log(x, "failure", status)
  <2>1. ChatHandler(x) = Refuse(y, status)
    BY <1>2 DEF ChatHandler
  <2>2. Min(Faults(x)) \in DOMAIN Checks
    <3>1. Faults(x) \subseteq 1 .. 7
      BY DEF Faults, Checks
    <3>2. \E m \in Faults(x) : \A n \in Faults(x) : n >= m
      <4> DEFINE F(i) == i \in Faults(x)
      <4>1. PICK n \in 1 .. 7 : F(n)
        BY <1>2, <3>1
      <4>2. CASE F(1) BY <4>2, <3>1
      <4>3. CASE ~F(1) /\ F(2) BY <4>3, <3>1
      <4>4. CASE ~F(1) /\ ~F(2) /\ F(3) BY <4>4, <3>1
      <4>5. CASE ~F(1) /\ ~F(2) /\ ~F(3) /\ F(4) BY <4>5, <3>1
      <4>6. CASE ~F(1) /\ ~F(2) /\ ~F(3) /\ ~F(4) /\ F(5) BY <4>6, <3>1
      <4>7. CASE ~F(1) /\ ~F(2) /\ ~F(3) /\ ~F(4) /\ ~F(5) /\ F(6) BY <4>7, <3>1
      <4>8. CASE ~F(1) /\ ~F(2) /\ ~F(3) /\ ~F(4) /\ ~F(5) /\ ~F(6) BY <4>8, <4>1, <3>1
      <4>9. QED BY <4>2, <4>3, <4>4, <4>5, <4>6, <4>7, <4>8
    <3>3. Min(Faults(x)) \in Faults(x)
      BY <3>2 DEF Min
    <3>4. QED BY <3>1, <3>3 DEF Checks
  <2>3. status \in Nat /\ status >= 400
    BY <2>2, ChecksAreErrors
  <2> HIDE DEF status
  <2>4. Has(x) /\ x.logs = <<>> /\ x.answers = <<>> /\ x.adapter = "off" /\ x.armed = {}
    BY DEF New, Idle
  <2>5. Idle(y) /\ y.answers = <<>>
    BY <2>4, LogOnce DEF Idle, Has
  <2> HIDE DEF y
  <2>6. QED BY <2>1, <2>3, <2>5, RefuseRefused
<1>3. QED BY <1>1, <1>2

\* Start, on both routes: the Responses handler has installed its transform.
LEMMA StartGood ==
  ASSUME New(session), Start
  PROVE  (Good(session') /\ Open(session')) \/ Refused(session')
<1> DEFINE x == [session EXCEPT !.transform = (session.route = "responses")]
<1>1. New(x) /\ (x.route = "responses" => x.transform)
  BY DEF New, Idle, Has
<1>2. session' = IF x.route = "responses" /\ Fails(x, "choices")
                 THEN Refuse(x, 400) ELSE ChatHandler(x)
  BY DEF Start
<1> HIDE DEF x
<1>3. CASE x.route = "responses" /\ Fails(x, "choices")
  <2>1. Idle(x) /\ x.answers = <<>>
    BY <1>1 DEF New
  <2>2. Refused(Refuse(x, 400))
    BY <2>1, RefuseRefused
  <2>3. QED BY <1>2, <1>3, <2>2
<1>4. CASE ~(x.route = "responses" /\ Fails(x, "choices"))
  <2>1. (Good(ChatHandler(x)) /\ Open(ChatHandler(x))) \/ Refused(ChatHandler(x))
    BY <1>1, ChatHandlerGood
  <2>2. QED BY <1>2, <1>4, <2>1
<1>5. QED BY <1>3, <1>4

\* The adapter wires its context.
LEMMA WireGood == ASSUME Good(session), Wire PROVE Stepped(session, session')
  BY DEF Wire, Good, Has, Typed, Open, Told, Agrees, Rewrites, Stepped, Ended

\* The backend fails.
LEMMA BackendFailsGood ==
  ASSUME Good(session), NEW status \in BackendStatuses, BackendFails(status)
  PROVE  Stepped(session, session')
<1>1. status \in Nat /\ status >= 400
  BY DEF BackendStatuses
<1>2. ~Ended(session) /\ session' = Fail(session, status)
  BY DEF BackendFails, Ended
<1>3. Closing(session, Fail(session, status))
  BY <1>1, <1>2, FailGood
<1>4. QED BY <1>2, <1>3 DEF Closing, Stepped

\* A line comes from a backend that has not ended, and answers nothing.
LEMMA LineGood ==
  ASSUME Good(session), BackendLine
  PROVE  Stepped(session, session')
<1> DEFINE x == session
           y == session'
<1>1. /\ DOMAIN Line(x) = DOMAIN x /\ Same(x, Line(x)) /\ Has(x) /\ x.adapter = "held"
      /\ Typed(x) /\ Line(x).calls = x.calls /\ Line(x).n = x.n
      /\ Line(x).function = x.function
  BY DEF BackendLine, TextDelta, ToolDelta, WholeMessage, Usage, Signal, CanLine, Line,
         Chunk, Same, Good, Has, Typed
<1> SUFFICES Same(x, y)
  <2>1. ASSUME Same(x, y) PROVE Good(y)
    BY <2>1, SameGood
  <2>2. ASSUME Same(x, y) PROVE ~Ended(y)
    BY <2>2, <1>1 DEF Same, Ended
  <2>3. QED BY <2>1, <2>2 DEF Stepped
<1>2. ASSUME NEW c \in ChoiceIds, NEW t \in {"plain", "block", "part"}, TextDelta(c, t)
      PROVE  Same(x, y)
  BY <1>1, <1>2 DEF TextDelta, Same, Has, Typed
<1>3. ASSUME NEW c \in ChoiceIds, NEW new \in {0, 1}, NEW parses \in BOOLEAN,
             ToolDelta(c, new, parses)
      PROVE  Same(x, y)
  BY <1>1, <1>3 DEF ToolDelta, Same, Has, Typed
<1>4. ASSUME NEW c \in ChoiceIds, NEW t \in Texts, NEW new \in {0, 1}, WholeMessage(c, t, new)
      PROVE  Same(x, y)
  BY <1>1, <1>4 DEF WholeMessage, Same, Has, Typed
<1>5. ASSUME NEW reason, Usage(reason) PROVE Same(x, y)
  BY <1>1, <1>5 DEF Usage, Track, Same, Has, Typed
<1>6. ASSUME NEW kind, NEW reason, Signal(kind, reason) PROVE Same(x, y)
  BY <1>1, <1>6 DEF Signal, Track, Same, Has, Typed
<1>7. QED BY <1>2, <1>3, <1>4, <1>5, <1>6 DEF BackendLine

\* The turn's result.
LEMMA CompletesGood ==
  ASSUME Good(session), NEW reason, BackendCompletes(reason)
  PROVE  Stepped(session, session')
<1> DEFINE x == IF reason = "none" THEN session ELSE Line(session)
           z == Track(x, reason, 1)
<1>1. session.adapter = "held" /\ session' = [z EXCEPT !.adapter = "exiting"]
  BY DEF BackendCompletes
<1>2. Same(session, x) /\ Has(x)
  BY DEF Line, Chunk, Same, Good, Has, Typed
<1>3. Same(x, z)
  BY <1>2 DEF Track, Same, Has, Typed
<1>4. Good(z) /\ z.adapter = "held"
  BY <1>1, <1>2, <1>3, SameGood DEF Same
<1> HIDE DEF z
<1>5. QED BY <1>1, <1>4 DEF Good, Has, Typed, Open, Told, Agrees, Rewrites, Stepped, Ended

\* stdout ends, the adapter exits: the answer is complete.
LEMMA EndsGood ==
  ASSUME Good(session), AdapterEnds
  PROVE  Stepped(session, session')
<1> DEFINE x == [session EXCEPT !.adapter = "exited"]
<1>1. session' = Finalize(x, 200) /\ session.adapter = "exiting"
  BY DEF AdapterEnds
<1>2. Good(x) /\ Ended(x) /\ x.lines = session.lines
  BY <1>1 DEF Good, Has, Typed, Open, Told, Agrees, Rewrites, Ended
<1> HIDE DEF x
<1>3. Answered(x, Finalize(x, 200))
  BY <1>2, FinalizeGood
<1>4. QED BY <1>1, <1>2, <1>3 DEF Answered, Stepped

\* A timer that has fired.
LEMMA DisarmSame ==
  ASSUME NEW x, NEW t, Has(x)
  PROVE  Same(x, Disarm(x, t)) /\ Disarm(x, t).lines = x.lines
  BY DEF Disarm, Same, Has, Typed

\* What leaves a request as it is but for its timers is a step.
LEMMA SameStepped ==
  ASSUME NEW x, NEW y, Good(x), Same(x, y), y.lines = x.lines
  PROVE  Stepped(x, y)
  BY SameGood DEF Stepped

\* A kill is a step.
LEMMA KillStepped ==
  ASSUME NEW x, NEW y, Good(x), Stepped(x, y)
  PROVE  Stepped(x, Kill(y))
<1>1. Good(y) /\ (Ended(y) => y.lines = x.lines)
  BY DEF Stepped
<1>2. Killed(y, Kill(y))
  BY <1>1, KillGood
<1>3. QED BY <1>1, <1>2 DEF Killed, Stepped

\* The request timeout kills, and answers by itself.
LEMMA RequestTimeoutGood ==
  ASSUME Good(session), RequestTimeout
  PROVE  Stepped(session, session')
<1> DEFINE d == Disarm(session, "request")
           x == [d EXCEPT !.responded = TRUE]
           k == Kill(x)
<1>1. Same(session, d) /\ Has(d) /\ d.lines = session.lines
  BY DisarmSame DEF Good, Same, Has
<1>2. CASE session.responded
  <2>1. session' = d
    BY <1>2 DEF RequestTimeout
  <2>2. QED BY <1>1, <2>1, SameStepped
<1>3. CASE ~session.responded
  <2>1. session' = Respond(Log(k, "failure", 504), 504, <<>>)
    BY <1>3 DEF RequestTimeout
  <2>2. Open(session) /\ Typed(d) /\ session.stage = "waiting"
    BY <1>1, <1>3 DEF Good, Told, Same
  <2>3. Due(x) /\ x.lines = session.lines
    BY <1>1, <2>2 DEF Due, Open, Same, Has, Typed, Rewrites
  <2> HIDE DEF x
  <2>4. Muted(x, k)
    BY <2>3, KillMuted DEF Due
  <2>5. Due(k) /\ k.lines = session.lines
    BY <2>3, <2>4 DEF Muted, Due, Has, Rewrites
  <2> HIDE DEF k
  <2>6. Fits(k, "failure", 504, <<>>)
    BY DEF Fits
  <2>7. Answered(k, Respond(Log(k, "failure", 504), 504, <<>>))
    BY <2>5, <2>6, AnswerGood
  <2>8. QED BY <2>1, <2>5, <2>7 DEF Answered, Stepped
<1>4. QED BY <1>2, <1>3

\* The idle timer answers, and kills then.
LEMMA IdleTimeoutGood ==
  ASSUME Good(session), IdleTimeout
  PROVE  Stepped(session, session')
<1> DEFINE d == Disarm(session, "idle")
           f == Finalize(d, 504)
<1>1. Same(session, d) /\ Good(d) /\ d.lines = session.lines
  BY DisarmSame, SameGood DEF Good
<1>2. CASE session.responded
  BY <1>1, <1>2, SameStepped DEF IdleTimeout
<1>3. CASE ~session.responded
  <2>1. session' = Kill(f)
    BY <1>3 DEF IdleTimeout
  <2> HIDE DEF d
  <2>2. Answered(d, f)
    BY <1>1, FinalizeGood
  <2>3. Stepped(session, f)
    BY <1>1, <2>2 DEF Answered, Stepped
  <2> HIDE DEF f
  <2>4. QED BY <2>1, <2>3, KillStepped
<1>4. QED BY <1>2, <1>3

\* The early truncation kills.
LEMMA EarlyTimeoutGood ==
  ASSUME Good(session), EarlyTimeout
  PROVE  Stepped(session, session')
<1> DEFINE d == Disarm(session, "early")
<1>1. Same(session, d) /\ d.lines = session.lines
  BY DisarmSame DEF Good
<1>2. Stepped(session, d)
  BY <1>1, SameStepped
<1>3. session' = d \/ session' = Kill(d)
  BY DEF EarlyTimeout
<1> HIDE DEF d
<1>4. QED BY <1>2, <1>3, KillStepped

\* The client goes, and with it the transform.
LEMMA DisconnectGood ==
  ASSUME Good(session), Disconnect
  PROVE  Stepped(session, session')
<1> DEFINE x == Cleanup([session EXCEPT !.conn = "gone"])
<1>1. Stepped(session, x)
  <2> DEFINE c == [session EXCEPT !.conn = "gone"]
  <2>1. x = [c EXCEPT !.transform = FALSE]
    BY DEF Cleanup
  <2>2. /\ DOMAIN x = DOMAIN session /\ Has(x) /\ x.stage = "waiting" /\ x.conn = "gone"
        /\ x.responded = session.responded /\ x.answers = session.answers
        /\ x.logs = session.logs /\ x.adapter = session.adapter /\ x.text = session.text
        /\ x.lines = session.lines /\ Typed(x)
    BY <2>1 DEF Good, Has, Typed
  <2> HIDE DEF x
  <2>3. Open(session) => Open(x)
    BY <2>2 DEF Open, Rewrites
  <2>4. Told(session) => Told(x)
    BY <2>2, SameAgrees DEF Told, Rewrites
  <2>5. QED BY <2>2, <2>3, <2>4 DEF Good, Stepped
<1>2. session' = x \/ session' = Kill(x)
  BY DEF Disconnect
<1> HIDE DEF x
<1>3. QED BY <1>1, <1>2, KillStepped

-----------------------------------------------------------------------------
(* The theorems.                                                            *)

\* A waiting request goes on waiting, whatever happens.
LEMMA GoodNext ==
  ASSUME Good(session), Next
  PROVE  Stepped(session, session')
<1>1. ~Start
  BY DEF Good, Start
<1>2. ASSUME NEW status \in BackendStatuses, BackendFails(status)
      PROVE  Stepped(session, session')
  BY <1>2, BackendFailsGood
<1>3. ASSUME NEW reason, BackendCompletes(reason) PROVE Stepped(session, session')
  BY <1>3, CompletesGood
<1>4. QED
  BY <1>1, <1>2, <1>3, WireGood, LineGood, EndsGood, RequestTimeoutGood, IdleTimeoutGood,
     EarlyTimeoutGood, DisconnectGood DEF Next

\* Before and after it waits, a request has nothing running: only Start is possible.
LEMMA IdleNext ==
  ASSUME Idle(session), session.stage # "waiting", Next
  PROVE  Start
  BY DEF Idle, Next, Start, Wire, BackendLine, TextDelta, ToolDelta, WholeMessage, Usage,
         Signal, CanLine, AdapterEnds, BackendFails, BackendCompletes, RequestTimeout,
         IdleTimeout, EarlyTimeout, Disconnect

\* The step of the induction.
LEMMA StepGood == SessionInvariant /\ [Next]_vars => SessionInvariant'
<1> SUFFICES ASSUME SessionInvariant, [Next]_vars PROVE SessionInvariant'
  OBVIOUS
<1>1. CASE UNCHANGED vars
  <2>1. session' = session
    BY <1>1 DEF vars
  <2>2. QED BY <2>1 DEF SessionInvariant, New, Refused, Good, Idle, Has, Typed, Open, Told,
                        Rewrites, Agrees, AllTrue, TrueOf, Primary
<1>2. CASE Next /\ Good(session)
  <2>1. Good(session')
    BY <1>2, GoodNext DEF Stepped
  <2>2. QED BY <2>1 DEF SessionInvariant
<1>3. CASE Next /\ New(session)
  <2>1. Start
    BY <1>3, IdleNext DEF New
  <2>2. (Good(session') /\ Open(session')) \/ Refused(session')
    BY <1>3, <2>1, StartGood
  <2>3. QED BY <2>2 DEF SessionInvariant
<1>4. CASE Next /\ Refused(session)
  <2>1. Start
    BY <1>4, IdleNext DEF Refused
  <2>2. QED BY <1>4, <2>1 DEF Refused, Start
<1>5. QED BY <1>1, <1>2, <1>3, <1>4 DEF SessionInvariant

\* Every request is new, refused with an error, or waiting: then it is Open or Told.
THEOREM NonstreamInvariant == Spec => []SessionInvariant
  BY InitGood, StepGood, PTL DEF Spec

\* A request that reached the backend is answered once and logged once, and both
\* say the same, for any bounds.
THEOREM AnswersAreLogged == Spec => []OneAnswerOneLog
<1>1. SessionInvariant => OneAnswerOneLog
  <2> SUFFICES ASSUME SessionInvariant, session.stage = "waiting"
               PROVE  /\ Len(session.answers) <= 1 /\ Len(session.logs) = Len(session.answers)
                      /\ \A i \in DOMAIN session.answers :
                           /\ session.logs[i].status = session.answers[i].status
                           /\ (session.logs[i].kind = "usage")
                                <=> (session.answers[i].shape # "error")
    BY DEF OneAnswerOneLog
  <2>1. Open(session) \/ Told(session)
    BY DEF SessionInvariant, New, Refused, Good
  <2>2. CASE Open(session)
    BY <2>2 DEF Open
  <2>3. CASE Told(session)
    BY <2>3 DEF Told
  <2>4. QED BY <2>1, <2>2, <2>3
<1>2. QED BY <1>1, NonstreamInvariant, PTL

\* The Responses route never sends a chat document to a client that is there.
THEOREM ResponsesAreShaped == Spec => []ResponsesShape
<1>1. SessionInvariant => ResponsesShape
  <2> SUFFICES ASSUME SessionInvariant, session.stage = "waiting", session.conn = "open",
                      session.route = "responses"
               PROVE  \A i \in DOMAIN session.answers : session.answers[i].shape # "chat"
    BY DEF ResponsesShape
  <2>1. Open(session) \/ Told(session)
    BY DEF SessionInvariant, New, Refused, Good
  <2>2. QED BY <2>1 DEF Open, Told, Rewrites
<1>2. QED BY <1>1, NonstreamInvariant, PTL

\* Every choice of an answer says tool_calls for its own calls, tells its own words
\* and keeps the limit on calls, for any number of choices and lines.
THEOREM AnswersAreTrue == Spec => []ChoicesAreTrue
<1>1. SessionInvariant => ChoicesAreTrue
  <2> SUFFICES ASSUME SessionInvariant
               PROVE  \A i \in DOMAIN session.answers : AllTrue(session, session.answers[i].choices)
    BY DEF ChoicesAreTrue, AllTrue, TrueOf
  <2>1. CASE session.answers = <<>>
    BY <2>1
  <2>2. CASE Refused(session)
    BY <2>2 DEF Refused, AllTrue
  <2>3. CASE Told(session)
    <3>1. PICK a : session.answers = <<a>> /\ Agrees(session, a)
      BY <2>3 DEF Told
    <3>2. AllTrue(session, a.choices)
      BY <3>1 DEF Agrees, AllTrue
    <3>3. QED BY <3>1, <3>2
  <2>4. QED BY <2>1, <2>2, <2>3 DEF SessionInvariant, New, Good, Open
<1>2. QED BY <1>1, NonstreamInvariant, PTL

\* A completion answers all of the backend's lines, and the backend has ended.
THEOREM AnswersAreComplete == Spec => AnswerIsComplete
<1> DEFINE Complete == \A i \in DOMAIN session'.answers :
                         session'.answers[i].shape # "error" =>
                           session'.adapter = "exited" /\ session'.lines = session.lines
<1>1. SessionInvariant /\ SessionInvariant' /\ [Next]_vars => [Complete]_vars
  <2> SUFFICES ASSUME SessionInvariant, SessionInvariant', Next PROVE Complete
    OBVIOUS
  <2>1. CASE Good(session)
    <3>1. Stepped(session, session')
      BY <2>1, GoodNext
    <3>2. Open(session') \/ Told(session')
      BY <3>1 DEF Stepped, Good
    <3>3. CASE Open(session')
      BY <3>3 DEF Open
    <3>4. CASE Told(session')
      BY <3>1, <3>4 DEF Told, Agrees, Stepped, Ended
    <3>5. QED BY <3>2, <3>3, <3>4
  <2>2. CASE Idle(session) /\ session.stage # "waiting"
    <3>1. Start
      BY <2>2, IdleNext
    <3>2. New(session)
      BY <3>1 DEF SessionInvariant, New, Good, Refused, Start
    <3>3. (Good(session') /\ Open(session')) \/ Refused(session')
      BY <3>1, <3>2, StartGood
    <3>4. CASE Refused(session')
      BY <3>4 DEF Refused
    <3>5. CASE Open(session')
      BY <3>5 DEF Open
    <3>6. QED BY <3>3, <3>4, <3>5
  <2>3. QED BY <2>1, <2>2 DEF SessionInvariant, New, Refused
<1>2. QED BY <1>1, NonstreamInvariant, PTL DEF Spec, AnswerIsComplete
=============================================================================
