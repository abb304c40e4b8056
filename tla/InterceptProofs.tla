---------------------------- MODULE InterceptProofs ----------------------------
(***************************************************************************)
(* Proofs about Intercept: the run's promise and the answer that is made   *)
(* of it agree, in whatever order timer, exit, file and client come.       *)
(***************************************************************************)
EXTENDS Intercept, SequenceTheorems, TLAPS

\* A promise that is resolved is one of a child that ended well in time.
RunInvariant ==
  /\ exec.step \in {"none", "mkdir"} =>
       exec.child = "none" /\ exec.promise = "pending" /\ exec.timer = "none" /\ exec.file = "none"
  /\ exec.step = "running" => exec.timer # "none"
  /\ exec.timer = "fired" => exec.promise # "pending"
  /\ exec.step = "reading" => exec.child = "ok" /\ exec.timer \in {"cleared", "fired"}
  /\ exec.promise = "resolved" =>
       /\ exec.child = "ok" /\ exec.timer = "cleared" /\ exec.step \in {"unlinking", "gone"}
       /\ exec.step = "unlinking" => exec.file = "text"

\* The frames are a beginning of the answer that is due.
Begins(frames) == \A i \in DOMAIN frames : i \in DOMAIN Due /\ frames[i] = Due[i]

\* What is told is what is due, and to a client that is there the rest is going
\* to be.
AnswerInvariant ==
  /\ ~req.title => exec.step = "none"
  /\ ~answer.begun => answer.script = <<>> /\ answer.wire = <<>> /\ ~answer.ended
  /\ answer.ended => answer.script = <<>>
  /\ answer.begun /\ req.title => exec.promise # "pending"
  /\ Begins(answer.wire)
  /\ answer.begun /\ answer.conn = "open" => answer.wire \o answer.script = Due

InterceptInvariant == TypeOK /\ RunInvariant /\ AnswerInvariant

\* Initially nothing runs and nothing is told.
LEMMA InitInvariant == Init => InterceptInvariant
  BY DEF Init, InterceptInvariant, TypeOK, RunInvariant, AnswerInvariant, Begins

\* A step of the run: the answer stands, and so does a promise that is settled.
LEMMA RunStep ==
  ASSUME InterceptInvariant, UNCHANGED <<req, answer>>,
         TypeOK', RunInvariant', ~req.title => exec'.step = "none",
         exec.promise # "pending" => exec'.promise = exec.promise
  PROVE  InterceptInvariant'
<1>1. CASE answer.begun
  <2>1. Due' = Due
    BY <1>1 DEF InterceptInvariant, AnswerInvariant, Due
  <2>2. AnswerInvariant'
    BY <1>1, <2>1 DEF InterceptInvariant, AnswerInvariant, Begins
  <2>3. QED BY <2>2 DEF InterceptInvariant
<1>2. CASE ~answer.begun
  <2>1. answer.wire = <<>> /\ answer.script = <<>> /\ ~answer.ended
    BY <1>2 DEF InterceptInvariant, AnswerInvariant
  <2>2. answer'.wire = <<>>
    BY <2>1
  <2>3. Begins(answer.wire)'
    BY <2>2 DEF Begins
  <2>4. AnswerInvariant'
    BY <1>2, <2>1, <2>3 DEF AnswerInvariant
  <2>5. QED BY <2>4 DEF InterceptInvariant
<1>3. QED BY <1>1, <1>2

Steps == {"none", "mkdir", "running", "reading", "unlinking", "gone"}
Children == {"none", "running", "failed", "pipeless", "blocked", "killed", "ok", "bad"}
Clocks == {"none", "armed", "fired", "cleared"}
Promises == {"pending", "resolved", "rejected"}

\* The types of a run whose step, child, timer and promise change.
LEMMA RunType ==
  ASSUME TypeOK, NEW step \in Steps, NEW child \in Children, NEW timer \in Clocks,
         NEW promise \in Promises, UNCHANGED <<req, answer>>,
         exec' = [step |-> step, child |-> child, timer |-> timer, file |-> exec.file,
                  promise |-> promise]
  PROVE  TypeOK'
<1>1. exec' \in [step : Steps, child : Children, timer : Clocks, file : {"none", "text", "blank"},
               promise : Promises]
  BY DEF TypeOK
<1>2. QED BY <1>1 DEF TypeOK, Steps, Children, Clocks, Promises

\* The parts of a run have their types.
LEMMA ExecType ==
  ASSUME TypeOK
  PROVE  /\ exec = [step |-> exec.step, child |-> exec.child, timer |-> exec.timer,
                    file |-> exec.file, promise |-> exec.promise]
         /\ exec.step \in Steps /\ exec.child \in Children /\ exec.timer \in Clocks
         /\ exec.promise \in Promises
  BY DEF TypeOK, Steps, Children, Clocks, Promises

\* A promise that is settled stands.
LEMMA SettleOnce ==
  ASSUME TypeOK, NEW value \in Promises
  PROVE  /\ Settle(value) \in Promises
         /\ Settle(value) # value => Settle(value) = exec.promise
         /\ exec.promise # "pending" => Settle(value) = exec.promise
         /\ exec.promise = "pending" => Settle(value) = value
  BY DEF TypeOK, Settle, Promises

\* What a step of the run must do.
Fine == /\ UNCHANGED <<req, answer>>
        /\ TypeOK' /\ RunInvariant'
        /\ ~req.title => exec'.step = "none"
        /\ exec.promise # "pending" => exec'.promise = exec.promise

\* The steps that settle the promise.
LEMMA SettlingSteps ==
  ASSUME TypeOK, RunInvariant, ~req.title => exec.step = "none",
         ChildError \/ ChildExit \/ FileRead
  PROVE  Fine
<1>1. CASE ChildError
  <2>1. /\ exec.step = "running" /\ UNCHANGED <<req, answer>>
        /\ exec' = [exec EXCEPT !.step = "gone", !.timer = "cleared",
                                !.promise = Settle("rejected")]
        /\ exec.child \in {"failed", "pipeless"}
    BY <1>1 DEF ChildError
  <2>2. TypeOK'
    <3>1. exec' = [step |-> "gone", child |-> exec.child, timer |-> "cleared", file |-> exec.file,
                   promise |-> Settle("rejected")]
      BY <2>1, ExecType
    <3>2. QED BY <2>1, <3>1, RunType, ExecType, SettleOnce DEF Steps, Clocks, Promises
  <2>3. exec'.step = "gone" /\ exec'.timer = "cleared" /\ exec'.promise = Settle("rejected")
        /\ exec'.child = exec.child
    BY <2>1 DEF TypeOK
  <2>4. exec'.promise # "resolved"
    BY <2>1, <2>3, SettleOnce DEF RunInvariant, Promises
  <2>5. RunInvariant'
    BY <2>3, <2>4 DEF RunInvariant
  <2>6. QED BY <2>1, <2>2, <2>3, <2>5, SettleOnce DEF Fine, Promises
<1>2. CASE ChildExit
  <2> DEFINE step == IF exec.child = "ok" THEN "reading" ELSE "unlinking"
             promise == IF exec.child = "ok" THEN exec.promise ELSE Settle("rejected")
  <2>1. /\ exec.step = "running" /\ UNCHANGED <<req, answer>>
        /\ exec' = [exec EXCEPT !.step = step, !.timer = Clear(exec.timer), !.promise = promise]
    BY <1>2 DEF ChildExit
  <2>2. step \in Steps /\ promise \in Promises /\ Clear(exec.timer) \in Clocks
    BY SettleOnce DEF TypeOK, Steps, Clocks, Promises, Clear
  <2>3. TypeOK'
    <3>1. exec' = [step |-> step, child |-> exec.child, timer |-> Clear(exec.timer),
                   file |-> exec.file, promise |-> promise]
      BY <2>1, ExecType
    <3> HIDE DEF step, promise
    <3>2. QED BY <2>1, <2>2, <3>1, RunType, ExecType
  <2>4. /\ exec'.step = step /\ exec'.timer = Clear(exec.timer) /\ exec'.promise = promise
        /\ exec'.child = exec.child
    BY <2>1 DEF TypeOK
  <2>5. exec'.promise # "resolved" /\ (exec.promise # "pending" => exec'.promise = exec.promise)
    BY <2>1, <2>4, SettleOnce DEF RunInvariant, Promises
  <2>6. exec.timer \in {"armed", "fired", "cleared"}
    BY <1>2, <2>1 DEF ChildExit, TypeOK, RunInvariant
  <2>7. RunInvariant'
    BY <2>1, <2>4, <2>5, <2>6 DEF RunInvariant, Clear
  <2>8. QED BY <2>1, <2>3, <2>4, <2>5, <2>7 DEF Fine
<1>3. CASE FileRead
  <2> DEFINE value == IF exec.file = "text" THEN "resolved" ELSE "rejected"
  <2>1. /\ exec.step = "reading" /\ UNCHANGED <<req, answer>>
        /\ exec' = [exec EXCEPT !.step = "unlinking", !.promise = Settle(value)]
    BY <1>3 DEF FileRead
  <2>2. value \in Promises /\ Settle(value) \in Promises
    BY SettleOnce DEF Promises
  <2>3. /\ exec'.step = "unlinking" /\ exec'.timer = exec.timer /\ exec'.promise = Settle(value)
        /\ exec'.child = exec.child /\ exec'.file = exec.file
    BY <2>1 DEF TypeOK
  <2>4. exec' = [step |-> "unlinking", child |-> exec.child, timer |-> exec.timer,
                 file |-> exec.file, promise |-> Settle(value)]
    BY <2>1, ExecType
  <2>5. TypeOK'
    BY <2>1, <2>2, <2>4, RunType, ExecType DEF Steps
  <2>6. exec.promise # "pending" => exec'.promise = exec.promise
    BY <2>2, <2>3, SettleOnce
  <2>7. exec'.promise = "resolved" => exec.promise = "pending" /\ value = "resolved"
    BY <2>1, <2>2, <2>3, SettleOnce DEF RunInvariant
  <2>8. RunInvariant'
    BY <2>1, <2>2, <2>3, <2>6, <2>7, SettleOnce DEF RunInvariant
  <2>9. QED BY <2>1, <2>3, <2>5, <2>6, <2>8 DEF Fine
<1>4. QED BY <1>1, <1>2, <1>3

\* The timeout, of a child that may have ended.
LEMMA TimeoutStep ==
  ASSUME TypeOK, RunInvariant, ~req.title => exec.step = "none", Timeout
  PROVE  Fine
<1> DEFINE child == IF Alive THEN "killed" ELSE exec.child
<1>1. /\ exec.timer = "armed" /\ UNCHANGED <<req, answer>>
      /\ exec' = [exec EXCEPT !.timer = "fired", !.child = child, !.promise = Settle("rejected")]
  BY DEF Timeout
<1>2. exec.promise # "resolved" /\ exec.step \notin {"none", "mkdir", "reading"}
  BY <1>1 DEF RunInvariant
<1>3. Settle("rejected") = "rejected" /\ child \in Children
  BY <1>2, ExecType DEF Settle, Promises, Children
<1>4. exec' = [step |-> exec.step, child |-> child, timer |-> "fired", file |-> exec.file,
               promise |-> "rejected"]
  BY <1>1, <1>3, ExecType
<1> HIDE DEF child
<1>5. TypeOK'
  BY <1>1, <1>3, <1>4, RunType, ExecType DEF Clocks, Promises
<1>6. RunInvariant'
  BY <1>2, <1>4 DEF RunInvariant
<1>7. exec.promise # "pending" => exec'.promise = exec.promise
  BY <1>2, <1>4, ExecType DEF Promises
<1>8. (~req.title => exec'.step = "none")
  BY <1>4
<1>9. QED BY <1>1, <1>5, <1>6, <1>7, <1>8 DEF Fine

\* The others.
LEMMA OtherSteps ==
  ASSUME TypeOK, RunInvariant, ~req.title => exec.step = "none",
         \/ Intercepted \/ MkdirFails
         \/ \E child \in {"running", "failed", "pipeless"} : Spawn(child)
         \/ \E text \in {"text", "blank"} : ChildWritesFile(text)
         \/ ChildBlocks
         \/ \E code \in {"ok", "bad"} : ChildDies(code)
         \/ Timeout \/ Unlinked
  PROVE  Fine
<1> USE DEF Fine, TypeOK, RunInvariant
<1>1. CASE Intercepted
  BY <1>1 DEF Intercepted
<1>2. CASE MkdirFails
  BY <1>2 DEF MkdirFails
<1>3. ASSUME NEW child \in {"running", "failed", "pipeless"}, Spawn(child) PROVE Fine
  BY <1>3 DEF Spawn
<1>4. ASSUME NEW text \in {"text", "blank"}, ChildWritesFile(text) PROVE Fine
  BY <1>4 DEF ChildWritesFile
<1>5. CASE ChildBlocks
  BY <1>5 DEF ChildBlocks
<1>6. ASSUME NEW code \in {"ok", "bad"}, ChildDies(code) PROVE Fine
  BY <1>6 DEF ChildDies
<1>7. CASE Timeout
  BY <1>7, TimeoutStep
<1>8. CASE Unlinked
  BY <1>8 DEF Unlinked
<1> QED BY <1>1, <1>2, <1>3, <1>4, <1>5, <1>6, <1>7, <1>8

\* Every step of the run keeps the invariant.
LEMMA RunSteps ==
  ASSUME InterceptInvariant,
         \/ Intercepted \/ MkdirFails
         \/ \E child \in {"running", "failed", "pipeless"} : Spawn(child)
         \/ ChildError
         \/ \E text \in {"text", "blank"} : ChildWritesFile(text)
         \/ ChildBlocks
         \/ \E code \in {"ok", "bad"} : ChildDies(code)
         \/ Timeout \/ ChildExit \/ FileRead \/ Unlinked
  PROVE  InterceptInvariant'
<1>1. TypeOK /\ RunInvariant /\ (~req.title => exec.step = "none")
  BY DEF InterceptInvariant, AnswerInvariant
<1>2. Fine
  BY <1>1, SettlingSteps, OtherSteps
<1>3. QED BY <1>2, RunStep DEF Fine

-----------------------------------------------------------------------------
(* The answer.                                                              *)

\* A step of the answer leaves the run as it is; what it makes of the answer.
LEMMA AnswerStep ==
  ASSUME InterceptInvariant, UNCHANGED <<req, exec>>,
         NEW begun \in BOOLEAN, NEW script \in Seq(Words), NEW waiting \in BOOLEAN,
         NEW wire \in Seq(Words), NEW ended \in BOOLEAN, NEW conn \in {"open", "gone"},
         answer' = [begun |-> begun, script |-> script, waiting |-> waiting, wire |-> wire,
                    ended |-> ended, conn |-> conn],
         ~begun => script = <<>> /\ wire = <<>> /\ ~ended, ended => script = <<>>,
         begun /\ req.title => exec.promise # "pending",
         Begins(wire), begun /\ conn = "open" => wire \o script = Due
  PROVE  InterceptInvariant'
<1>1. TypeOK'
  BY DEF InterceptInvariant, TypeOK
<1>2. RunInvariant'
  BY DEF InterceptInvariant, RunInvariant
<1>3. Due' = Due
  BY DEF Due
<1>4. AnswerInvariant'
  BY <1>3 DEF InterceptInvariant, AnswerInvariant, Begins
<1>5. QED BY <1>1, <1>2, <1>4 DEF InterceptInvariant

\* The parts of an answer, and what is known of them.
LEMMA AnswerType ==
  ASSUME InterceptInvariant
  PROVE  /\ answer = [begun |-> answer.begun, script |-> answer.script, waiting |-> answer.waiting,
                      wire |-> answer.wire, ended |-> answer.ended, conn |-> answer.conn]
         /\ answer.begun \in BOOLEAN /\ answer.script \in Seq(Words)
         /\ answer.waiting \in BOOLEAN /\ answer.wire \in Seq(Words)
         /\ answer.ended \in BOOLEAN /\ answer.conn \in {"open", "gone"}
         /\ req.title \in BOOLEAN /\ req.stream \in BOOLEAN
         /\ exec.promise \in Promises
         /\ ~answer.begun => answer.script = <<>> /\ answer.wire = <<>> /\ ~answer.ended
         /\ answer.ended => answer.script = <<>>
         /\ answer.begun /\ req.title => exec.promise # "pending"
         /\ Begins(answer.wire)
         /\ answer.begun /\ answer.conn = "open" => answer.wire \o answer.script = Due
  BY DEF InterceptInvariant, TypeOK, AnswerInvariant, Promises

\* The answers, and where each is due.
LEMMA Bodies ==
  /\ ChatChunks \in Seq(Words) /\ CompletedEvents \in Seq(Words) /\ FailedEvents \in Seq(Words)
  /\ <<"next">> \in Seq(Words) /\ <<"200">> \in Seq(Words) /\ <<"502">> \in Seq(Words)
  BY DEF Words, ChatChunks, CompletedEvents, FailedEvents

LEMMA DueType == Due \in Seq(Words)
  BY Bodies DEF Due

\* The whole answer, or none of it, is a beginning of what is due.
LEMMA WholeBegins ==
  /\ Begins(Due) /\ Begins(<<>>)
  /\ \A frames \in Seq(Words) : frames \o <<>> = frames /\ <<>> \o frames = frames
<1>1. Begins(Due) /\ Begins(<<>>)
  BY DEF Begins
<1>2. QED BY <1>1, ConcatEmptySeq

\* A request that is not a title's is handed on.
LEMMA HandOnKeeps == ASSUME InterceptInvariant, HandOn PROVE InterceptInvariant'
<1>1. answer' = [begun |-> TRUE, script |-> <<>>, waiting |-> answer.waiting,
                 wire |-> <<"next">>, ended |-> TRUE, conn |-> answer.conn]
  BY AnswerType DEF HandOn
<1>2. ~req.title /\ ~answer.begun /\ UNCHANGED <<req, exec>>
  BY DEF HandOn
<1>3. Due = <<"next">>
  BY <1>2 DEF Due
<1>4. /\ <<"next">> \in Seq(Words) /\ <<>> \in Seq(Words)
      /\ Begins(<<"next">>) /\ <<"next">> \o <<>> = Due
  BY <1>3, WholeBegins, DueType
<1>5. QED BY <1>1, <1>2, <1>4, AnswerType, AnswerStep

\* The chat route answers at once.
LEMMA AnswerChatKeeps == ASSUME InterceptInvariant, AnswerChat PROVE InterceptInvariant'
<1> DEFINE wire == IF answer.conn = "open" THEN Due ELSE answer.wire
<1>1. exec.promise \in {"resolved", "rejected"} /\ ~answer.begun /\ UNCHANGED <<req, exec>>
  BY AnswerType DEF AnswerChat, Promises
<1>2. Due = CASE exec.promise = "rejected" -> <<"502">>
              [] exec.promise = "resolved" /\ req.stream -> ChatChunks
              [] OTHER -> <<"200">>
  <2>1. req.title /\ req.route = "chat"
    BY <1>1 DEF AnswerChat, InterceptInvariant, AnswerInvariant, RunInvariant
  <2>2. QED BY <1>1, <2>1, AnswerType DEF Due
<1>3. answer' = [begun |-> TRUE, script |-> <<>>, waiting |-> answer.waiting,
                 wire |-> wire, ended |-> TRUE, conn |-> answer.conn]
  BY <1>2, AnswerType DEF AnswerChat
<1>4. /\ wire \in Seq(Words) /\ Begins(wire) /\ <<>> \in Seq(Words)
      /\ answer.conn = "open" => wire \o <<>> = Due
  BY AnswerType, WholeBegins, DueType
<1> HIDE DEF wire
<1>5. QED BY <1>1, <1>3, <1>4, AnswerType, AnswerStep

\* The Responses route answers at once, or has its events before it.
LEMMA AnswerResponsesKeeps == ASSUME InterceptInvariant, AnswerResponses PROVE InterceptInvariant'
<1>1. exec.promise \in {"resolved", "rejected"} /\ ~answer.begun /\ UNCHANGED <<req, exec>>
  BY AnswerType DEF AnswerResponses, Promises
<1>2. Due = CASE exec.promise = "rejected" -> IF req.stream THEN FailedEvents ELSE <<"502">>
              [] exec.promise = "resolved" /\ req.stream -> CompletedEvents
              [] OTHER -> <<"200">>
  <2>1. req.title /\ req.route = "responses"
    BY <1>1 DEF AnswerResponses, InterceptInvariant, AnswerInvariant, RunInvariant
  <2>2. QED BY <1>1, <2>1, AnswerType DEF Due
<1>3. CASE req.stream
  <2>1. answer' = [begun |-> TRUE, script |-> Due, waiting |-> answer.waiting,
                   wire |-> <<>>, ended |-> FALSE, conn |-> answer.conn]
    BY <1>1, <1>2, <1>3, AnswerType DEF AnswerResponses
  <2>2. <<>> \in Seq(Words) /\ Begins(<<>>) /\ <<>> \o Due = Due
    BY WholeBegins, DueType
  <2>3. QED BY <1>1, <2>1, <2>2, DueType, AnswerType, AnswerStep
<1>4. CASE ~req.stream
  <2> DEFINE wire == IF answer.conn = "gone" THEN answer.wire ELSE Due
  <2>1. answer' = [begun |-> TRUE, script |-> <<>>, waiting |-> answer.waiting,
                   wire |-> wire, ended |-> TRUE, conn |-> answer.conn]
    BY <1>1, <1>2, <1>4, AnswerType DEF AnswerResponses
  <2>2. /\ wire \in Seq(Words) /\ Begins(wire) /\ <<>> \in Seq(Words)
        /\ answer.conn = "open" => wire \o <<>> = Due
    BY AnswerType, WholeBegins, DueType
  <2> HIDE DEF wire
  <2>3. QED BY <1>1, <2>1, <2>2, AnswerType, AnswerStep
<1>5. QED BY <1>3, <1>4

\* What is told and what is left to tell stay the same when one frame moves.
LEMMA MoveFrame ==
  ASSUME NEW told \in Seq(Words), NEW left \in Seq(Words), left # <<>>
  PROVE  /\ Tail(left) \in Seq(Words) /\ Append(told, Head(left)) \in Seq(Words)
         /\ Append(told, Head(left)) \o Tail(left) = told \o left
<1>1. Head(left) \in Words /\ Tail(left) \in Seq(Words)
  BY HeadTailProperties
<1>2. Append(told, Head(left)) \in Seq(Words)
  BY <1>1, AppendProperties
<1> DEFINE one == Append(told, Head(left)) \o Tail(left)
           two == told \o left
<1>3. one \in Seq(Words) /\ two \in Seq(Words)
  BY <1>1, <1>2, ConcatProperties
<1>4. Len(one) = Len(two)
  BY <1>1, <1>2, ConcatProperties
<1>5. ASSUME NEW i \in 1..Len(one) PROVE one[i] = two[i]
  BY <1>1, <1>2, <1>5
<1> HIDE DEF one, two
<1>6. one = two
  BY <1>3, <1>4, <1>5, SeqEqual
<1>7. QED BY <1>1, <1>2, <1>6 DEF one, two

\* A front of the answer is a beginning of it.
LEMMA FrontBegins ==
  ASSUME NEW told \in Seq(Words), NEW left \in Seq(Words), told \o left = Due
  PROVE  Begins(told)
BY DEF Begins

\* An event is written, or lost with the client.
LEMMA WriteEventKeeps ==
  ASSUME InterceptInvariant, NEW full \in BOOLEAN, WriteEvent(full)
  PROVE  InterceptInvariant'
<1> DEFINE script == Tail(answer.script)
           waiting == full \/ answer.conn = "gone"
           wire == IF answer.conn = "open" THEN Append(answer.wire, Head(answer.script))
                   ELSE answer.wire
<1>1. /\ answer' = [begun |-> answer.begun, script |-> script, waiting |-> waiting,
                    wire |-> wire, ended |-> answer.ended, conn |-> answer.conn]
      /\ answer.script # <<>> /\ UNCHANGED <<req, exec>>
  BY AnswerType DEF WriteEvent
<1>2. /\ answer.begun /\ ~answer.ended
      /\ answer.script \in Seq(Words) /\ answer.wire \in Seq(Words)
  BY <1>1, AnswerType
<1>3. script \in Seq(Words) /\ wire \in Seq(Words) /\ waiting \in BOOLEAN
  BY <1>1, <1>2, MoveFrame
<1>4. answer.conn = "open" => wire \o script = Due
  BY <1>1, <1>2, MoveFrame, AnswerType
<1>5. Begins(wire)
  <2>1. CASE answer.conn = "open"
    BY <1>3, <1>4, <2>1, FrontBegins
  <2>2. CASE answer.conn # "open"
    BY <2>2, AnswerType
  <2>3. QED BY <2>1, <2>2
<1> HIDE DEF script, waiting, wire
<1>6. QED BY <1>1, <1>2, <1>3, <1>4, <1>5, AnswerType, AnswerStep

\* The drain, the end and the client's leaving tell nothing.
LEMMA QuietKeeps ==
  ASSUME InterceptInvariant, Drain \/ EndStream \/ Disconnect
  PROVE  InterceptInvariant'
<1> DEFINE Stands(waiting, ended, conn) ==
             answer' = [begun |-> answer.begun, script |-> answer.script, waiting |-> waiting,
                        wire |-> answer.wire, ended |-> ended, conn |-> conn]
<1>1. UNCHANGED <<req, exec>>
  BY DEF Drain, EndStream, Disconnect
<1>2. CASE Drain
  <2>1. Stands(FALSE, answer.ended, answer.conn)
    BY <1>2, AnswerType DEF Drain
  <2>2. QED BY <1>1, <2>1, AnswerType, AnswerStep
<1>3. CASE EndStream
  <2>1. Stands(answer.waiting, TRUE, answer.conn) /\ answer.begun /\ answer.script = <<>>
    BY <1>3, AnswerType DEF EndStream
  <2>2. QED BY <1>1, <2>1, AnswerType, AnswerStep
<1>4. CASE Disconnect
  <2>1. Stands(answer.waiting, answer.ended, "gone")
    BY <1>4, AnswerType DEF Disconnect
  <2>2. QED BY <1>1, <2>1, AnswerType, AnswerStep
<1>5. QED BY <1>2, <1>3, <1>4

-----------------------------------------------------------------------------
(* The theorems.                                                            *)

\* Run and answer agree in every state.
THEOREM InterceptsAgree == Spec => []InterceptInvariant
<1>1. InterceptInvariant /\ [Next]_vars => InterceptInvariant'
  <2> SUFFICES ASSUME InterceptInvariant, [Next]_vars PROVE InterceptInvariant'
    OBVIOUS
  <2>1. CASE UNCHANGED vars
    BY <2>1 DEF vars, InterceptInvariant, TypeOK, RunInvariant, AnswerInvariant, Begins, Due
  <2>2. CASE Next
    BY <2>2, RunSteps, HandOnKeeps, AnswerChatKeeps, AnswerResponsesKeeps, WriteEventKeeps,
       QuietKeeps DEF Next
  <2>3. QED BY <2>1, <2>2
<1>2. QED BY <1>1, InitInvariant, PTL DEF Spec

\* Request, run and answer keep their types.
THEOREM TypeCorrect == Spec => []TypeOK
<1>1. InterceptInvariant => TypeOK
  BY DEF InterceptInvariant
<1>2. QED BY <1>1, InterceptsAgree, PTL

\* A client is given the answer that its route, its streaming and the run's
\* outcome ask for, in order and to its end when it stays; a title only for a
\* child that ended well in time and left a text.
THEOREM AnswersFit == Spec => []AnswerFits
<1>1. InterceptInvariant => AnswerFits
  <2> SUFFICES ASSUME InterceptInvariant PROVE AnswerFits
    OBVIOUS
  <2>1. \A i \in DOMAIN answer.wire : i \in DOMAIN Due /\ answer.wire[i] = Due[i]
    BY AnswerType DEF Begins
  <2>2. ASSUME answer.ended, answer.conn = "open" PROVE answer.wire = Due
    <3>1. answer.script = <<>> /\ answer.wire \o answer.script = Due
      BY <2>2, AnswerType
    <3>2. QED BY <3>1, AnswerType, WholeBegins
  <2>3. ASSUME Told(Wins)
        PROVE  /\ exec.child = "ok" /\ exec.timer = "cleared"
               /\ exec.step = "unlinking" => exec.file = "text"
    <3>1. PICK i \in DOMAIN Due : Due[i] \in Wins
      BY <2>1, <2>3 DEF Told
    <3>2. exec.promise = "resolved"
      BY <3>1, AnswerType DEF Due, Wins, FailedEvents, Promises
    <3>3. QED BY <3>2 DEF InterceptInvariant, RunInvariant
  <2>4. QED BY <2>1, <2>2, <2>3 DEF AnswerFits
<1>2. QED BY <1>1, InterceptsAgree, PTL
=============================================================================
