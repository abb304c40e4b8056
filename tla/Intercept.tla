------------------------------- MODULE Intercept -------------------------------
(***************************************************************************)
(* A request for a conversation's title, which does not go to the worker:  *)
(* the route runs `codex exec` for it, whose last message comes back in a  *)
(* file, and answers itself.                                               *)
(*                                                                         *)
(*   src/src/services/codex-exec.js      the run                           *)
(*   src/src/services/codex-runner.js    the child process                 *)
(*   src/src/lib/title-intercept.js      the answer, /v1/chat/completions  *)
(*   src/src/handlers/responses/title-summary-intercept.js                 *)
(*                                       the answer, /v1/responses         *)
(*                                                                         *)
(* The child, its timer, the file and the client each go their own way.    *)
(***************************************************************************)
EXTENDS Sequences, SequencesExt

VARIABLES
  req,    \* the request
  exec,   \* runCodexExec, and its child
  answer  \* the handler, and the way to the client

vars == <<req, exec, answer>>

Init ==
  /\ req \in [route : {"chat", "responses"}, stream : BOOLEAN, title : BOOLEAN]
  /\ exec = [step |-> "none",       \* what runCodexExec awaits
             child |-> "none",      \* the process, and then its exit code
             timer |-> "none",      \* timeoutHandle
             file |-> "none",       \* outputPath
             promise |-> "pending"]
  /\ answer = [begun |-> FALSE,
               script |-> <<>>,     \* the writes the handler has before it
               waiting |-> FALSE,   \* write() refused, drain is awaited
               wire |-> <<>>,       \* what the client gets
               ended |-> FALSE, conn |-> "open"]

\* What a client can be told.
Words == {"next", "200", "502", "role", "content", "stop", "DONE", "created", "text",
          "textDone", "completed", "failed", "done"}

\* The parts of a run and of its answer keep their types.
TypeOK ==
  /\ req \in [route : {"chat", "responses"}, stream : BOOLEAN, title : BOOLEAN]
  /\ exec \in [step : {"none", "mkdir", "running", "reading", "unlinking", "gone"},
              child : {"none", "running", "failed", "pipeless", "blocked", "killed", "ok", "bad"},
              timer : {"none", "armed", "fired", "cleared"},
              file : {"none", "text", "blank"},
              promise : {"pending", "resolved", "rejected"}]
  /\ answer \in [begun : BOOLEAN, script : Seq(Words), waiting : BOOLEAN,
                wire : Seq(Words), ended : BOOLEAN, conn : {"open", "gone"}]

\* A promise is settled once.
Settle(value) == IF exec.promise = "pending" THEN value ELSE exec.promise

-----------------------------------------------------------------------------
(* runCodexExec.                                                            *)

\* Neither title nor summary: the route goes on to the readiness gate.
HandOn ==
  /\ ~req.title /\ ~answer.begun
  /\ answer' = [answer EXCEPT !.begun = TRUE, !.wire = <<"next">>, !.ended = TRUE]
  /\ UNCHANGED <<req, exec>>

Intercepted ==
  /\ req.title /\ exec.step = "none"
  /\ exec' = [exec EXCEPT !.step = "mkdir"]
  /\ UNCHANGED <<req, answer>>

MkdirFails ==
  /\ exec.step = "mkdir"
  /\ exec' = [exec EXCEPT !.step = "gone", !.promise = "rejected"]
  /\ UNCHANGED <<req, answer>>

\* The child starts or does not; without pipes the write of the prompt throws.
Spawn(child) ==
  /\ exec.step = "mkdir"
  /\ exec' = [exec EXCEPT !.step = "running", !.child = child,
                          !.timer = IF child = "pipeless" THEN "cleared" ELSE "armed",
                          !.promise = IF child = "pipeless" THEN "rejected" ELSE @]
  /\ UNCHANGED <<req, answer>>

\* A child that did not start has no exit.
ChildError ==
  /\ exec.step = "running" /\ exec.child \in {"failed", "pipeless"}
  /\ exec' = [exec EXCEPT !.step = "gone", !.timer = "cleared",
                          !.promise = Settle("rejected")]
  /\ UNCHANGED <<req, answer>>

ChildWritesFile(text) ==
  /\ exec.child = "running" /\ exec.file = "none"
  /\ exec' = [exec EXCEPT !.file = text]
  /\ UNCHANGED <<req, answer>>

\* Nobody reads its stdout: a child that writes much waits for a reader.
ChildBlocks ==
  /\ exec.child = "running"
  /\ exec' = [exec EXCEPT !.child = "blocked"]
  /\ UNCHANGED <<req, answer>>

ChildDies(code) ==
  /\ exec.child = "running"
  /\ exec' = [exec EXCEPT !.child = code]
  /\ UNCHANGED <<req, answer>>

Alive == exec.child \in {"running", "blocked"}

\* Mutant: the child is killed, and its exit settles the promise.
TimeoutKills ==
  /\ exec.timer = "armed"
  /\ exec' = [exec EXCEPT !.timer = "fired", !.child = IF Alive THEN "killed" ELSE @]
  /\ UNCHANGED <<req, answer>>

\* The child may have ended already, and its exit not been seen.
Timeout ==
  /\ exec.timer = "armed"
  /\ exec' = [exec EXCEPT !.timer = "fired", !.child = IF Alive THEN "killed" ELSE @,
                          !.promise = Settle("rejected")]
  /\ UNCHANGED <<req, answer>>

Clear(timer) == IF timer = "armed" THEN "cleared" ELSE timer

\* Mutant: the exit of a run that has timed out is of no interest.
ChildExitOfRun ==
  /\ exec.step = "running" /\ exec.child \in {"ok", "bad", "killed"}
  /\ exec' = IF exec.promise # "pending" THEN [exec EXCEPT !.step = "gone"]
             ELSE [exec EXCEPT !.timer = Clear(@),
                          !.step = IF exec.child = "ok" THEN "reading" ELSE "unlinking",
                          !.promise = IF exec.child = "ok" THEN @ ELSE Settle("rejected")]
  /\ UNCHANGED <<req, answer>>

\* The exit handler, up to its await: of the file's text, or of its removal.
ChildExit ==
  /\ exec.step = "running" /\ exec.child \in {"ok", "bad", "killed"}
  /\ exec' = [exec EXCEPT !.timer = Clear(@),
                          !.step = IF exec.child = "ok" THEN "reading" ELSE "unlinking",
                          !.promise = IF exec.child = "ok" THEN @ ELSE Settle("rejected")]
  /\ UNCHANGED <<req, answer>>

\* No file, or a blank one, is a failure.
FileRead ==
  /\ exec.step = "reading"
  /\ exec' = [exec EXCEPT !.step = "unlinking",
                          !.promise = Settle(IF exec.file = "text" THEN "resolved"
                                             ELSE "rejected")]
  /\ UNCHANGED <<req, answer>>

Unlinked ==
  /\ exec.step = "unlinking"
  /\ exec' = [exec EXCEPT !.step = "gone", !.file = "none"]
  /\ UNCHANGED <<req, answer>>

-----------------------------------------------------------------------------
(* The answer.                                                              *)

ChatChunks == <<"role", "content", "stop", "DONE">>
CompletedEvents == <<"created", "text", "textDone", "completed", "done">>
FailedEvents == <<"created", "failed", "done">>

\* maybeHandleTitleIntercept goes on: the answer is written at once; a failure
\* is a JSON answer to a stream too.
AnswerChat ==
  LET body == CASE exec.promise = "rejected" -> <<"502">>
                [] exec.promise = "resolved" /\ req.stream -> ChatChunks
                [] OTHER -> <<"200">>
  IN /\ req.route = "chat" /\ exec.promise # "pending" /\ ~answer.begun
     /\ answer' = [answer EXCEPT !.begun = TRUE, !.ended = TRUE,
                                 !.wire = IF answer.conn = "open" THEN body ELSE @]
     /\ UNCHANGED <<req, exec>>

\* maybeHandleTitleSummaryIntercept goes on: a stream is written event by event.
AnswerResponses ==
  LET won == exec.promise = "resolved"
  IN /\ req.route = "responses" /\ exec.promise # "pending" /\ ~answer.begun
     /\ answer' =
          IF req.stream
          THEN [answer EXCEPT !.begun = TRUE,
                              !.script = IF won THEN CompletedEvents ELSE FailedEvents]
          ELSE [answer EXCEPT !.begun = TRUE, !.ended = TRUE,
                              !.wire = IF answer.conn = "gone" THEN @
                                       ELSE IF won THEN <<"200">> ELSE <<"502">>]
     /\ UNCHANGED <<req, exec>>

\* writeSseChunk: a full socket is waited for, one that is gone for ever.
WriteEvent(full) ==
  /\ answer.script # <<>> /\ ~answer.waiting
  /\ answer' = [answer EXCEPT
       !.script = Tail(@),
       !.waiting = full \/ answer.conn = "gone",
       !.wire = IF answer.conn = "open" THEN Append(@, Head(answer.script)) ELSE @]
  /\ UNCHANGED <<req, exec>>

Drain ==
  /\ answer.waiting /\ answer.conn = "open"
  /\ answer' = [answer EXCEPT !.waiting = FALSE]
  /\ UNCHANGED <<req, exec>>

EndStream ==
  /\ answer.begun /\ ~answer.ended /\ answer.script = <<>> /\ ~answer.waiting
  /\ answer' = [answer EXCEPT !.ended = TRUE]
  /\ UNCHANGED <<req, exec>>

\* The client goes; nothing listens for it, the run goes on.
Disconnect ==
  /\ answer.conn = "open" /\ ~answer.ended
  /\ answer' = [answer EXCEPT !.conn = "gone"]
  /\ UNCHANGED <<req, exec>>

Next ==
  \/ HandOn \/ Intercepted \/ MkdirFails
  \/ \E child \in {"running", "failed", "pipeless"} : Spawn(child)
  \/ ChildError
  \/ \E text \in {"text", "blank"} : ChildWritesFile(text)
  \/ ChildBlocks
  \/ \E code \in {"ok", "bad"} : ChildDies(code)
  \/ Timeout \/ ChildExit \/ FileRead \/ Unlinked
  \/ AnswerChat \/ AnswerResponses
  \/ \E full \in BOOLEAN : WriteEvent(full)
  \/ Drain \/ EndStream \/ Disconnect

Spec == Init /\ [][Next]_vars

\* Promises and timers go on and the client reads; a child need never end.
FairSpec ==
  /\ Spec
  /\ WF_vars(HandOn) /\ WF_vars(Intercepted)
  /\ WF_vars(MkdirFails \/ \E child \in {"running", "failed", "pipeless"} : Spawn(child))
  /\ WF_vars(ChildError) /\ WF_vars(Timeout) /\ WF_vars(ChildExit)
  /\ WF_vars(FileRead) /\ WF_vars(Unlinked)
  /\ WF_vars(AnswerChat) /\ WF_vars(AnswerResponses)
  /\ WF_vars(\E full \in BOOLEAN : WriteEvent(full))
  /\ WF_vars(Drain) /\ WF_vars(EndStream)

-----------------------------------------------------------------------------

\* The whole answer that route, streaming and outcome ask for.
Due ==
  CASE ~req.title -> <<"next">>
    [] req.title /\ exec.promise = "pending" -> <<>>
    [] req.title /\ exec.promise = "rejected" ->
         IF req.route = "responses" /\ req.stream THEN FailedEvents ELSE <<"502">>
    [] OTHER -> CASE ~req.stream -> <<"200">>
                  [] req.stream /\ req.route = "chat" -> ChatChunks
                  [] OTHER -> CompletedEvents

Wins == {"200", "content", "completed"}
Told(events) == \E i \in DOMAIN answer.wire : answer.wire[i] \in events

\* The client is given a beginning of the one answer that its route, its
\* streaming and the run's outcome ask for, and all of it when it stays: nothing
\* while the run is open, never a title and a failure, JSON or events as asked
\* (a failure on the chat route is JSON to a stream, too).  And it is told of a
\* title only when the child ended well before its timer fired and left a text,
\* although exit, timer and file race with each other.
AnswerFits ==
  /\ \A i \in DOMAIN answer.wire : i \in DOMAIN Due /\ answer.wire[i] = Due[i]
  /\ answer.ended /\ answer.conn = "open" => answer.wire = Due
  /\ Told(Wins) => /\ exec.child = "ok" /\ exec.timer = "cleared"
                   /\ exec.step = "unlinking" => exec.file = "text"

\* Every intercepted request ends, and leaves neither process nor file behind:
\* with a child that hangs on its unread output, with an exit behind the timeout
\* and with a client that has gone.
NothingLeftBehind ==
  <>[] /\ answer.ended \/ answer.conn = "gone"
       /\ req.title => exec.step = "gone" /\ exec.file = "none" /\ ~Alive
=============================================================================
