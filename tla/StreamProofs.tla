---------------------------- MODULE StreamProofs -----------------------------
(***************************************************************************)
(* Proofs about StreamSession, for any finite set of streams, any limit and*)
(* any bounds: the semaphore counts its holders, with                      *)
(* PROXY_KILL_ON_DISCONNECT it bounds the requests on the backend, and seen*)
(* from the semaphore the streams behave as RequestService allows; then    *)
(* what the clients are told: one beginning, one end, tool calls that end  *)
(* well.                                                                   *)
(*                                                                         *)
(* The handlers are composed of one another, so each is summarised once by *)
(* what it may do to the stage, the token, the adapter and the outcome of a*)
(* stream; the actions are then proved from these summaries.               *)
(***************************************************************************)
EXTENDS StreamSession, FiniteSetTheorems, SequenceTheorems, TLAPS

\* The fields the invariant is about; a handler leaves the domain as it is.
Has(x) == {"stage", "token", "adapter", "finalized", "outcome"} \subseteq DOMAIN x

Running(x) == x.adapter \in {"setup", "held"}

\* What is finished has an outcome.
Settled(x) == x.token = "released" \/ x.finalized => x.outcome # "none"

\* Neither token nor adapter moves, and what was recorded stays.
Quiet(x, y) == /\ DOMAIN y = DOMAIN x
               /\ y.stage = x.stage
               /\ y.token = x.token
               /\ y.adapter = x.adapter
               /\ y.finalized = x.finalized
               /\ y.outcome = x.outcome

\* In the middle of a handler: the token may come back, the adapter may be
\* closed, and an outcome that is there stays.
Passing(x, y) == /\ DOMAIN y = DOMAIN x
                 /\ y.stage = x.stage \/ (x.stage = "new" /\ y.stage = "refused")
                 /\ y.token = x.token \/ (x.token = "held" /\ y.token = "released")
                 /\ Running(y) => Running(x)
                 /\ x.outcome = "none" \/ y.outcome = x.outcome

\* At the end of a handler what it finished has its outcome.
Moved(x, y) == Passing(x, y) /\ (Settled(x) => Settled(y))

\* What an action does to a stream: the token does not come back while the
\* adapter runs, if disconnects kill.
Stepped(x, y) == /\ Moved(x, y)
                 /\ KillOnDisconnect /\ Running(y) => y.token = x.token

-----------------------------------------------------------------------------
(* The parts of the handlers.                                               *)

\* Quiet steps compose.
LEMMA QuietTransitive ==
  ASSUME NEW x, NEW y, NEW z, Quiet(x, y), Quiet(y, z)
  PROVE  Quiet(x, z)
  BY DEF Quiet

\* Writing a frame moves neither token nor adapter, and so with all that follows.
LEMMA WriteQuiet == ASSUME NEW x, NEW f, Has(x) PROVE Quiet(x, Write(x, f))
<1>1. CASE x.conn \in {"ended", "gone"}
  BY <1>1 DEF Quiet, Write
<1>2. CASE x.conn \notin {"ended", "gone"} /\ x.conn \in {"open", "ending"} /\ x.flushing
  <2>1. Write(x, f) = [x EXCEPT !.queue = Append(@, f)]
    BY <1>2 DEF Write
  <2>2. QED BY <2>1 DEF Quiet, Has
<1>3. CASE x.conn \notin {"ended", "gone"} /\ ~(x.conn \in {"open", "ending"} /\ x.flushing)
  <2>1. Write(x, f) = [x EXCEPT !.wire = Append(@, f), !.flushing = x.full,
                                !.conn = IF f = "done" /\ ~x.full THEN "ending" ELSE @]
    BY <1>3 DEF Write
  <2>2. QED BY <2>1 DEF Quiet, Has
<1>4. QED BY <1>1, <1>2, <1>3

\* sendSSE and sendComment.
LEMMA SendQuiet == ASSUME NEW x, NEW f, Has(x) PROVE Quiet(x, Send(x, f))
  BY WriteQuiet DEF Send, Quiet

\* trackFinishReason.
LEMMA TrackQuiet ==
  ASSUME NEW x, NEW reason, NEW rank, Has(x) PROVE Quiet(x, Track(x, reason, rank))
  BY DEF Track, Quiet, Has

\* recordStreamOutcome: then there is one.
LEMMA RecordMoves ==
  ASSUME NEW x, NEW o, Has(x), o # "none"
  PROVE  /\ Moved(x, Record(x, o)) /\ Settled(Record(x, o))
         /\ Record(x, o).outcome # "none"
         /\ Record(x, o).token = x.token /\ Record(x, o).adapter = x.adapter
  BY DEF Record, Moved, Passing, Settled, Running, Has

\* emitFinishChunk.
LEMMA EmitFinishQuiet == ASSUME NEW x, Has(x) PROVE Quiet(x, EmitFinish(x))
<1> DEFINE y == [x EXCEPT !.finished = TRUE]
<1>1. Quiet(x, y) /\ Has(y)
  BY DEF Quiet, Has
<1>2. Quiet(y, Send(y, FinishOf(x)))
  BY <1>1, SendQuiet
<1>3. QED BY <1>1, <1>2 DEF EmitFinish, Quiet

\* scheduleStopAfterTools, when it arms its timer.
LEMMA ScheduleQuiet == ASSUME NEW x, Has(x) PROVE Quiet(x, Schedule(x))
  BY DEF Schedule, Quiet, Has

\* appendContentSegment.
LEMMA SendTextQuiet == ASSUME NEW x, Has(x) PROVE Quiet(x, SendText(x))
<1> DEFINE y == [x EXCEPT !.sent = TRUE]
<1>1. Quiet(x, y) /\ Has(y)
  BY DEF Quiet, Has
<1>2. Quiet(y, Send(y, "text"))
  BY <1>1, SendQuiet
<1>3. QED BY <1>1, <1>2, ScheduleQuiet DEF SendText, Quiet

\* emitToolContentChunk.
LEMMA SendToolQuiet == ASSUME NEW x, Has(x) PROVE Quiet(x, SendTool(x))
<1> DEFINE y == [x EXCEPT !.tools = TRUE, !.shown = TRUE, !.sent = TRUE]
<1>1. Quiet(x, y) /\ Has(y)
  BY DEF Quiet, Has
<1>2. Quiet(y, Send(y, "tools"))
  BY <1>1, SendQuiet
<1>3. QED BY <1>1, <1>2 DEF SendTool, Quiet

\* A structured delta.
LEMMA SendCallQuiet == ASSUME NEW x, Has(x) PROVE Quiet(x, SendCall(x))
<1> DEFINE y == [x EXCEPT !.tools = TRUE]
<1>1. Quiet(x, y) /\ Has(y)
  BY DEF Quiet, Has
<1>2. Quiet(y, Send(y, "call"))
  BY <1>1, SendQuiet
<1>3. QED BY <1>1, <1>2 DEF SendCall, Quiet

\* The flush of what was held back.
LEMMA FlushQuiet == ASSUME NEW x, Has(x) PROVE Quiet(x, Flush(x))
<1> DEFINE y == [x EXCEPT !.residue = "none"]
<1>1. Quiet(x, y) /\ Has(y)
  BY DEF Quiet, Has
<1>2. Quiet(y, SendText(y))
  BY <1>1, SendTextQuiet
<1>3. Quiet(y, SendTool(y)) /\ Has(SendTool(y))
  BY <1>1, SendToolQuiet DEF Quiet, Has
<1>4. Quiet(SendTool(y), Schedule(SendTool(y)))
  BY <1>3, ScheduleQuiet
<1>5. Flush(x) \in {SendText(y), Schedule(SendTool(y)), y}
  BY DEF Flush
<1> HIDE DEF y
<1>6. QED BY <1>1, <1>2, <1>3, <1>4, <1>5, QuietTransitive

\* cleanupStream but for the kill and the release.
LEMMA CloseQuiet == ASSUME NEW x, Has(x) PROVE Quiet(x, Close(x))
  BY DEF Close, Quiet, Has

\* The comment with the tool statistics.
LEMMA StatsQuiet == ASSUME NEW x, Has(x) PROVE Quiet(x, Stats(x))
  BY SendQuiet DEF Stats, Quiet

\* A line of the backend.
LEMMA HearQuiet == ASSUME NEW x, Has(x) PROVE Quiet(x, Hear(x))
  BY DEF Hear, Quiet, Has

\* release() gives a token back at most once.
LEMMA ReleaseMoves ==
  ASSUME NEW x, Has(x)
  PROVE  /\ Passing(x, Release(x)) /\ Release(x).adapter = x.adapter
         /\ x.outcome # "none" => Moved(x, Release(x)) /\ Settled(Release(x))
  BY DEF Release, Moved, Passing, Settled, Running, Has

\* The adapter is closed.
LEMMA ShutMoves ==
  ASSUME NEW x, Has(x)
  PROVE  Moved(x, Shut(x)) /\ ~Running(Shut(x)) /\ Shut(x).token = x.token
  BY DEF Shut, Moved, Passing, Settled, Running, Has

\* A quiet step is a move.
LEMMA QuietMoves == ASSUME NEW x, NEW y, Quiet(x, y) PROVE Moved(x, y)
  BY DEF Quiet, Moved, Passing, Settled, Running

\* The fields stay.
LEMMA QuietHas == ASSUME NEW x, NEW y, Has(x), Quiet(x, y) PROVE Has(y)
  BY DEF Quiet, Has

\* The fields stay.
LEMMA MovedHas == ASSUME NEW x, NEW y, Has(x), Passing(x, y) \/ Moved(x, y) PROVE Has(y)
  BY DEF Moved, Passing, Has

\* Moves compose.
LEMMA MovedTransitive ==
  ASSUME NEW x, NEW y, NEW z, Moved(x, y), Moved(y, z)
  PROVE  Moved(x, z)
  BY DEF Moved, Passing

\* So do parts of moves.
LEMMA PassingTransitive ==
  ASSUME NEW x, NEW y, NEW z, Passing(x, y), Passing(y, z)
  PROVE  Passing(x, z)
  BY DEF Passing

\* The outcome that is recorded at a stream's end is one.
LEMMA OutcomeIsOne == ASSUME NEW x PROVE OutcomeOf(x) # "none"
  BY DEF OutcomeOf

-----------------------------------------------------------------------------
(* The handlers.                                                            *)

\* finalizeStream leaves the adapter closed, unless it has run before.
LEMMA FinalizeMoves ==
  ASSUME NEW x, NEW reason, Has(x)
  PROVE  /\ Moved(x, Finalize(x, reason))
         /\ Finalize(x, reason) = x \/ ~Running(Finalize(x, reason))
<1>1. CASE x.finalized
  BY <1>1 DEF Finalize, Moved, Passing
<1>2. CASE ~x.finalized
  <2> DEFINE begun   == [x EXCEPT !.finalized = TRUE, !.responded = TRUE,
                                  !.armed = @ \ {"grace"}]
             flushed == Flush(begun)
             tracked == Track(flushed, reason, 2)
             told    == Stats(tracked)
             ended   == EmitFinish(told)
             counted == IF ended.wantUsage THEN Send(ended, "usage") ELSE ended
             logged  == [counted EXCEPT !.logs = Append(@, "usage")]
             recorded == Record(logged, OutcomeOf(logged))
             done    == Write(recorded, "done")
             closed  == Close(done)
             released == Release(closed)
  <2>1. Finalize(x, reason) = Shut(released)
    BY <1>2 DEF Finalize
  <2>2. Passing(x, begun) /\ Has(begun)
    BY DEF Passing, Running, Has
  <2> HIDE DEF begun
  <2>3. Quiet(begun, flushed) /\ Has(flushed)
    BY <2>2, FlushQuiet, QuietHas
  <2> HIDE DEF flushed
  <2>4. Quiet(flushed, tracked) /\ Has(tracked)
    BY <2>3, TrackQuiet, QuietHas
  <2> HIDE DEF tracked
  <2>5. Quiet(tracked, told) /\ Has(told)
    BY <2>4, StatsQuiet, QuietHas
  <2> HIDE DEF told
  <2>6. Quiet(told, ended) /\ Has(ended)
    BY <2>5, EmitFinishQuiet, QuietHas
  <2> HIDE DEF ended
  <2>7. Quiet(ended, Send(ended, "usage")) /\ Quiet(ended, ended)
    BY <2>6, SendQuiet DEF Quiet
  <2>8. Quiet(ended, counted) /\ Has(counted)
    BY <2>6, <2>7, QuietHas
  <2> HIDE DEF counted
  <2>9. Quiet(counted, logged) /\ Has(logged)
    BY <2>8 DEF Quiet, Has
  <2> HIDE DEF logged
  <2>10. Passing(x, logged)
    <3>1. Quiet(begun, logged)
      BY <2>3, <2>4, <2>5, <2>6, <2>8, <2>9, QuietTransitive
    <3>2. QED BY <2>2, <3>1, QuietMoves, PassingTransitive DEF Moved
  <2>11. Passing(logged, recorded) /\ recorded.outcome # "none" /\ Has(recorded)
    BY <2>9, RecordMoves, OutcomeIsOne, MovedHas DEF Moved
  <2> HIDE DEF recorded
  <2>12. Quiet(recorded, done) /\ Has(done)
    BY <2>11, WriteQuiet, QuietHas
  <2> HIDE DEF done
  <2>13. Quiet(done, closed) /\ Has(closed)
    BY <2>12, CloseQuiet, QuietHas
  <2> HIDE DEF closed
  <2>14. Quiet(recorded, closed) /\ closed.outcome # "none"
    BY <2>11, <2>12, <2>13 DEF Quiet
  <2>15. Passing(closed, released) /\ Settled(released) /\ Has(released)
    BY <2>13, <2>14, ReleaseMoves, MovedHas
  <2> HIDE DEF released
  <2>16. Moved(released, Shut(released)) /\ ~Running(Shut(released))
    BY <2>15, ShutMoves
  <2>17. Passing(x, closed)
    BY <2>10, <2>11, <2>14, QuietMoves, PassingTransitive DEF Moved
  <2>18. Passing(x, Shut(released)) /\ Settled(Shut(released))
    BY <2>15, <2>16, <2>17, PassingTransitive DEF Moved
  <2>19. QED BY <2>1, <2>16, <2>18 DEF Moved
<1>3. QED BY <1>1, <1>2

\* onChildError may give the token back and leave the adapter to its caller.
LEMMA ChildErrorMoves == ASSUME NEW x, Has(x) PROVE Moved(x, ChildError(x))
<1> DEFINE y      == [x EXCEPT !.armed = @ \ {"request"}]
           sent   == Send(y, "error")
           failed == [sent EXCEPT !.responded = TRUE, !.logs = Append(@, "failure")]
           done   == Write(failed, "done")
           released == Release(done)
<1>1. ChildError(x) = IF x.responded THEN x
                      ELSE IF x.tools THEN Finalize(y, "tool_calls")
                      ELSE Record(released, "error")
  BY DEF ChildError
<1>2. Quiet(x, y) /\ Has(y)
  BY DEF Quiet, Has
<1> HIDE DEF y
<1>3. Moved(x, Finalize(y, "tool_calls"))
  BY <1>2, FinalizeMoves, QuietMoves, MovedTransitive
<1>4. Quiet(y, sent) /\ Has(sent)
  BY <1>2, SendQuiet, QuietHas
<1> HIDE DEF sent
<1>5. Quiet(sent, failed) /\ Has(failed)
  BY <1>4 DEF Quiet, Has
<1> HIDE DEF failed
<1>6. Quiet(failed, done) /\ Has(done)
  BY <1>5, WriteQuiet, QuietHas
<1> HIDE DEF done
<1>7. Passing(done, released) /\ Has(released)
  BY <1>6, ReleaseMoves, MovedHas
<1> HIDE DEF released
<1>8. Passing(released, Record(released, "error")) /\ Settled(Record(released, "error"))
  BY <1>7, RecordMoves DEF Moved
<1>9. Passing(x, done)
  <2>1. Quiet(x, done)
    BY <1>2, <1>4, <1>5, <1>6, QuietTransitive
  <2>2. QED BY <2>1, QuietMoves DEF Moved
<1>10. Moved(x, Record(released, "error"))
  BY <1>7, <1>8, <1>9, PassingTransitive DEF Moved
<1>11. Moved(x, x)
  BY DEF Moved, Passing
<1>12. QED BY <1>1, <1>3, <1>10, <1>11

\* kill() leaves the adapter closed.
LEMMA KillMoves ==
  ASSUME NEW x, Has(x)
  PROVE  Moved(x, Kill(x)) /\ ~Running(Kill(x))
<1> DEFINE y == IF x.adapter = "held" THEN ChildError(x) ELSE x
<1>1. Moved(x, y) /\ Has(y)
  BY ChildErrorMoves, MovedHas DEF Moved, Passing
<1>2. Kill(x) = Shut(y)
  BY DEF Kill
<1> HIDE DEF y
<1>3. Moved(y, Shut(y)) /\ ~Running(Shut(y))
  BY <1>1, ShutMoves
<1>4. QED BY <1>1, <1>2, <1>3, MovedTransitive

\* With PROXY_KILL_ON_DISCONNECT the adapter is closed when a stream is.
LEMMA CleanupMoves ==
  ASSUME NEW x, Has(x)
  PROVE  Stepped(x, Cleanup(x))
<1> DEFINE c == Close(x)
           y == IF KillOnDisconnect THEN Kill(c) ELSE c
           z == IF y.finalized THEN y ELSE Record(y, "client_abort")
<1>1. Cleanup(x) = IF x.closed THEN x ELSE Release(z)
  BY DEF Cleanup
<1>2. Quiet(x, c) /\ Has(c)
  BY CloseQuiet, QuietHas
<1> HIDE DEF c
<1>3. Moved(c, y) /\ Has(y) /\ (KillOnDisconnect => ~Running(y))
  BY <1>2, KillMoves, MovedHas DEF Moved, Passing
<1> HIDE DEF y
<1>4. Moved(x, y)
  BY <1>2, <1>3, QuietMoves, MovedTransitive
<1>5. Moved(y, z) /\ Has(z) /\ z.adapter = y.adapter
  <2>1. CASE y.finalized
    BY <1>3, <2>1 DEF Moved, Passing
  <2>2. CASE ~y.finalized
    BY <1>3, <2>2, RecordMoves, MovedHas
  <2>3. QED BY <2>1, <2>2
<1>6. Settled(x) => z.outcome # "none"
  <2>1. CASE y.finalized
    BY <1>4, <2>1 DEF Moved, Settled
  <2>2. CASE ~y.finalized
    BY <1>3, <2>2, RecordMoves
  <2>3. QED BY <2>1, <2>2
<1> HIDE DEF z
<1>7. /\ Passing(z, Release(z)) /\ Release(z).adapter = z.adapter
      /\ z.outcome # "none" => Settled(Release(z))
  BY <1>5, ReleaseMoves
<1>8. Passing(x, Release(z))
  BY <1>4, <1>5, <1>7, PassingTransitive DEF Moved
<1>9. Moved(x, Release(z))
  BY <1>6, <1>7, <1>8 DEF Moved
<1>10. KillOnDisconnect => ~Running(Release(z))
  BY <1>3, <1>5, <1>7 DEF Running
<1>11. QED BY <1>1, <1>9, <1>10 DEF Stepped, Moved, Passing

\* The cut leaves the adapter closed, unless it has been made before.
LEMMA CutMoves == ASSUME NEW x, Has(x) PROVE Stepped(x, Cut(x))
<1> DEFINE c == [x EXCEPT !.stopped = TRUE, !.armed = @ \ {"grace", "keepalive"}]
           y == Kill(c)
           z == IF y.finalized THEN y ELSE Track(y, "length", 0)
<1>1. Cut(x) = IF x.stopped THEN x ELSE z
  BY DEF Cut
<1>2. Quiet(x, c) /\ Has(c)
  BY DEF Quiet, Has
<1> HIDE DEF c
<1>3. Moved(c, y) /\ Has(y) /\ ~Running(y)
  BY <1>2, KillMoves, MovedHas
<1> HIDE DEF y
<1>4. Quiet(y, z)
  BY <1>3, TrackQuiet DEF Quiet
<1> HIDE DEF z
<1>5. Moved(x, z) /\ ~Running(z)
  BY <1>2, <1>3, <1>4, QuietMoves, MovedTransitive DEF Quiet, Running
<1>6. QED BY <1>1, <1>5 DEF Stepped, Moved, Passing

-----------------------------------------------------------------------------
(* The actions.                                                             *)

\* One stream takes a step; the count follows its token.
StreamStep(s) ==
  \E y : /\ Stepped(stream[s], y)
         /\ stream' = [stream EXCEPT ![s] = y]
         /\ count' = GiveBack(s, y)

\* What the invariant says of one stream.
Disciplined(x) ==
  /\ Has(x)
  /\ x.stage = "new" => x.token # "held" /\ ~Running(x)
  /\ KillOnDisconnect /\ MaxConc > 0 /\ Running(x) => x.token = "held"
  /\ Settled(x)

\* Every stream keeps the discipline of its token, and the semaphore is exact.
Inductive ==
  /\ DOMAIN stream = Streams /\ stream = [s \in Streams |-> stream[s]]
  /\ \A s \in Streams : Disciplined(stream[s])
  /\ count \in Nat
  /\ GuardCounts

\* A quiet step is a step.
LEMMA QuietSteps == ASSUME NEW x, NEW y, Quiet(x, y) PROVE Stepped(x, y)
  BY DEF Quiet, Stepped, Moved, Passing, Settled, Running

\* A move that leaves the adapter closed is a step.
LEMMA ClosedSteps ==
  ASSUME NEW x, NEW y, Moved(x, y), ~Running(y)
  PROVE  Stepped(x, y)
  BY DEF Stepped

\* A step may begin quietly.
LEMMA SteppedAfterQuiet ==
  ASSUME NEW x, NEW y, NEW z, Quiet(x, y), Stepped(y, z)
  PROVE  Stepped(x, z)
  BY DEF Quiet, Stepped, Moved, Passing, Settled, Running

\* The promise jobs after a handler leave token and adapter alone.
LEMMA RunSteps ==
  ASSUME NEW s \in Streams, NEW y, Has(stream[s]), Stepped(stream[s], y), Run(s, y)
  PROVE  StreamStep(s)
<1>1. Has(y)
  BY MovedHas DEF Stepped
<1>2. Quiet(y, EndOfTask(y))
  BY <1>1 DEF EndOfTask, Quiet, Has
<1>3. Stepped(stream[s], EndOfTask(y))
  BY <1>2 DEF Quiet, Stepped, Moved, Passing, Settled, Running
<1>4. GiveBack(s, EndOfTask(y)) = GiveBack(s, y)
  BY <1>2 DEF GiveBack, Quiet
<1>5. QED BY <1>3, <1>4 DEF Run, StreamStep

\* A handler that leaves the token alone leaves the count alone.
LEMMA SilentSteps ==
  ASSUME NEW s \in Streams, NEW y, Quiet(stream[s], y) \/ (Moved(stream[s], y) /\ y.token = stream[s].token),
         stream' = [stream EXCEPT ![s] = y], count' = count
  PROVE  StreamStep(s)
<1>1. Stepped(stream[s], y) /\ y.token = stream[s].token
  BY DEF Quiet, Stepped, Moved, Passing, Settled, Running
<1>2. GiveBack(s, y) = count
  BY <1>1 DEF GiveBack
<1>3. QED BY <1>1, <1>2 DEF StreamStep

\* A line of the backend is a step of its stream.
LEMMA BackendLineSteps ==
  ASSUME NEW s \in Streams, Has(stream[s]), BackendLine(s)
  PROVE  StreamStep(s)
<1> DEFINE h == Hear(stream[s])
<1>1. Quiet(stream[s], h) /\ Has(h)
  BY HearQuiet, QuietHas
<1>2. CASE Text(s)
  <2> DEFINE f == Flush(h)
             t == SendText(f)
  <2>1. Quiet(h, f) /\ Has(f)
    BY <1>1, FlushQuiet, QuietHas
  <2>2. Quiet(f, t) /\ Has(t)
    BY <2>1, SendTextQuiet, QuietHas
  <2>3. Quiet(t, Schedule(t))
    BY <2>2, ScheduleQuiet
  <2>4. Run(s, Schedule(t))
    BY <1>2 DEF Text
  <2> HIDE DEF h, f, t
  <2>5. Stepped(stream[s], Schedule(t))
    BY <1>1, <2>1, <2>2, <2>3, QuietTransitive, QuietSteps
  <2>6. QED BY <2>4, <2>5, RunSteps
<1>3. CASE \E what \in {"text", "tool"} : Hold(s, what)
  <2>1. PICK what : Hold(s, what)
    BY <1>3
  <2> DEFINE y == [h EXCEPT !.residue = what]
  <2>2. Quiet(h, y)
    BY <1>1 DEF Quiet, Has
  <2>3. Run(s, y)
    BY <2>1 DEF Hold
  <2> HIDE DEF h, y
  <2>4. QED BY <1>1, <2>2, <2>3, QuietTransitive, QuietSteps, RunSteps
<1>4. CASE \E tail \in BOOLEAN, now \in BOOLEAN : Tool(s, tail, now)
  <2>1. PICK tail \in BOOLEAN, now \in BOOLEAN : Tool(s, tail, now)
    BY <1>4
  <2> DEFINE Choices == IF h.residue = "tool" THEN {[h EXCEPT !.residue = "none"]}
                        ELSE {Flush(h), h}
             Tailed(r) == IF tail THEN Send(SendTool(r), "text") ELSE SendTool(r)
  <2>1a. PICK ready \in Choices : Run(s, IF now THEN Cut(Tailed(ready)) ELSE Schedule(Tailed(ready)))
    BY <2>1 DEF Tool
  <2> DEFINE sent  == SendTool(ready)
             told  == IF tail THEN Send(sent, "text") ELSE sent
             y     == IF now THEN Cut(told) ELSE Schedule(told)
  <2>2. Run(s, y)
    BY <2>1a
  <2>3. Quiet(h, ready)
    <3>1. Quiet(h, [h EXCEPT !.residue = "none"]) /\ Quiet(h, h)
      BY <1>1 DEF Quiet, Has
    <3>2. QED BY <1>1, <2>1a, <3>1, FlushQuiet
  <2>4. Has(ready)
    BY <1>1, <2>3, QuietHas
  <2>5. Quiet(ready, sent) /\ Has(sent)
    BY <2>4, SendToolQuiet, QuietHas
  <2> HIDE DEF sent
  <2>6. Quiet(sent, told)
    BY <2>5, SendQuiet DEF Quiet
  <2>7. Has(told)
    BY <2>5, <2>6, QuietHas
  <2> HIDE DEF told, h
  <2>8. Stepped(told, y)
    BY <2>7, CutMoves, ScheduleQuiet, QuietSteps
  <2> HIDE DEF y
  <2>9. Quiet(stream[s], told)
    BY <1>1, <2>3, <2>5, <2>6, QuietTransitive
  <2>10. QED BY <2>2, <2>8, <2>9, SteppedAfterQuiet, RunSteps
<1>5. CASE \E reason \in {"none", "stop", "length"} : Count(s, reason)
  <2>1. PICK reason : Count(s, reason)
    BY <1>5
  <2> DEFINE y == IF reason = "none" THEN h ELSE Track(h, reason, 0)
  <2>2. Quiet(h, y)
    BY <1>1, TrackQuiet DEF Quiet
  <2>3. Run(s, y)
    BY <2>1 DEF Count
  <2> HIDE DEF h, y
  <2>4. QED BY <1>1, <2>2, <2>3, QuietTransitive, QuietSteps, RunSteps
<1>6. CASE \E reason \in {"stop", "length"} : TaskComplete(s, reason)
  <2>1. PICK reason : TaskComplete(s, reason)
    BY <1>6
  <2> DEFINE k == Track(h, reason, 1)
             y == EmitFinish(k)
  <2>2. Run(s, Finalize(y, reason))
    BY <2>1 DEF TaskComplete
  <2>3. Quiet(h, k) /\ Has(k)
    BY <1>1, TrackQuiet, QuietHas
  <2> HIDE DEF k
  <2>4. Quiet(k, y) /\ Has(y)
    BY <2>3, EmitFinishQuiet, QuietHas
  <2> HIDE DEF y, h
  <2>5. Stepped(y, Finalize(y, reason))
    BY <2>4, FinalizeMoves, ClosedSteps DEF Stepped
  <2>6. Quiet(stream[s], y)
    BY <1>1, <2>3, <2>4, QuietTransitive
  <2>7. QED BY <2>2, <2>5, <2>6, SteppedAfterQuiet, RunSteps
<1>7. CASE \E content \in BOOLEAN : Call(s, content)
  <2>1. PICK content \in BOOLEAN : Call(s, content)
    BY <1>7
  <2> DEFINE c == SendCall(h)
             f == Flush(c)
             t == SendText(f)
             y == IF content THEN Schedule(t) ELSE c
  <2>2. Run(s, y)
    BY <2>1 DEF Call
  <2>3. Quiet(h, c) /\ Has(c)
    BY <1>1, SendCallQuiet, QuietHas
  <2> HIDE DEF h, c
  <2>4. Quiet(c, f) /\ Has(f)
    BY <2>3, FlushQuiet, QuietHas
  <2> HIDE DEF f
  <2>5. Quiet(f, t) /\ Has(t)
    BY <2>4, SendTextQuiet, QuietHas
  <2> HIDE DEF t
  <2>6. Quiet(t, Schedule(t))
    BY <2>5, ScheduleQuiet
  <2>7. Quiet(stream[s], y)
    BY <1>1, <2>3, <2>4, <2>5, <2>6, QuietTransitive
  <2> HIDE DEF y
  <2>8. QED BY <2>2, <2>7, QuietSteps, RunSteps
<1>8. QED BY <1>2, <1>3, <1>4, <1>5, <1>6, <1>7 DEF BackendLine

\* So is the end of the backend's work.
LEMMA BackendEndsSteps ==
  ASSUME NEW s \in Streams, Has(stream[s]), BackendEnds(s) \/ Exit(s)
  PROVE  StreamStep(s)
<1> DEFINE x == stream[s]
<1>1. CASE Resolve(s)
  BY <1>1, ShutMoves, ClosedSteps, RunSteps DEF Resolve
<1>2. CASE Fail(s)
  <2>1. Moved(x, ChildError(x)) /\ Has(ChildError(x))
    BY ChildErrorMoves, MovedHas
  <2>2. Moved(ChildError(x), Shut(ChildError(x))) /\ ~Running(Shut(ChildError(x)))
    BY <2>1, ShutMoves
  <2>3. QED BY <1>2, <2>1, <2>2, MovedTransitive, ClosedSteps, RunSteps DEF Fail
<1>3. CASE Exit(s)
  <2> DEFINE gone    == [x EXCEPT !.adapter = "exited"]
             flushed == Flush(gone)
             told    == IF ~flushed.sent /\ flushed.out
                        THEN [Send(flushed, "raw") EXCEPT !.sent = TRUE] ELSE flushed
             reason  == IF told.length THEN "length" ELSE "stop"
             y       == IF flushed.finalized THEN flushed ELSE Finalize(told, reason)
  <2>1. Run(s, y)
    BY <1>3 DEF Exit
  <2>2. Moved(x, gone) /\ Has(gone) /\ ~Running(gone)
    BY DEF Moved, Passing, Settled, Running, Has
  <2> HIDE DEF gone
  <2>3. Quiet(gone, flushed) /\ Has(flushed)
    BY <2>2, FlushQuiet, QuietHas
  <2> HIDE DEF flushed
  <2>4. Quiet(flushed, told)
    <3>1. Quiet(flushed, Send(flushed, "raw")) /\ Has(Send(flushed, "raw"))
      BY <2>3, SendQuiet, QuietHas
    <3>2. QED BY <3>1 DEF Quiet, Has
  <2>5. Has(told)
    BY <2>3, <2>4, QuietHas
  <2> HIDE DEF told, reason
  <2>6. Moved(told, Finalize(told, reason))
    BY <2>5, FinalizeMoves
  <2>7. Moved(x, flushed) /\ ~Running(flushed)
    BY <2>2, <2>3, QuietMoves, MovedTransitive DEF Moved, Passing
  <2>8. Moved(x, told) /\ ~Running(told)
    BY <2>4, <2>7, QuietMoves, MovedTransitive DEF Moved, Passing
  <2>9. Moved(x, Finalize(told, reason)) /\ ~Running(Finalize(told, reason))
    BY <2>6, <2>8, MovedTransitive DEF Moved, Passing
  <2>10. Stepped(x, y)
    BY <2>7, <2>9, ClosedSteps
  <2> HIDE DEF y
  <2>11. QED BY <2>1, <2>10, RunSteps
<1>4. QED BY <1>1, <1>2, <1>3 DEF BackendEnds

\* And every timer.
LEMMA TimerSteps ==
  ASSUME NEW s \in Streams, Has(stream[s]), Timer(s)
  PROVE  StreamStep(s)
<1>1. ASSUME NEW timer
      PROVE  Quiet(stream[s], Disarm(s, timer)) /\ Has(Disarm(s, timer))
  BY DEF Disarm, Quiet, Has
<1>2. CASE RequestTimer(s)
  <2> DEFINE y == Disarm(s, "request")
             e == ChildError(y)
  <2>1. Run(s, IF y.responded THEN y ELSE Kill(e))
    BY <1>2 DEF RequestTimer
  <2>2. Quiet(stream[s], y) /\ Has(y)
    BY <1>1
  <2> HIDE DEF y
  <2>3. Moved(y, e) /\ Has(e)
    BY <2>2, ChildErrorMoves, MovedHas
  <2> HIDE DEF e
  <2>4. Moved(e, Kill(e)) /\ ~Running(Kill(e))
    BY <2>3, KillMoves
  <2>5. Stepped(y, Kill(e))
    BY <2>3, <2>4, MovedTransitive, ClosedSteps
  <2>6. Stepped(stream[s], Kill(e)) /\ Stepped(stream[s], y)
    BY <2>2, <2>5, SteppedAfterQuiet, QuietSteps
  <2>7. QED BY <2>1, <2>6, RunSteps
<1>3. CASE IdleTimer(s)
  <2> DEFINE y == Disarm(s, "idle")
             z == IF y.finalized THEN y ELSE Track(y, "length", 0)
  <2>1. Run(s, Kill(z))
    BY <1>3 DEF IdleTimer
  <2>2. Quiet(stream[s], y) /\ Has(y)
    BY <1>1
  <2> HIDE DEF y
  <2>3. Quiet(y, z)
    BY <2>2, TrackQuiet DEF Quiet
  <2>4. Has(z)
    BY <2>2, <2>3, QuietHas
  <2> HIDE DEF z
  <2>5. Stepped(z, Kill(z))
    BY <2>4, KillMoves, ClosedSteps
  <2>6. Stepped(stream[s], Kill(z))
    BY <2>2, <2>3, <2>5, QuietTransitive, SteppedAfterQuiet
  <2>7. QED BY <2>1, <2>6, RunSteps
<1>4. CASE GraceTimer(s)
  <2> DEFINE y == Disarm(s, "grace")
  <2>1. Run(s, Cut(y))
    BY <1>4 DEF GraceTimer
  <2>2. Quiet(stream[s], y) /\ Has(y)
    BY <1>1
  <2> HIDE DEF y
  <2>3. Stepped(stream[s], Cut(y))
    BY <2>2, CutMoves, SteppedAfterQuiet
  <2>4. QED BY <2>1, <2>3, RunSteps
<1>5. QED BY <1>2, <1>3, <1>4 DEF Timer

\* The client, the socket, the checks before a stream starts and the rest.
LEMMA OtherSteps ==
  ASSUME NEW s \in Streams, Has(stream[s]),
         \/ Reject(s) \/ Busy(s) \/ SetUp(s) \/ Keepalive(s)
         \/ Disconnect(s) \/ Finished(s) \/ Fill(s)
         \/ \E n \in 0..Len(stream[s].queue), again \in BOOLEAN : Drain(s, n, again)
  PROVE  StreamStep(s)
<1> DEFINE x == stream[s]
<1>1. CASE Reject(s) \/ Busy(s)
  <2> DEFINE y == [x EXCEPT !.stage = "refused"]
  <2>1. stream' = [stream EXCEPT ![s] = y] /\ count' = count
    BY <1>1 DEF Reject, Busy
  <2>2. Moved(x, y) /\ y.token = x.token
    BY <1>1 DEF Reject, Busy, Moved, Passing, Settled, Running, Has
  <2>3. QED BY <2>1, <2>2, SilentSteps
<1>2. CASE SetUp(s)
  <2> DEFINE y == [x EXCEPT !.adapter = "held"]
  <2>1. Run(s, y)
    BY <1>2 DEF SetUp
  <2>2. Stepped(x, y)
    BY <1>2 DEF SetUp, Stepped, Moved, Passing, Settled, Running, Has
  <2>3. QED BY <2>1, <2>2, RunSteps
<1>3. CASE Keepalive(s)
  <2> DEFINE y == [x EXCEPT !.comments = @ + 1]
  <2>1. Run(s, Send(y, "comment"))
    BY <1>3 DEF Keepalive
  <2>2. Quiet(x, y) /\ Has(y)
    BY DEF Quiet, Has
  <2> HIDE DEF y
  <2>3. Quiet(x, Send(y, "comment"))
    BY <2>2, SendQuiet, QuietTransitive
  <2>4. QED BY <2>1, <2>3, QuietSteps, RunSteps
<1>4. CASE Disconnect(s)
  <2> DEFINE y == [x EXCEPT !.conn = "gone", !.flushing = FALSE, !.full = FALSE,
                            !.queue = <<>>]
  <2>1. Run(s, Cleanup(y))
    BY <1>4 DEF Disconnect
  <2>2. Quiet(x, y) /\ Has(y)
    BY DEF Quiet, Has
  <2> HIDE DEF y
  <2>3. QED BY <2>1, <2>2, CleanupMoves, SteppedAfterQuiet, RunSteps
<1>5. CASE Finished(s)
  BY <1>5, CleanupMoves, RunSteps DEF Finished
<1>6. CASE Fill(s)
  <2> DEFINE y == [x EXCEPT !.full = TRUE, !.stalls = @ + 1]
  <2>1. stream' = [stream EXCEPT ![s] = y] /\ count' = count
    BY <1>6 DEF Fill
  <2>2. Quiet(x, y)
    BY DEF Quiet, Has
  <2>3. QED BY <2>1, <2>2, SilentSteps
<1>7. CASE \E n \in 0..Len(stream[s].queue), again \in BOOLEAN : Drain(s, n, again)
  <2>1. PICK n, again : Drain(s, n, again)
    BY <1>7
  <2> DEFINE over == SubSeq(x.queue, 1, IF again THEN n - 1 ELSE n)
             done == \E i \in DOMAIN (x.wire \o over) : (x.wire \o over)[i] = "done"
             y    == [x EXCEPT !.wire = @ \o SubSeq(x.queue, 1, n),
                               !.queue = SubSeq(@, n + 1, Len(@)),
                               !.flushing = again, !.full = again,
                               !.stalls = IF again THEN @ + 1 ELSE @,
                               !.conn = IF done THEN "ended" ELSE @]
  <2>2. stream' = [stream EXCEPT ![s] = y] /\ count' = count
    BY <2>1 DEF Drain
  <2> HIDE DEF done
  <2>3. Quiet(x, y)
    BY DEF Quiet, Has
  <2> HIDE DEF y
  <2>4. QED BY <2>2, <2>3, SilentSteps
<1>8. QED BY <1>1, <1>2, <1>3, <1>4, <1>5, <1>6, <1>7

-----------------------------------------------------------------------------
(* The semaphore.                                                           *)

\* The streams that hold a token are finitely many.
LEMMA HoldersFinite == IsFiniteSet(Holders) /\ Cardinality(Holders) \in Nat
  BY StreamsAssumption, FS_Subset, FS_CardinalityType DEF Holders

\* A step of one stream keeps the invariant.
LEMMA StepKeepsInvariant ==
  ASSUME Inductive, NEW s \in Streams, StreamStep(s)
  PROVE  Inductive'
<1>1. PICK y : /\ Stepped(stream[s], y)
               /\ stream' = [stream EXCEPT ![s] = y]
               /\ count' = GiveBack(s, y)
  BY DEF StreamStep
<1>2. Disciplined(stream[s]) /\ s \in DOMAIN stream
  BY DEF Inductive
<1>3. /\ stream'[s] = y
      /\ \A r \in Streams : r # s => stream'[r] = stream[r]
      /\ DOMAIN stream' = Streams
      /\ stream' = [r \in Streams |-> stream'[r]]
  BY <1>1, <1>2 DEF Inductive
<1>4. Disciplined(y)
  <2>1. Has(y)
    BY <1>1, <1>2, MovedHas DEF Stepped, Disciplined
  <2>2. QED BY <1>1, <1>2, <2>1 DEF Stepped, Moved, Passing, Disciplined, Running
<1>5. \A r \in Streams : Disciplined(stream'[r])
  BY <1>3, <1>4 DEF Inductive
<1>6. \A r \in Streams : Disciplined(stream[r])'
  BY <1>5 DEF Disciplined, Settled, Has, Running
<1>7. count' \in Nat /\ GuardCounts'
  <2>1. CASE y.token = stream[s].token
    <3>1. Holders' = Holders
      BY <1>3, <2>1 DEF Holders
    <3>2. count' = count
      BY <1>1, <2>1 DEF GiveBack
    <3>3. QED BY <3>1, <3>2 DEF Inductive, GuardCounts
  <2>2. CASE stream[s].token = "held" /\ y.token = "released"
    <3>1. Holders' = Holders \ {s} /\ s \in Holders
      BY <1>3, <2>2 DEF Holders
    <3>2. Cardinality(Holders') = Cardinality(Holders) - 1
      BY <3>1, HoldersFinite, FS_RemoveElement
    <3>3. Cardinality(Holders') \in Nat
      BY <3>1, HoldersFinite, FS_RemoveElement, FS_Subset, FS_CardinalityType
    <3>4. count = Cardinality(Holders) /\ count \in Nat /\ (MaxConc > 0 => count <= MaxConc)
      BY DEF Inductive, GuardCounts
    <3>5. count > 0
      BY <3>2, <3>3, <3>4
    <3>6. count' = count - 1
      BY <1>1, <2>2, <3>5 DEF GiveBack
    <3>7. QED BY <3>2, <3>3, <3>4, <3>6, LimitsAssumption DEF GuardCounts
  <2>3. QED BY <1>1, <2>1, <2>2 DEF Stepped, Moved, Passing
<1>8. QED BY <1>3, <1>6, <1>7 DEF Inductive

\* A stream starts with a token the semaphore had to give.
LEMMA StartKeepsInvariant ==
  ASSUME Inductive, NEW s \in Streams, NEW wantUsage, Start(s, wantUsage)
  PROVE  Inductive'
<1> DEFINE x == stream[s]
           b == [x EXCEPT !.stage = "streaming", !.adapter = "setup",
                          !.token = IF MaxConc = 0 THEN "none" ELSE "held",
                          !.armed = {"request", "idle", "keepalive"},
                          !.wantUsage = wantUsage]
           y == Send(b, "role")
<1>1. /\ stream' = [stream EXCEPT ![s] = y]
      /\ x.stage = "new" /\ TryAcquire
      /\ count' = IF MaxConc = 0 THEN count ELSE count + 1
  BY DEF Start
<1>2. Disciplined(x) /\ s \in DOMAIN stream
  BY DEF Inductive
<1>3. /\ Has(b) /\ b.stage = "streaming" /\ b.adapter = "setup"
      /\ b.token = IF MaxConc = 0 THEN "none" ELSE "held"
      /\ b.finalized = x.finalized /\ b.outcome = x.outcome
  BY <1>2 DEF Disciplined, Has
<1> HIDE DEF b
<1>4. Quiet(b, y) /\ Has(y)
  BY <1>3, SendQuiet, QuietHas
<1> HIDE DEF y
<1>5. /\ y.stage = "streaming"
      /\ y.token = IF MaxConc = 0 THEN "none" ELSE "held"
  BY <1>3, <1>4 DEF Quiet
<1>6. Disciplined(y)
  <2>1. Settled(y)
    BY <1>2, <1>3, <1>4 DEF Disciplined, Settled, Quiet
  <2>2. QED BY <1>4, <1>5, <2>1, LimitsAssumption DEF Disciplined
<1>7. /\ stream'[s] = y
      /\ \A r \in Streams : r # s => stream'[r] = stream[r]
      /\ DOMAIN stream' = Streams
      /\ stream' = [r \in Streams |-> stream'[r]]
  BY <1>1, <1>2 DEF Inductive
<1>8. \A r \in Streams : Disciplined(stream[r])'
  BY <1>6, <1>7 DEF Inductive, Disciplined, Settled, Has, Running
<1>9. count' \in Nat /\ GuardCounts'
  <2>1. x.token # "held"
    BY <1>1, <1>2 DEF Disciplined
  <2>2. count = Cardinality(Holders) /\ count \in Nat /\ (MaxConc > 0 => count <= MaxConc)
    BY DEF Inductive, GuardCounts
  <2>3. CASE MaxConc = 0
    <3>1. Holders' = Holders
      BY <1>5, <1>7, <2>1, <2>3 DEF Holders
    <3>2. QED BY <1>1, <2>2, <2>3, <3>1 DEF GuardCounts
  <2>4. CASE MaxConc # 0
    <3>1. Holders' = Holders \cup {s} /\ s \notin Holders
      BY <1>5, <1>7, <2>1, <2>4 DEF Holders
    <3>2. Cardinality(Holders') = Cardinality(Holders) + 1
      BY <3>1, HoldersFinite, FS_AddElement
    <3>3. count < MaxConc
      BY <1>1, <2>4 DEF TryAcquire
    <3>4. count' = count + 1
      BY <1>1, <2>4
    <3>5. QED BY <2>2, <3>2, <3>3, <3>4, LimitsAssumption DEF GuardCounts
  <2>5. QED BY <2>3, <2>4
<1>10. QED BY <1>7, <1>8, <1>9 DEF Inductive

\* No stream has started.
LEMMA InitInductive == Init => Inductive
<1> SUFFICES ASSUME Init PROVE Inductive
  OBVIOUS
<1>1. DOMAIN stream = Streams /\ stream = [s \in Streams |-> stream[s]]
  BY DEF Init
<1>2. Disciplined(Fresh) /\ Fresh.token = "none"
  BY DEF Fresh, Disciplined, Settled, Has, Running
<1>3. \A s \in Streams : stream[s] = Fresh
  BY DEF Init
<1>4. Holders = {}
  BY <1>2, <1>3 DEF Holders
<1>5. QED BY <1>1, <1>2, <1>3, <1>4, FS_EmptySet, LimitsAssumption
           DEF Init, Inductive, GuardCounts

\* Every action keeps the invariant.
LEMMA NextInductive == Inductive /\ [Next]_vars => Inductive'
<1> SUFFICES ASSUME Inductive, [Next]_vars PROVE Inductive'
  OBVIOUS
<1>1. CASE UNCHANGED vars
  BY <1>1 DEF vars, Inductive, Disciplined, Settled, Has, Running, GuardCounts, Holders
<1>2. ASSUME NEW s \in Streams, NEW wantUsage \in BOOLEAN, Start(s, wantUsage)
      PROVE  Inductive'
  BY <1>2, StartKeepsInvariant
<1>3. ASSUME NEW s \in Streams,
             ~(\E wantUsage \in BOOLEAN : Start(s, wantUsage)),
             \/ Reject(s) \/ Busy(s)
             \/ SetUp(s) \/ BackendLine(s) \/ BackendEnds(s) \/ Exit(s)
             \/ Timer(s) \/ Keepalive(s)
             \/ Disconnect(s) \/ Finished(s) \/ Fill(s)
             \/ \E n \in 0..Len(stream[s].queue), again \in BOOLEAN : Drain(s, n, again)
      PROVE  Inductive'
  <2>1. Has(stream[s])
    BY DEF Inductive, Disciplined
  <2>2. StreamStep(s)
    BY <1>3, <2>1, BackendLineSteps, BackendEndsSteps, TimerSteps, OtherSteps
  <2>3. QED BY <2>2, StepKeepsInvariant
<1>4. QED BY <1>1, <1>2, <1>3 DEF Next

\* The invariant of the proofs.
THEOREM StreamInvariant == Spec => []Inductive
  BY InitInductive, NextInductive, PTL DEF Spec

\* The semaphore's count is the number of streams that hold a token, and never
\* exceeds PROXY_SSE_MAX_CONCURRENCY.
THEOREM GuardIsExact == Spec => []GuardCounts
<1>1. Inductive => GuardCounts
  BY DEF Inductive
<1>2. QED BY <1>1, StreamInvariant, PTL

\* With PROXY_KILL_ON_DISCONNECT at most as many requests are on the backend as
\* there are tokens.
THEOREM BackendIsBounded == Spec => []BackendsBounded
<1>1. Inductive => BackendsBounded
  <2> SUFFICES ASSUME Inductive, KillOnDisconnect, MaxConc > 0
               PROVE  Cardinality({s \in Streams : Running(stream[s])}) <= MaxConc
    BY DEF BackendsBounded, Running
  <2> DEFINE R == {s \in Streams : Running(stream[s])}
  <2>1. R \subseteq Holders
    BY DEF Inductive, Disciplined, Holders
  <2>2. IsFiniteSet(R) /\ Cardinality(R) <= Cardinality(Holders) /\ Cardinality(R) \in Nat
    BY <2>1, HoldersFinite, FS_Subset, FS_CardinalityType
  <2>3. Cardinality(Holders) <= MaxConc /\ Cardinality(Holders) \in Nat
    BY HoldersFinite DEF Inductive, GuardCounts
  <2> HIDE DEF R
  <2>4. Cardinality(R) <= MaxConc
    BY <2>2, <2>3, LimitsAssumption
  <2>5. QED BY <2>4 DEF R
<1>2. QED BY <1>1, StreamInvariant, PTL

-----------------------------------------------------------------------------
(* The streams as requests of RequestService.                               *)

Stages == [s \in Streams |-> Stage(s)]

\* One step of the service, or none.
ServiceStep == Slots!Next \/ UNCHANGED Slots!vars

\* A step of one stream changes the stage of no other.
LEMMA OtherStages ==
  ASSUME NEW s \in Streams, NEW r \in Streams, stream'[r] = stream[r]
  PROVE  Stage(r)' = Stage(r)
  BY DEF Stage

\* A stream that goes on stays what it is for the service, until its token comes
\* back: then it has its outcome, which stays.
LEMMA StepServes ==
  ASSUME Inductive, NEW s \in Streams, StreamStep(s)
  PROVE  ServiceStep
<1> DEFINE x == stream[s]
<1>1. PICK y : Stepped(x, y) /\ stream' = [stream EXCEPT ![s] = y]
  BY DEF StreamStep
<1>2. Disciplined(x) /\ DOMAIN stream = Streams
  BY DEF Inductive
<1>3. stream'[s] = y /\ \A r \in Streams \ {s} : stream'[r] = stream[r]
  BY <1>1, <1>2
<1>4. \A r \in Streams \ {s} : Stage(r)' = Stage(r)
  BY <1>3, OtherStages
<1>5. Passing(x, y) /\ Settled(x)
  BY <1>1, <1>2 DEF Stepped, Moved, Disciplined
<1>6. CASE Stage(s)' = Stage(s)
  <2>1. Stages' = Stages
    BY <1>4, <1>6 DEF Stages
  <2>2. QED BY <2>1 DEF ServiceStep, Slots!vars, Stages
<1>7. CASE Stage(s)' # Stage(s)
  <2>1. CASE x.stage = "new"
    <3>1. y.stage = "refused"
      BY <1>3, <1>5, <1>7, <2>1 DEF Passing, Stage
    <3>2. Stage(s) = "new" /\ Stage(s)' = "failed"
      BY <1>3, <2>1, <3>1 DEF Stage
    <3>3. Slots!Refuse(s)
      <4>1. Stages' = [Stages EXCEPT ![s] = "failed"] /\ Stages[s] = "new"
        BY <1>4, <3>2 DEF Stages
      <4>2. QED BY <4>1 DEF Slots!Refuse, Stages
    <3>4. QED BY <3>3 DEF ServiceStep, Slots!Next
  <2>2. CASE x.stage # "new"
    <3>1. y.stage = x.stage /\ x.stage = "streaming"
      BY <1>3, <1>5, <1>7, <2>2 DEF Passing, Stage
    <3>2. x.token = "held" /\ y.token = "released"
      BY <1>3, <1>5, <1>7, <2>2, <3>1 DEF Passing, Settled, Stage
    <3>3. Stage(s) = "active" /\ Stage(s)' \in {"answered", "failed"}
      BY <1>3, <2>2, <3>1, <3>2 DEF Stage
    <3>4. Stages[s] = "active" /\ Stages' = [Stages EXCEPT ![s] = Stage(s)']
      BY <1>4, <3>3 DEF Stages
    <3>5. CASE Stage(s)' = "answered"
      <4>1. Slots!Answer(s)
        BY <3>4, <3>5 DEF Slots!Answer, Stages
      <4>2. QED BY <4>1 DEF ServiceStep, Slots!Next
    <3>6. CASE Stage(s)' = "failed"
      <4>1. Stages' = [r \in Streams |-> IF r \in {s} THEN "failed" ELSE Stages[r]]
        BY <3>4, <3>6 DEF Stages
      <4>2. {s} # {} /\ {s} \subseteq Slots!Active
        BY <3>4 DEF Slots!Active, Stages
      <4>3. Slots!FailAll({s})
        BY <4>1, <4>2 DEF Slots!FailAll, Stages
      <4>4. QED BY <4>2, <4>3 DEF ServiceStep, Slots!Next
    <3>7. QED BY <3>3, <3>5, <3>6
  <2>3. QED BY <2>1, <2>2
<1>8. QED BY <1>6, <1>7

\* A stream that starts takes one of the service's free slots.
LEMMA StartServes ==
  ASSUME Inductive, MaxConc > 0, NEW s \in Streams, NEW wantUsage, Start(s, wantUsage)
  PROVE  ServiceStep
<1> DEFINE x == stream[s]
           b == [x EXCEPT !.stage = "streaming", !.adapter = "setup",
                          !.token = IF MaxConc = 0 THEN "none" ELSE "held",
                          !.armed = {"request", "idle", "keepalive"},
                          !.wantUsage = wantUsage]
           y == Send(b, "role")
<1>1. stream' = [stream EXCEPT ![s] = y] /\ x.stage = "new" /\ count < MaxConc
  BY DEF Start, TryAcquire
<1>2. Disciplined(x) /\ DOMAIN stream = Streams
  BY DEF Inductive
<1>3. Has(b) /\ b.stage = "streaming" /\ b.token = "held"
  BY <1>2 DEF Disciplined, Has
<1> HIDE DEF b
<1>4. y.stage = "streaming" /\ y.token = "held"
  BY <1>3, SendQuiet DEF Quiet
<1> HIDE DEF y
<1>5. stream'[s] = y /\ \A r \in Streams \ {s} : stream'[r] = stream[r]
  BY <1>1, <1>2
<1>6. \A r \in Streams \ {s} : Stage(r)' = Stage(r)
  BY <1>5, OtherStages
<1>7. Stage(s) = "new" /\ Stage(s)' = "active"
  BY <1>1, <1>4, <1>5 DEF Stage
<1>8. Stages[s] = "new" /\ Stages' = [Stages EXCEPT ![s] = "active"]
  BY <1>6, <1>7 DEF Stages
<1>9. Slots!Cardinality(Slots!Active) < MaxConc
  <2>1. Slots!Active \subseteq Holders
    BY DEF Slots!Active, Stage, Holders
  <2>2. /\ Cardinality(Slots!Active) <= Cardinality(Holders)
        /\ Cardinality(Slots!Active) \in Nat /\ Cardinality(Holders) \in Nat
    BY <2>1, HoldersFinite, FS_Subset, FS_CardinalityType
  <2>3. Cardinality(Holders) < MaxConc
    BY <1>1 DEF Inductive, GuardCounts
  <2>4. Cardinality(Slots!Active) < MaxConc
    BY <2>2, <2>3, LimitsAssumption
  <2>5. QED BY <2>4 DEF Slots!Cardinality, Cardinality
<1>10. Slots!Admit(s)
  BY <1>8, <1>9 DEF Slots!Admit, Stages
<1>11. QED BY <1>10 DEF ServiceStep, Slots!Next

\* Every step of the handlers is a step of the service or none.
LEMMA NextServes == ASSUME Inductive, MaxConc > 0, [Next]_vars PROVE ServiceStep
<1>1. CASE UNCHANGED vars
  <2>1. Stages' = Stages
    BY <1>1 DEF vars, Stages, Stage
  <2>2. QED BY <2>1 DEF ServiceStep, Slots!vars, Stages
<1>2. ASSUME NEW s \in Streams, NEW wantUsage \in BOOLEAN, Start(s, wantUsage)
      PROVE  ServiceStep
  BY <1>2, StartServes
<1>3. ASSUME NEW s \in Streams,
             \/ Reject(s) \/ Busy(s)
             \/ SetUp(s) \/ BackendLine(s) \/ BackendEnds(s) \/ Exit(s)
             \/ Timer(s) \/ Keepalive(s)
             \/ Disconnect(s) \/ Finished(s) \/ Fill(s)
             \/ \E n \in 0..Len(stream[s].queue), again \in BOOLEAN : Drain(s, n, again)
      PROVE  ServiceStep
  <2>1. Has(stream[s])
    BY DEF Inductive, Disciplined
  <2>2. StreamStep(s)
    BY <1>3, <2>1, BackendLineSteps, BackendEndsSteps, TimerSteps, OtherSteps
  <2>3. QED BY <2>2, StepServes
<1>4. QED BY <1>1, <1>2, <1>3 DEF Next

\* No stream has started.
LEMMA InitServes == Init => Slots!Init
  BY DEF Init, Fresh, Slots!Init, Stage

\* With a limit, every behaviour of the stream handlers is one of RequestService
\* with as many slots, for any number of streams: a stream is refused or admitted to a
\* free slot, and is answered or failed once, whichever of its handlers gives
\* the token back, and what it ended with never changes.
THEOREM StreamsServe == ASSUME MaxConc > 0 PROVE Spec => Slots!SafeSpec
<1>1. Inductive /\ [Next]_vars => ServiceStep
  BY NextServes
<1>2. QED BY <1>1, InitServes, StreamInvariant, PTL DEF Spec, Slots!SafeSpec, ServiceStep

-----------------------------------------------------------------------------
(***************************************************************************)
(* What the clients are told.                                              *)
(*                                                                         *)
(* A frame waits in the queue or is on the wire, so the invariant is about *)
(* both in a row (Given): a write appends to it or does nothing, a drain   *)
(* leaves it as it is.  Each handler is shown to keep a stream Whole; in   *)
(* the middle of one that writes the end of a stream it is only Ready.     *)
(***************************************************************************)

Given(x) == x.wire \o x.queue

Open(x) == x.conn \in {"open", "ending"}

\* One of the frames F is among those given.
In(g, F) == \E i \in DOMAIN g : g[i] \in F

\* What the frames given to a client keep, whatever the handlers do.
Grammar(g) ==
  /\ \A i \in DOMAIN g : (g[i] = "role") <=> (i = 1)
  /\ \A i, j \in DOMAIN g :
       i < j /\ g[i] \in Ends /\ g[j] \in Ends => \E k \in 1..j : g[k] = "done"
  /\ \A i \in DOMAIN g : g[i] = "usage" => \E j \in 1..(i - 1) : g[j] \in FinishReasons
  /\ \A i \in DOMAIN g : g[i] = "done" =>
       \E j \in 1..(i - 1) : g[j] \in Ends /\ \A k \in 1..j : g[k] # "done"
  /\ \A i, j \in DOMAIN g :
       i < j /\ g[i] \in ToolFrames /\ g[j] \in Ends => g[j] = "tool_calls"
  /\ \A i, j \in DOMAIN g :
       i < j /\ g[i] = "tools" /\ StopAfterTools => g[j] \notin {"text", "raw"}

\* A frame the grammar allows next.
Fits(g, f) ==
  /\ f \in Frames \ {"role"}
  /\ f \in Ends /\ In(g, Ends) => In(g, {"done"})
  /\ f = "usage" => In(g, FinishReasons)
  /\ f = "done" => In(g, Ends)
  /\ In(g, ToolFrames) /\ f \in Ends => f = "tool_calls"
  /\ In(g, {"tools"}) /\ StopAfterTools => f \notin {"text", "raw"}

Fields == {"stage", "adapter", "responded", "finalized", "closed", "tools", "shown", "sent", "best",
           "rank", "finished", "conn", "full", "flushing", "queue", "wire", "residue", "armed",
           "logs", "outcome", "token", "length", "stopped", "out", "events"}

\* The frames keep the grammar, and the stream's flags know of its tool calls.
Orderly(x) ==
  /\ Fields \subseteq DOMAIN x
  /\ x.wire \in Seq(Frames) /\ x.queue \in Seq(Frames) /\ x.wire # <<>>
  /\ ~x.flushing => x.queue = <<>>
  /\ Grammar(Given(x))
  /\ In(Given(x), ToolFrames) => x.tools
  /\ In(Given(x), {"tools"}) => x.shown
  /\ x.shown => x.tools /\ x.sent
  /\ x.best \in FinishReasons \cup {"none"}
  /\ x.conn \in {"open", "ending", "ended", "gone"}

\* A stream between two handlers: what has an end has its [DONE], and so has
\* what has given its token back.
Whole(x) ==
  /\ Orderly(x)
  /\ x.stage = "streaming"
  /\ Open(x) /\ In(Given(x), Ends) => In(Given(x), {"done"})
  /\ Open(x) /\ x.token = "released" => In(Given(x), {"done"})
  /\ x.finished => x.finalized
  /\ x.finalized => x.responded /\ ~Running(x)
  /\ x.closed /\ ~x.finalized => ~Open(x)

\* In the middle of finalizeStream: the end is given, or may be.
Ready(x) ==
  /\ Orderly(x)
  /\ x.stage = "streaming"
  /\ x.closed => ~Open(x)
  /\ x.finished /\ Open(x) => In(Given(x), FinishReasons)
  /\ ~x.finished /\ Open(x) /\ In(Given(x), Ends) => In(Given(x), {"done"})

\* A stream that has not started or never will.
Idle(x) == x = Fresh \/ x = [Fresh EXCEPT !.stage = "refused"]

Sound == /\ stream = [s \in Streams |-> stream[s]]
         /\ \A s \in Streams : Idle(stream[s]) \/ Whole(stream[s])

-----------------------------------------------------------------------------
(* Frames in a row.                                                         *)

\* A frame that fits may follow.
LEMMA AppendKeepsGrammar ==
  ASSUME NEW g \in Seq(Frames), g # <<>>, Grammar(g), NEW f, Fits(g, f)
  PROVE  /\ Append(g, f) \in Seq(Frames)
         /\ Grammar(Append(g, f))
         /\ \A F : In(Append(g, f), F) <=> In(g, F) \/ f \in F
<1> DEFINE h == Append(g, f)
           n == Len(g)
<1>1. f \in Frames /\ f # "role"
  BY DEF Fits
<1>2. /\ n \in Nat \ {0} /\ DOMAIN g = 1..n /\ h \in Seq(Frames) /\ DOMAIN h = 1..(n + 1)
      /\ \A i \in 1..n : h[i] = g[i]
      /\ h[n + 1] = f
  BY <1>1, EmptySeq, LenProperties, AppendProperties
<1> HIDE DEF h, n
<1>3. \A F : In(h, F) <=> In(g, F) \/ f \in F
  BY <1>2 DEF In
<1>4. \A i \in DOMAIN h : (h[i] = "role") <=> (i = 1)
  BY <1>1, <1>2 DEF Grammar
<1>5. ASSUME NEW i \in DOMAIN h, NEW j \in DOMAIN h, i < j, h[i] \in Ends, h[j] \in Ends
      PROVE  \E k \in 1..j : h[k] = "done"
  <2>1. i \in 1..n /\ g[i] \in Ends
    BY <1>2, <1>5
  <2>2. CASE j \in 1..n
    <3>1. PICK k \in 1..j : g[k] = "done"
      BY <1>2, <1>5, <2>1, <2>2 DEF Grammar
    <3>2. k \in 1..n
      BY <1>2, <2>2
    <3>3. QED BY <1>2, <3>1, <3>2
  <2>3. CASE j = n + 1
    <3>1. In(g, Ends) /\ f \in Ends
      BY <1>2, <1>5, <2>1, <2>3 DEF In
    <3>2. PICK k \in 1..n : g[k] = "done"
      BY <1>2, <3>1 DEF Fits, In
    <3>3. k \in 1..j /\ h[k] = "done"
      BY <1>2, <2>3, <3>2
    <3>4. QED BY <3>3
  <2>4. QED BY <1>2, <2>2, <2>3
<1>6. ASSUME NEW i \in DOMAIN h, h[i] = "usage"
      PROVE  \E j \in 1..(i - 1) : h[j] \in FinishReasons
  <2>1. CASE i \in 1..n
    <3>1. PICK j \in 1..(i - 1) : g[j] \in FinishReasons
      BY <1>2, <1>6, <2>1 DEF Grammar
    <3>2. h[j] = g[j]
      BY <1>2, <2>1
    <3>3. QED BY <3>1, <3>2
  <2>2. CASE i = n + 1
    <3>1. PICK j \in 1..n : g[j] \in FinishReasons
      BY <1>2, <1>6, <2>2 DEF Fits, In
    <3>2. j \in 1..(i - 1) /\ h[j] = g[j]
      BY <1>2, <2>2
    <3>3. QED BY <3>1, <3>2
  <2>3. QED BY <1>2, <2>1, <2>2
<1>7. ASSUME NEW i \in DOMAIN h, h[i] = "done"
      PROVE  \E j \in 1..(i - 1) : h[j] \in Ends /\ \A k \in 1..j : h[k] # "done"
  <2>1. CASE \E m \in 1..n : g[m] = "done" /\ m <= i
    <3>1. PICK m \in 1..n : g[m] = "done" /\ m <= i
      BY <2>1
    <3>2. PICK j \in 1..(m - 1) : g[j] \in Ends /\ \A k \in 1..j : g[k] # "done"
      BY <1>2, <3>1 DEF Grammar
    <3>3. j \in 1..(i - 1) /\ \A k \in 1..j : h[k] = g[k]
      BY <1>2, <3>1, <3>2
    <3>4. h[j] = g[j]
      BY <3>2, <3>3
    <3>5. QED BY <3>2, <3>3, <3>4
  <2>2. CASE ~\E m \in 1..n : g[m] = "done" /\ m <= i
    <3>1. i = n + 1 /\ f = "done"
      BY <1>2, <1>7, <2>2
    <3>2. PICK j \in 1..n : g[j] \in Ends
      BY <1>2, <3>1 DEF Fits, In
    <3>3. j \in 1..(i - 1) /\ h[j] = g[j]
      BY <1>2, <3>1, <3>2
    <3>4. \A k \in 1..j : h[k] # "done"
      BY <1>2, <2>2, <3>1, <3>2
    <3>5. QED BY <3>2, <3>3, <3>4
  <2>3. QED BY <2>1, <2>2
<1>8. ASSUME NEW i \in DOMAIN h, NEW j \in DOMAIN h, i < j, h[i] \in ToolFrames, h[j] \in Ends
      PROVE  h[j] = "tool_calls"
  <2>1. i \in 1..n /\ g[i] \in ToolFrames
    BY <1>2, <1>8
  <2>2. CASE j \in 1..n
    BY <1>2, <1>8, <2>1, <2>2 DEF Grammar
  <2>3. CASE j = n + 1
    <3>1. In(g, ToolFrames)
      BY <1>2, <2>1 DEF In
    <3>2. QED BY <1>2, <1>8, <2>3, <3>1 DEF Fits
  <2>4. QED BY <1>2, <2>2, <2>3
<1>9. ASSUME NEW i \in DOMAIN h, NEW j \in DOMAIN h, i < j, h[i] = "tools", StopAfterTools
      PROVE  h[j] \notin {"text", "raw"}
  <2>1. i \in 1..n /\ g[i] = "tools"
    BY <1>2, <1>9
  <2>2. CASE j \in 1..n
    BY <1>2, <1>9, <2>1, <2>2 DEF Grammar
  <2>3. CASE j = n + 1
    <3>1. In(g, {"tools"})
      BY <1>2, <2>1 DEF In
    <3>2. QED BY <1>2, <1>9, <2>3, <3>1 DEF Fits
  <2>4. QED BY <1>2, <2>2, <2>3
<1>10. Grammar(h)
  BY <1>4, <1>5, <1>6, <1>7, <1>8, <1>9 DEF Grammar
<1>11. QED BY <1>2, <1>3, <1>10 DEF h

\* The first of two sequences is the beginning of both in a row.
LEMMA FirstOfTwo ==
  ASSUME NEW v \in Seq(Frames), NEW q \in Seq(Frames)
  PROVE  /\ v \o q \in Seq(Frames)
         /\ DOMAIN v = 1..Len(v) /\ Len(v) \in Nat
         /\ DOMAIN (v \o q) = 1..Len(v \o q) /\ Len(v \o q) \in Nat
         /\ Len(v) <= Len(v \o q)
         /\ \A i \in 1..Len(v) : (v \o q)[i] = v[i]
<1> DEFINE n == Len(v)
           m == Len(q)
           w == v \o q
<1>1. n \in Nat /\ m \in Nat /\ DOMAIN v = 1..n
  BY LenProperties
<1>2. /\ w \in Seq(Frames) /\ Len(w) = n + m
      /\ \A i \in 1..(n + m) : w[i] = IF i <= n THEN v[i] ELSE q[i - n]
  BY ConcatProperties
<1>3. DOMAIN w = 1..Len(w)
  BY <1>2, LenProperties
<1> HIDE DEF n, m, w
<1>4. Len(w) \in Nat /\ n <= Len(w)
  BY <1>1, <1>2
<1>5. \A i \in 1..n : w[i] = v[i]
  BY <1>1, <1>2
<1>6. QED BY <1>1, <1>2, <1>3, <1>4, <1>5 DEF n, w

\* The beginning of frames that keep the grammar keeps it.
LEMMA PrefixKeepsGrammar ==
  ASSUME NEW g, NEW w, NEW n \in Nat, NEW m \in Nat, m <= n, DOMAIN g = 1..n, DOMAIN w = 1..m,
         \A i \in 1..m : w[i] = g[i], Grammar(g)
  PROVE  /\ Grammar(w)
         /\ \A F : In(w, F) => In(g, F)
<1>1. \A i \in 1..m : i \in 1..n /\ \A k \in 1..i : k \in 1..m /\ w[k] = g[k]
  OBVIOUS
<1>2. \A F : In(w, F) => In(g, F)
  BY <1>1 DEF In
<1>3. \A i \in DOMAIN w : (w[i] = "role") <=> (i = 1)
  BY <1>1 DEF Grammar
<1>4. \A i, j \in DOMAIN w :
        i < j /\ w[i] \in Ends /\ w[j] \in Ends => \E k \in 1..j : w[k] = "done"
  BY <1>1 DEF Grammar
<1>5. \A i \in DOMAIN w : w[i] = "usage" => \E j \in 1..(i - 1) : w[j] \in FinishReasons
  <2>1. TAKE i \in DOMAIN w
  <2>2. HAVE w[i] = "usage"
  <2>3. PICK j \in 1..(i - 1) : g[j] \in FinishReasons
    BY <1>1, <2>2 DEF Grammar
  <2>4. j \in 1..i
    BY <1>1
  <2>5. QED BY <1>1, <2>3, <2>4
<1>6. \A i \in DOMAIN w : w[i] = "done" =>
        \E j \in 1..(i - 1) : w[j] \in Ends /\ \A k \in 1..j : w[k] # "done"
  <2>1. TAKE i \in DOMAIN w
  <2>2. HAVE w[i] = "done"
  <2>3. PICK j \in 1..(i - 1) : g[j] \in Ends /\ \A k \in 1..j : g[k] # "done"
    BY <1>1, <2>2 DEF Grammar
  <2>4. j \in 1..i /\ j \in 1..m
    BY <1>1
  <2>5. QED BY <1>1, <2>3, <2>4
<1>7. /\ \A i, j \in DOMAIN w :
           i < j /\ w[i] \in ToolFrames /\ w[j] \in Ends => w[j] = "tool_calls"
      /\ \A i, j \in DOMAIN w :
           i < j /\ w[i] = "tools" /\ StopAfterTools => w[j] \notin {"text", "raw"}
  BY <1>1 DEF Grammar
<1>8. Grammar(w)
  BY <1>3, <1>4, <1>5, <1>6, <1>7 DEF Grammar
<1>9. QED BY <1>2, <1>8

\* Appending to the second of two sequences appends to both in a row.
LEMMA AppendToSecond ==
  ASSUME NEW v \in Seq(Frames), NEW q \in Seq(Frames), NEW f \in Frames
  PROVE  v \o Append(q, f) = Append(v \o q, f)
<1>1. <<f>> \in Seq(Frames) /\ Append(q, f) = q \o <<f>> /\ v \o q \in Seq(Frames)
  BY AppendIsConcat, ConcatProperties
<1>2. Append(v \o q, f) = (v \o q) \o <<f>>
  BY <1>1, AppendIsConcat
<1>3. QED BY <1>1, <1>2, ConcatAssociative

-----------------------------------------------------------------------------
(* What the parts of the handlers leave as it is.                           *)

\* The flags that the end of a stream is about.
SameFlags(x, y) ==
  /\ y.stage = x.stage
  /\ y.responded = x.responded
  /\ y.finalized = x.finalized
  /\ y.closed = x.closed
  /\ y.finished = x.finished
  /\ y.token = x.token
  /\ Running(y) => Running(x)
  /\ Open(y) <=> Open(x)

\* Nothing is written.
Silent(x, y) ==
  /\ DOMAIN y = DOMAIN x
  /\ y.wire = x.wire /\ y.queue = x.queue
  /\ y.flushing = x.flushing /\ y.conn = x.conn
  /\ (x.tools => y.tools) /\ (x.shown => y.shown) /\ (y.shown => y.tools /\ y.sent)
  /\ y.best \in FinishReasons \cup {"none"}

\* What is written ends nothing.
Ordinary(x, y) ==
  /\ Orderly(y)
  /\ SameFlags(x, y)
  /\ In(Given(y), Ends) <=> In(Given(x), Ends)
  /\ In(Given(y), FinishReasons) <=> In(Given(x), FinishReasons)
  /\ In(Given(y), {"done"}) <=> In(Given(x), {"done"})

\* The frames of an orderly stream are a sequence that is not empty.
LEMMA GivenIsSequence ==
  ASSUME NEW x, Orderly(x)
  PROVE  Given(x) \in Seq(Frames) /\ Given(x) # <<>>
<1>1. Given(x) \in Seq(Frames)
  BY ConcatProperties DEF Given, Orderly
<1>2. Given(x) # <<>>
  BY ConcatEqualIffEmpty DEF Given, Orderly
<1>3. QED BY <1>1, <1>2

\* Without a write a stream stays orderly.
LEMMA SilentOrderly ==
  ASSUME NEW x, NEW y, Orderly(x), Silent(x, y)
  PROVE  Orderly(y) /\ Given(y) = Given(x) /\ (Open(y) <=> Open(x))
<1>1. Given(y) = Given(x) /\ (Open(y) <=> Open(x))
  BY DEF Silent, Given, Open
<1>2. Orderly(y)
  BY <1>1 DEF Silent, Orderly
<1>3. QED BY <1>1, <1>2

LEMMA SilentOrdinary ==
  ASSUME NEW x, NEW y, Orderly(x), Silent(x, y), SameFlags(x, y)
  PROVE  Ordinary(x, y)
  BY SilentOrderly DEF Ordinary

\* Parts of handlers follow each other.
LEMMA OrdinaryTransitive ==
  ASSUME NEW x, NEW y, NEW z, Ordinary(x, y), Ordinary(y, z)
  PROVE  Ordinary(x, z)
  BY DEF Ordinary, SameFlags

\* A stream between two handlers stays one.
LEMMA OrdinaryWhole ==
  ASSUME NEW x, NEW y, Whole(x), Ordinary(x, y)
  PROVE  Whole(y)
  BY DEF Whole, Ordinary, SameFlags

\* And so does one in the middle of its end.
LEMMA OrdinaryReady ==
  ASSUME NEW x, NEW y, Ready(x), Ordinary(x, y)
  PROVE  Ready(y)
  BY DEF Ready, Ordinary, SameFlags

-----------------------------------------------------------------------------
(* Writing.                                                                 *)

\* writeSseChunk gives the client a frame that fits, if the response is open.
LEMMA Writes ==
  ASSUME NEW x, NEW f, Orderly(x), Open(x) => Fits(Given(x), f),
         f \in ToolFrames => x.tools, f = "tools" => x.shown
  PROVE  /\ Orderly(Write(x, f))
         /\ SameFlags(x, Write(x, f))
         /\ \A F : In(Given(Write(x, f)), F) <=> In(Given(x), F) \/ (Open(x) /\ f \in F)
<1> DEFINE y == Write(x, f)
<1>1. CASE ~Open(x)
  <2>1. x.conn \in {"ended", "gone"}
    BY <1>1 DEF Open, Orderly
  <2>2. y = x
    BY <2>1 DEF Write
  <2> HIDE DEF y
  <2>3. QED BY <1>1, <2>2 DEF SameFlags, y
<1>2. CASE Open(x)
  <2>1. f \in Frames /\ Fits(Given(x), f)
    BY <1>2 DEF Fits
  <2>2. /\ Append(Given(x), f) \in Seq(Frames)
        /\ Grammar(Append(Given(x), f))
        /\ \A F : In(Append(Given(x), f), F) <=> In(Given(x), F) \/ f \in F
    BY <2>1, GivenIsSequence, AppendKeepsGrammar DEF Orderly
  <2>3. /\ DOMAIN y = DOMAIN x /\ SameFlags(x, y)
        /\ y.wire \in Seq(Frames) /\ y.queue \in Seq(Frames) /\ y.wire # <<>>
        /\ ~y.flushing => y.queue = <<>>
        /\ Given(y) = Append(Given(x), f)
        /\ y.tools = x.tools /\ y.shown = x.shown /\ y.sent = x.sent /\ y.best = x.best
        /\ y.conn \in {"open", "ending", "ended", "gone"}
    <3>1. CASE x.flushing
      <4>1. y = [x EXCEPT !.queue = Append(@, f)]
        BY <1>2, <3>1 DEF Write, Open
      <4>2. y.queue = Append(x.queue, f) /\ y.wire = x.wire /\ y.flushing = x.flushing
        BY <4>1 DEF Orderly, Fields
      <4>3. Given(y) = Append(Given(x), f)
        BY <2>1, <4>2, AppendToSecond DEF Given, Orderly
      <4>4. y.queue \in Seq(Frames)
        BY <2>1, <4>2, AppendProperties DEF Orderly
      <4>5. /\ DOMAIN y = DOMAIN x /\ SameFlags(x, y)
            /\ y.tools = x.tools /\ y.shown = x.shown /\ y.sent = x.sent /\ y.best = x.best /\ y.conn = x.conn
        BY <4>1 DEF Orderly, Fields, SameFlags, Running, Open
      <4> HIDE DEF y
      <4>6. QED BY <3>1, <4>2, <4>3, <4>4, <4>5 DEF Orderly
    <3>2. CASE ~x.flushing
      <4>1. y = [x EXCEPT !.wire = Append(@, f), !.flushing = x.full,
                          !.conn = IF f = "done" /\ ~x.full THEN "ending" ELSE @]
        BY <1>2, <3>2 DEF Write, Open
      <4>2. y.wire = Append(x.wire, f) /\ y.queue = x.queue /\ x.queue = <<>>
        BY <3>2, <4>1 DEF Orderly, Fields
      <4>3. y.wire \in Seq(Frames) /\ y.wire # <<>>
        BY <2>1, <4>2, AppendProperties DEF Orderly
      <4>4. Given(y) = Append(Given(x), f)
        BY <4>2, <4>3, ConcatEmptySeq DEF Given, Orderly
      <4>5. y.conn \in {"open", "ending"}
        BY <1>2, <4>1 DEF Orderly, Fields, Open
      <4>6. /\ DOMAIN y = DOMAIN x /\ y.stage = x.stage /\ y.responded = x.responded
            /\ y.finalized = x.finalized /\ y.closed = x.closed /\ y.finished = x.finished
            /\ y.adapter = x.adapter /\ y.token = x.token
            /\ y.tools = x.tools /\ y.shown = x.shown /\ y.sent = x.sent /\ y.best = x.best
        BY <4>1 DEF Orderly, Fields
      <4> HIDE DEF y
      <4>7. SameFlags(x, y)
        BY <1>2, <4>5, <4>6 DEF SameFlags, Running, Open
      <4>8. QED BY <4>2, <4>3, <4>4, <4>5, <4>6, <4>7 DEF Orderly
    <3>3. QED BY <3>1, <3>2
  <2> HIDE DEF y
  <2>4. Orderly(y)
    <3>1. (In(Given(y), ToolFrames) => y.tools) /\ (In(Given(y), {"tools"}) => y.shown)
      BY <2>2, <2>3 DEF Orderly
    <3>2. QED BY <2>2, <2>3, <3>1 DEF Orderly
  <2>5. QED BY <1>2, <2>2, <2>3, <2>4 DEF y
<1>3. QED BY <1>1, <1>2

\* sendSSE: not when the response is closed.
LEMMA Sends ==
  ASSUME NEW x, NEW f, Orderly(x), Open(x) => Fits(Given(x), f),
         f \in ToolFrames => x.tools, f = "tools" => x.shown
  PROVE  /\ Orderly(Send(x, f))
         /\ SameFlags(x, Send(x, f))
         /\ \A F : In(Given(Send(x, f)), F) <=>
                     In(Given(x), F) \/ (Open(x) /\ ~x.closed /\ f \in F)
<1>1. CASE x.closed
  BY <1>1 DEF Send, SameFlags
<1>2. CASE ~x.closed
  BY <1>2, Writes DEF Send
<1>3. QED BY <1>1, <1>2

\* Frames that end nothing.
LEMMA PlainSends ==
  ASSUME NEW x, NEW f \in {"text", "tools", "call", "raw", "comment"}, Orderly(x),
         f \in ToolFrames => x.tools, f = "tools" => x.shown,
         f \in {"text", "raw"} /\ StopAfterTools => ~x.shown
  PROVE  Ordinary(x, Send(x, f))
<1>1. Fits(Given(x), f)
  BY DEF Fits, Frames, Ends, FinishReasons, Orderly
<1>2. f \notin Ends /\ f \notin FinishReasons /\ f \notin {"done"}
  BY DEF Ends, FinishReasons
<1>3. QED BY <1>1, <1>2, Sends DEF Ordinary

-----------------------------------------------------------------------------
(* Parts of the handlers that end nothing.                                  *)

\* What is noted, not written.
LEMMA NotesAreOrdinary ==
  ASSUME NEW x, Orderly(x)
  PROVE  /\ \A reason \in FinishReasons : \A rank : Ordinary(x, Track(x, reason, rank))
         /\ Ordinary(x, Schedule(x))
         /\ Ordinary(x, Hear(x))
         /\ \A outcome : Ordinary(x, Record(x, outcome))
         /\ \A A : Ordinary(x, [x EXCEPT !.armed = @ \ A])
         /\ \A r : Ordinary(x, [x EXCEPT !.residue = r])
         /\ Ordinary(x, [x EXCEPT !.sent = TRUE])
         /\ \A l : Ordinary(x, [x EXCEPT !.logs = l])
         /\ Ordinary(x, Shut(x))
<1>1. ASSUME NEW reason \in FinishReasons, NEW rank
      PROVE  Ordinary(x, Track(x, reason, rank))
  <2> DEFINE y == Track(x, reason, rank)
  <2>1. Silent(x, y) /\ SameFlags(x, y)
    BY DEF Track, Silent, SameFlags, Orderly, Fields, Running, Open
  <2>2. QED BY <2>1, SilentOrdinary
<1>2. Ordinary(x, Schedule(x))
  <2>1. Silent(x, Schedule(x)) /\ SameFlags(x, Schedule(x))
    BY DEF Schedule, Silent, SameFlags, Orderly, Fields, Running, Open
  <2>2. QED BY <2>1, SilentOrdinary
<1>3. Ordinary(x, Hear(x))
  <2>1. Silent(x, Hear(x)) /\ SameFlags(x, Hear(x))
    BY DEF Hear, Silent, SameFlags, Orderly, Fields, Running, Open
  <2>2. QED BY <2>1, SilentOrdinary
<1>4. ASSUME NEW outcome PROVE Ordinary(x, Record(x, outcome))
  <2>1. Silent(x, Record(x, outcome)) /\ SameFlags(x, Record(x, outcome))
    BY DEF Record, Silent, SameFlags, Orderly, Fields, Running, Open
  <2>2. QED BY <2>1, SilentOrdinary
<1>5. ASSUME NEW A PROVE Ordinary(x, [x EXCEPT !.armed = @ \ A])
  <2> DEFINE y == [x EXCEPT !.armed = @ \ A]
  <2>1. Silent(x, y) /\ SameFlags(x, y)
    BY DEF Silent, SameFlags, Orderly, Fields, Running, Open
  <2>2. QED BY <2>1, SilentOrdinary
<1>6. ASSUME NEW r PROVE Ordinary(x, [x EXCEPT !.residue = r])
  <2> DEFINE y == [x EXCEPT !.residue = r]
  <2>1. Silent(x, y) /\ SameFlags(x, y)
    BY DEF Silent, SameFlags, Orderly, Fields, Running, Open
  <2>2. QED BY <2>1, SilentOrdinary
<1>7. Ordinary(x, [x EXCEPT !.sent = TRUE])
  <2> DEFINE y == [x EXCEPT !.sent = TRUE]
  <2>1. Silent(x, y) /\ SameFlags(x, y)
    BY DEF Silent, SameFlags, Orderly, Fields, Running, Open
  <2>2. QED BY <2>1, SilentOrdinary
<1>8. ASSUME NEW l PROVE Ordinary(x, [x EXCEPT !.logs = l])
  <2> DEFINE y == [x EXCEPT !.logs = l]
  <2>1. Silent(x, y) /\ SameFlags(x, y)
    BY DEF Silent, SameFlags, Orderly, Fields, Running, Open
  <2>2. QED BY <2>1, SilentOrdinary
<1>9. Ordinary(x, Shut(x))
  <2>1. Silent(x, Shut(x)) /\ SameFlags(x, Shut(x))
    BY DEF Shut, Silent, SameFlags, Orderly, Fields, Running, Open
  <2>2. QED BY <2>1, SilentOrdinary
<1>10. QED BY <1>1, <1>2, <1>3, <1>4, <1>5, <1>6, <1>7, <1>8, <1>9

\* The token comes back when the client has its [DONE], or cannot get one.
LEMMA ReleaseOrderly ==
  ASSUME NEW x, Orderly(x)
  PROVE  /\ Orderly(Release(x))
         /\ Given(Release(x)) = Given(x)
         /\ Open(Release(x)) <=> Open(x)
         /\ Release(x).stage = x.stage /\ Release(x).finalized = x.finalized
         /\ Release(x).responded = x.responded /\ Release(x).finished = x.finished
         /\ Release(x).closed = x.closed /\ Release(x).adapter = x.adapter
<1> DEFINE y == Release(x)
<1>1. /\ Silent(x, y)
      /\ y.stage = x.stage /\ y.finalized = x.finalized /\ y.responded = x.responded
      /\ y.finished = x.finished /\ y.closed = x.closed /\ y.adapter = x.adapter
  BY DEF Release, Silent, Orderly, Fields
<1> HIDE DEF y
<1>2. Orderly(y) /\ Given(y) = Given(x) /\ (Open(y) <=> Open(x))
  BY <1>1, SilentOrderly
<1>3. QED BY <1>1, <1>2 DEF y

LEMMA ReleaseWhole ==
  ASSUME NEW x, Whole(x), Open(x) => In(Given(x), {"done"})
  PROVE  Whole(Release(x))
<1> DEFINE y == Release(x)
<1>1. /\ Orderly(y) /\ Given(y) = Given(x) /\ (Open(y) <=> Open(x))
      /\ y.stage = x.stage /\ y.finalized = x.finalized /\ y.responded = x.responded
      /\ y.finished = x.finished /\ y.closed = x.closed /\ y.adapter = x.adapter
  BY ReleaseOrderly DEF Whole
<1> HIDE DEF y
<1>2. Whole(y)
  BY <1>1 DEF Whole, Running
<1>3. QED BY <1>2 DEF y

\* Text is delivered, or dropped behind a block.
LEMMA SendTextOrdinary ==
  ASSUME NEW x, Orderly(x)
  PROVE  Ordinary(x, SendText(x))
<1> DEFINE y == [x EXCEPT !.sent = TRUE]
<1>1. CASE x.shown
  BY <1>1, NotesAreOrdinary DEF SendText
<1>2. CASE ~x.shown
  <2>1. Ordinary(x, y) /\ Orderly(y)
    BY NotesAreOrdinary DEF Ordinary
  <2>2. y.shown = x.shown
    BY DEF Orderly, Fields
  <2> HIDE DEF y
  <2>3. Ordinary(y, Send(y, "text"))
    BY <1>2, <2>1, <2>2, PlainSends DEF ToolFrames
  <2>4. Ordinary(x, Send(y, "text"))
    BY <2>1, <2>3, OrdinaryTransitive
  <2>5. QED BY <1>2, <2>4 DEF SendText, y
<1>3. QED BY <1>1, <1>2

\* A block is delivered.
LEMMA SendToolOrdinary ==
  ASSUME NEW x, Orderly(x)
  PROVE  Ordinary(x, SendTool(x))
<1> DEFINE y == [x EXCEPT !.tools = TRUE, !.shown = TRUE, !.sent = TRUE]
<1>1. Silent(x, y) /\ SameFlags(x, y) /\ y.tools /\ y.shown
  BY DEF Silent, SameFlags, Orderly, Fields, Running, Open
<1>2. Ordinary(x, y) /\ Orderly(y)
  BY <1>1, SilentOrdinary DEF Ordinary
<1> HIDE DEF y
<1>3. Ordinary(y, Send(y, "tools"))
  BY <1>1, <1>2, PlainSends
<1>4. Ordinary(x, Send(y, "tools"))
  BY <1>2, <1>3, OrdinaryTransitive
<1>5. QED BY <1>4 DEF SendTool, y

\* A structured call is delivered.
LEMMA SendCallOrdinary ==
  ASSUME NEW x, Orderly(x)
  PROVE  Ordinary(x, SendCall(x))
<1> DEFINE y == [x EXCEPT !.tools = TRUE]
<1>1. Silent(x, y) /\ SameFlags(x, y) /\ y.tools
  BY DEF Silent, SameFlags, Orderly, Fields, Running, Open
<1>2. Ordinary(x, y) /\ Orderly(y)
  BY <1>1, SilentOrdinary DEF Ordinary
<1> HIDE DEF y
<1>3. Ordinary(y, Send(y, "call"))
  BY <1>1, <1>2, PlainSends
<1>4. Ordinary(x, Send(y, "call"))
  BY <1>2, <1>3, OrdinaryTransitive
<1>5. QED BY <1>4 DEF SendCall, y

\* What was held back is delivered.
LEMMA FlushOrdinary ==
  ASSUME NEW x, Orderly(x)
  PROVE  Ordinary(x, Flush(x))
<1> DEFINE y == [x EXCEPT !.residue = "none"]
<1>1. Ordinary(x, y) /\ Orderly(y)
  BY NotesAreOrdinary DEF Ordinary
<1> HIDE DEF y
<1>2. Ordinary(x, SendText(y))
  BY <1>1, SendTextOrdinary, OrdinaryTransitive
<1>3. Ordinary(x, SendTool(y)) /\ Orderly(SendTool(y))
  BY <1>1, SendToolOrdinary, OrdinaryTransitive DEF Ordinary
<1>4. Ordinary(SendTool(y), Schedule(SendTool(y)))
  BY <1>3, NotesAreOrdinary
<1>5. Ordinary(x, Schedule(SendTool(y)))
  BY <1>3, <1>4, OrdinaryTransitive
<1>6. Flush(x) \in {SendText(y), Schedule(SendTool(y)), y}
  BY DEF Flush, y
<1>7. QED BY <1>1, <1>2, <1>5, <1>6

\* The comment before the finish chunk.
LEMMA StatsOrdinary ==
  ASSUME NEW x, Orderly(x)
  PROVE  Ordinary(x, Stats(x))
<1>1. CASE x.shown
  <2>1. Ordinary(x, Send(x, "comment"))
    BY PlainSends DEF ToolFrames
  <2>2. QED BY <1>1, <2>1 DEF Stats
<1>2. CASE ~x.shown
  BY <1>2 DEF Stats, Ordinary, SameFlags
<1>3. QED BY <1>1, <1>2

-----------------------------------------------------------------------------
(* The end of a stream.                                                     *)

\* What is Whole is Ready, when finalizeStream has not run.
LEMMA WholeIsReady ==
  ASSUME NEW x, Whole(x), ~x.finalized
  PROVE  Ready(x)
  BY DEF Whole, Ready

\* The finish chunk fits, and "tool_calls" is what it says after a tool call.
LEMMA EmitFinishReady ==
  ASSUME NEW x, Ready(x)
  PROVE  /\ Ready(EmitFinish(x))
         /\ EmitFinish(x).finished
         /\ EmitFinish(x).finalized = x.finalized
         /\ EmitFinish(x).responded = x.responded
         /\ Open(EmitFinish(x)) => Open(x)
<1> DEFINE y == [x EXCEPT !.finished = TRUE]
           f == FinishOf(x)
<1>1. CASE x.finished
  BY <1>1 DEF EmitFinish
<1>2. CASE ~x.finished
  <2>1. f \in FinishReasons /\ (x.tools => f = "tool_calls")
    BY DEF FinishOf, FinishReasons, Ready, Orderly
  <2>2. /\ Silent(x, y) /\ y.finished
        /\ y.finalized = x.finalized /\ y.responded = x.responded
        /\ y.closed = x.closed /\ y.stage = x.stage
    BY DEF Silent, Ready, Orderly, Fields
  <2> HIDE DEF y, f
  <2>3. Orderly(y) /\ Given(y) = Given(x) /\ (Open(y) <=> Open(x))
    BY <2>2, SilentOrderly DEF Ready
  <2>4. Open(y) => Fits(Given(y), f)
    <3>1. Open(x) /\ In(Given(x), Ends) => In(Given(x), {"done"})
      BY <1>2 DEF Ready
    <3>2. In(Given(x), ToolFrames) => x.tools
      BY DEF Ready, Orderly
    <3>3. f \in Frames \ {"role"} /\ f \notin {"usage", "done", "text", "raw"}
      BY <2>1 DEF FinishReasons, Frames
    <3>4. QED BY <2>1, <2>3, <3>1, <3>2, <3>3 DEF Fits
  <2>5. f \notin ToolFrames /\ f # "tools" /\ f \in FinishReasons
    BY <2>1 DEF FinishReasons, ToolFrames
  <2>6. /\ Orderly(Send(y, f))
        /\ SameFlags(y, Send(y, f))
        /\ In(Given(Send(y, f)), FinishReasons) <=>
             In(Given(y), FinishReasons) \/ (Open(y) /\ ~y.closed)
    BY <2>3, <2>4, <2>5, Sends
  <2>7. Ready(Send(y, f))
    BY <2>2, <2>3, <2>6 DEF Ready, SameFlags
  <2>8. EmitFinish(x) = Send(y, f)
    BY <1>2 DEF EmitFinish, y, f
  <2>9. QED BY <2>2, <2>3, <2>6, <2>7, <2>8 DEF SameFlags
<1>3. QED BY <1>1, <1>2

\* finalizeStream leaves a stream whole, and opens nothing.
LEMMA FinalizeWhole ==
  ASSUME NEW x, NEW reason \in FinishReasons,
         x.finalized => Whole(x), ~x.finalized => Ready(x)
  PROVE  /\ Whole(Finalize(x, reason))
         /\ Open(Finalize(x, reason)) => Open(x)
<1>1. CASE x.finalized
  BY <1>1 DEF Finalize
<1>2. CASE ~x.finalized
  <2> DEFINE begun   == [x EXCEPT !.finalized = TRUE, !.responded = TRUE,
                                  !.armed = @ \ {"grace"}]
             flushed == Flush(begun)
             tracked == Track(flushed, reason, 2)
             counts  == Stats(tracked)
             ended   == EmitFinish(counts)
             counted == IF ended.wantUsage THEN Send(ended, "usage") ELSE ended
             logged  == [counted EXCEPT !.logs = Append(@, "usage")]
             told    == Record(logged, OutcomeOf(logged))
             done    == Write(told, "done")
             closed  == Close(done)
             free    == Release(closed)
  <2> DEFINE Ending(y) == Ready(y) /\ y.finalized /\ y.responded /\ (Open(y) => Open(x))
  <2>1. Ending(begun)
    <3>1. /\ Silent(x, begun) /\ begun.finalized /\ begun.responded
          /\ begun.finished = x.finished /\ begun.closed = x.closed /\ begun.stage = x.stage
      BY <1>2 DEF Silent, Ready, Orderly, Fields
    <3> HIDE DEF begun
    <3>2. Orderly(begun) /\ Given(begun) = Given(x) /\ (Open(begun) <=> Open(x))
      BY <1>2, <3>1, SilentOrderly DEF Ready
    <3>3. QED BY <1>2, <3>1, <3>2 DEF Ready
  <2>2. \A y, z : Ending(y) /\ Ordinary(y, z) => Ending(z)
    BY OrdinaryReady DEF Ordinary, SameFlags
  <2> HIDE DEF begun
  <2>3. Ending(flushed)
    <3>1. Ordinary(begun, flushed)
      BY <2>1, FlushOrdinary DEF Ready
    <3> HIDE DEF flushed
    <3>2. QED BY <2>1, <2>2, <3>1
  <2> HIDE DEF flushed
  <2>4. Ending(tracked)
    <3>1. Ordinary(flushed, tracked)
      BY <2>3, NotesAreOrdinary DEF Ready
    <3> HIDE DEF tracked
    <3>2. QED BY <2>2, <2>3, <3>1
  <2> HIDE DEF tracked
  <2>5. Ending(counts)
    <3>1. Ordinary(tracked, counts)
      BY <2>4, StatsOrdinary DEF Ready
    <3> HIDE DEF counts
    <3>2. QED BY <2>2, <2>4, <3>1
  <2> HIDE DEF counts
  <2>6. Ending(ended) /\ ended.finished
    BY <2>5, EmitFinishReady
  <2> HIDE DEF ended
  <2>7. Ordinary(ended, counted)
    <3>1. Open(ended) => In(Given(ended), FinishReasons)
      BY <2>6 DEF Ready
    <3>2. Open(ended) => Fits(Given(ended), "usage")
      BY <3>1 DEF Fits, Frames, Ends, FinishReasons
    <3>3. "usage" \notin Ends /\ "usage" \notin FinishReasons /\ "usage" \notin {"done"}
      BY DEF Ends, FinishReasons
    <3>4. Ordinary(ended, Send(ended, "usage"))
      BY <2>6, <3>2, <3>3, Sends DEF ToolFrames, Ordinary, Ready
    <3>5. Ordinary(ended, ended)
      BY <2>6 DEF Ordinary, Ready, SameFlags
    <3>6. QED BY <3>4, <3>5
  <2>8. Ending(counted) /\ counted.finished
    <3> HIDE DEF counted
    <3>1. QED BY <2>2, <2>6, <2>7 DEF Ordinary, SameFlags
  <2> HIDE DEF counted
  <2>9. Ending(logged) /\ logged.finished
    <3>1. Ordinary(counted, logged)
      BY <2>8, NotesAreOrdinary DEF Ready
    <3> HIDE DEF logged
    <3>2. QED BY <2>2, <2>8, <3>1 DEF Ordinary, SameFlags
  <2> HIDE DEF logged
  <2>10. Ending(told) /\ told.finished
    <3>1. Ordinary(logged, told)
      BY <2>9, NotesAreOrdinary DEF Ready
    <3> HIDE DEF told
    <3>2. QED BY <2>2, <2>9, <3>1 DEF Ordinary, SameFlags
  <2> HIDE DEF told
  <2>11. /\ Orderly(done) /\ SameFlags(told, done)
         /\ Open(done) => In(Given(done), {"done"})
    <3>1. Open(told) => In(Given(told), Ends)
      BY <2>10 DEF Ready, In, Ends
    <3>2. Open(told) => Fits(Given(told), "done")
      BY <3>1 DEF Fits, Frames, Ends, FinishReasons
    <3>3. QED BY <2>10, <3>2, Writes DEF ToolFrames, Ready, SameFlags
  <2> HIDE DEF done
  <2>12. /\ Orderly(closed) /\ closed.finalized /\ closed.responded
         /\ closed.stage = "streaming"
         /\ Open(closed) => In(Given(closed), {"done"}) /\ Open(x)
    <3>1. /\ Silent(done, closed) /\ closed.stage = done.stage
          /\ closed.finalized = done.finalized /\ closed.responded = done.responded
      BY <2>11 DEF Silent, Close, Orderly, Fields
    <3> HIDE DEF closed
    <3>2. Orderly(closed) /\ Given(closed) = Given(done) /\ (Open(closed) <=> Open(done))
      BY <2>11, <3>1, SilentOrderly
    <3>3. QED BY <2>10, <2>11, <3>1, <3>2 DEF Ready, SameFlags
  <2> HIDE DEF closed
  <2>13. /\ Orderly(free) /\ free.finalized /\ free.responded
         /\ free.stage = "streaming"
         /\ Open(free) => In(Given(free), {"done"}) /\ Open(x)
    BY <2>12, ReleaseOrderly
  <2> HIDE DEF free
  <2>14. Ordinary(free, Shut(free)) /\ ~Running(Shut(free))
    <3>1. ~Running(Shut(free))
      BY <2>13 DEF Shut, Running, Orderly, Fields
    <3>2. QED BY <2>13, <3>1, NotesAreOrdinary
  <2>15. Whole(Shut(free)) /\ (Open(Shut(free)) => Open(x))
    BY <2>13, <2>14 DEF Whole, Ordinary, SameFlags
  <2>16. Finalize(x, reason) = Shut(free)
    BY <1>2 DEF Finalize, begun, flushed, tracked, counts, ended, counted, logged, told,
                done, closed, free
  <2>17. QED BY <2>15, <2>16
<1>3. QED BY <1>1, <1>2

-----------------------------------------------------------------------------
(* Errors, kills and cuts.                                                  *)

\* An error is told only to a stream that has no end and no tool call.
LEMMA ChildErrorWhole ==
  ASSUME NEW x, Whole(x)
  PROVE  Whole(ChildError(x)) /\ (Open(ChildError(x)) => Open(x))
<1> DEFINE y      == [x EXCEPT !.armed = @ \ {"request"}]
           said   == Send(y, "error")
           failed == [said EXCEPT !.responded = TRUE, !.logs = Append(@, "failure")]
           done   == Write(failed, "done")
<1>1. CASE x.responded
  BY <1>1 DEF ChildError
<1>2. CASE ~x.responded
  <2>1. Whole(y) /\ ~y.responded /\ ~y.finalized /\ (Open(y) => Open(x))
    <3>1. Ordinary(x, y)
      BY NotesAreOrdinary DEF Whole
    <3> HIDE DEF y
    <3>2. QED BY <1>2, <3>1, OrdinaryWhole DEF Ordinary, SameFlags, Whole
  <2>2. y.tools = x.tools
    BY DEF Whole, Orderly, Fields
  <2> HIDE DEF y
  <2>3. CASE x.tools
    <3>1. Whole(Finalize(y, "tool_calls")) /\ (Open(Finalize(y, "tool_calls")) => Open(x))
      BY <2>1, WholeIsReady, FinalizeWhole DEF FinishReasons
    <3>2. QED BY <1>2, <2>3, <3>1 DEF ChildError, y
  <2>4. CASE ~x.tools
    <3>1. Open(y) => Fits(Given(y), "error")
      BY <2>1, <2>2, <2>4 DEF Fits, Frames, FinishReasons, Whole, Orderly
    <3>2. /\ Orderly(said) /\ SameFlags(y, said)
          /\ Open(said) => In(Given(said), Ends)
      <4>1. Open(y) => ~y.closed
        BY <2>1 DEF Whole
      <4>2. "error" \in Ends
        BY DEF Ends
      <4>3. QED BY <2>1, <3>1, <4>1, <4>2, Sends DEF ToolFrames, Whole, SameFlags
    <3> HIDE DEF said
    <3>3. /\ Silent(said, failed) /\ failed.responded
          /\ failed.stage = said.stage /\ failed.finalized = said.finalized
          /\ failed.finished = said.finished /\ failed.closed = said.closed
          /\ failed.adapter = said.adapter /\ failed.token = said.token
      BY <3>2 DEF Silent, Orderly, Fields
    <3> HIDE DEF failed
    <3>4. Orderly(failed) /\ Given(failed) = Given(said) /\ (Open(failed) <=> Open(said))
      BY <3>2, <3>3, SilentOrderly
    <3>5. /\ Orderly(done) /\ SameFlags(failed, done)
          /\ Open(done) => In(Given(done), {"done"})
      <4>1. Open(failed) => Fits(Given(failed), "done")
        BY <3>2, <3>4 DEF Fits, Frames, Ends, FinishReasons
      <4>2. QED BY <3>4, <4>1, Writes DEF ToolFrames, SameFlags
    <3> HIDE DEF done
    <3>6. Whole(done)
      BY <2>1, <3>2, <3>3, <3>4, <3>5 DEF Whole, SameFlags
    <3>7. Whole(Release(done)) /\ (Open(Release(done)) => Open(x))
      BY <2>1, <3>2, <3>4, <3>5, <3>6, ReleaseWhole, ReleaseOrderly DEF SameFlags
    <3>8. /\ Whole(Record(Release(done), "error"))
          /\ Open(Record(Release(done), "error")) => Open(x)
      <4>1. Ordinary(Release(done), Record(Release(done), "error"))
        BY <3>7, NotesAreOrdinary DEF Whole
      <4>2. QED BY <3>7, <4>1, OrdinaryWhole DEF Ordinary, SameFlags
    <3>9. QED BY <1>2, <2>4, <3>8 DEF ChildError, y, said, failed, done
  <2>5. QED BY <2>3, <2>4
<1>3. QED BY <1>1, <1>2

LEMMA KillWhole ==
  ASSUME NEW x, Whole(x)
  PROVE  /\ Whole(Kill(x)) /\ (Open(Kill(x)) => Open(x))
         /\ Whole(Shut(x))
<1>1. \A y : Whole(y) => Whole(Shut(y)) /\ (Open(Shut(y)) => Open(y))
  <2>1. \A y : Whole(y) => Ordinary(y, Shut(y))
    BY NotesAreOrdinary DEF Whole
  <2>2. QED BY <2>1, OrdinaryWhole DEF Ordinary, SameFlags
<1>2. QED BY <1>1, ChildErrorWhole DEF Kill

\* A handler notes the reason of its kill.
LEMMA TrackWhole ==
  ASSUME NEW x, Whole(x), NEW reason \in FinishReasons, NEW rank
  PROVE  Whole(Track(x, reason, rank))
<1>1. Ordinary(x, Track(x, reason, rank))
  BY NotesAreOrdinary DEF Whole
<1>2. QED BY <1>1, OrdinaryWhole

LEMMA CutWhole ==
  ASSUME NEW x, Whole(x)
  PROVE  Whole(Cut(x))
<1> DEFINE y == [x EXCEPT !.stopped = TRUE, !.armed = @ \ {"grace", "keepalive"}]
<1>1. Whole(y)
  <2>1. Silent(x, y) /\ SameFlags(x, y)
    BY DEF Silent, SameFlags, Whole, Orderly, Fields, Running, Open
  <2>2. Ordinary(x, y)
    BY <2>1, SilentOrdinary DEF Whole
  <2> HIDE DEF y
  <2>3. QED BY <2>2, OrdinaryWhole
<1> HIDE DEF y
<1>2. Whole(Kill(y)) /\ Whole(Track(Kill(y), "length", 0))
  BY <1>1, KillWhole, TrackWhole DEF FinishReasons
<1>3. QED BY <1>2 DEF Cut, y

\* The listeners of the response run when nothing more can be written.
LEMMA CleanupWhole ==
  ASSUME NEW x, Whole(x), ~Open(x)
  PROVE  Whole(Cleanup(x))
<1>1. CASE x.closed
  BY <1>1 DEF Cleanup
<1>2. CASE ~x.closed
  <2>1. Whole(Close(x)) /\ ~Open(Close(x))
    <3> DEFINE z == Close(x)
    <3>1. /\ Silent(x, z) /\ z.stage = x.stage /\ z.finalized = x.finalized
          /\ z.responded = x.responded /\ z.finished = x.finished /\ z.adapter = x.adapter
          /\ z.token = x.token
      BY DEF Silent, Close, Whole, Orderly, Fields
    <3> HIDE DEF z
    <3>2. Orderly(z) /\ Given(z) = Given(x) /\ ~Open(z)
      BY <3>1, SilentOrderly DEF Whole
    <3>3. Whole(z)
      BY <3>1, <3>2 DEF Whole, Running
    <3>4. QED BY <3>2, <3>3 DEF z
  <2> DEFINE y == IF KillOnDisconnect THEN Kill(Close(x)) ELSE Close(x)
             n == IF y.finalized THEN y ELSE Record(y, "client_abort")
  <2>2. Whole(y) /\ ~Open(y)
    BY <2>1, KillWhole
  <2> HIDE DEF y
  <2>3. Whole(n) /\ ~Open(n)
    <3>1. Ordinary(y, Record(y, "client_abort"))
      BY <2>2, NotesAreOrdinary DEF Whole
    <3>2. QED BY <2>2, <3>1, OrdinaryWhole DEF Ordinary, SameFlags
  <2> HIDE DEF n
  <2>4. Whole(Release(n))
    BY <2>3, ReleaseWhole
  <2>5. QED BY <1>2, <2>4 DEF Cleanup, y, n
<1>3. QED BY <1>1, <1>2

-----------------------------------------------------------------------------
(* The actions.                                                             *)

\* When the handler has returned, res.end() may follow.
LEMMA EndOfTaskWhole ==
  ASSUME NEW x, Whole(x)
  PROVE  Whole(EndOfTask(x))
<1> DEFINE y == EndOfTask(x)
<1>1. /\ DOMAIN y = DOMAIN x
      /\ y.wire = x.wire /\ y.queue = x.queue /\ y.flushing = x.flushing
      /\ y.tools = x.tools /\ y.shown = x.shown /\ y.sent = x.sent /\ y.best = x.best
      /\ y.stage = x.stage /\ y.finished = x.finished /\ y.finalized = x.finalized
      /\ y.responded = x.responded /\ y.closed = x.closed /\ y.adapter = x.adapter
      /\ y.token = x.token
      /\ y.conn \in {x.conn, "ended"}
  BY DEF EndOfTask, Whole, Orderly, Fields
<1> HIDE DEF y
<1>2. Orderly(y) /\ Given(y) = Given(x) /\ (Open(y) => Open(x))
  BY <1>1 DEF Whole, Orderly, Given, Open
<1>3. Whole(y)
  BY <1>1, <1>2 DEF Whole, Running
<1>4. QED BY <1>3 DEF y

\* An action that runs one handler on one stream.
LEMMA RunSound ==
  ASSUME Sound, NEW s \in Streams, NEW y, Whole(y), Run(s, y)
  PROVE  Sound'
<1>1. Whole(EndOfTask(y))
  BY EndOfTaskWhole
<1>2. stream' = [stream EXCEPT ![s] = EndOfTask(y)]
  BY DEF Run
<1> DEFINE z == EndOfTask(y)
<1> HIDE DEF z
<1>3. /\ stream' = [t \in Streams |-> stream'[t]]
      /\ stream'[s] = z
      /\ \A t \in Streams \ {s} : stream'[t] = stream[t]
  BY <1>2 DEF Sound, z
<1>4. \A t \in Streams : Idle(stream'[t]) \/ Whole(stream'[t])
  BY <1>1, <1>3 DEF Sound, z
<1>5. QED BY <1>3, <1>4 DEF Sound

\* An action that changes one stream without a handler.
LEMMA StepSound ==
  ASSUME Sound, NEW s \in Streams, NEW y, Idle(y) \/ Whole(y),
         stream' = [stream EXCEPT ![s] = y]
  PROVE  Sound'
<1>1. /\ stream' = [t \in Streams |-> stream'[t]]
      /\ stream'[s] = y
      /\ \A t \in Streams \ {s} : stream'[t] = stream[t]
  BY DEF Sound
<1>2. \A t \in Streams : Idle(stream'[t]) \/ Whole(stream'[t])
  BY <1>1 DEF Sound
<1>3. QED BY <1>1, <1>2 DEF Sound

\* Nothing runs for a stream that has not started.
LEMMA IdleIsQuiet ==
  ASSUME NEW x, Idle(x)
  PROVE  /\ x.adapter = "off" /\ x.armed = {} /\ x.conn = "open" /\ ~x.flushing
         /\ x.token = "none"
         /\ x.stage # "streaming" /\ x.wire = <<>>
  BY DEF Idle, Fresh

\* What an action with a handler starts from.
LEMMA Busied ==
  ASSUME Sound, NEW s \in Streams,
         \/ stream[s].adapter # "off"
         \/ stream[s].armed # {}
         \/ stream[s].conn # "open"
         \/ stream[s].flushing
         \/ stream[s].stage = "streaming"
  PROVE  Whole(stream[s]) /\ Orderly(stream[s])
<1>1. ~Idle(stream[s])
  BY IdleIsQuiet
<1>2. QED BY <1>1 DEF Sound, Whole

\* The first frame is the role.
LEMMA StartWhole ==
  ASSUME NEW wantUsage,
         NEW y, y = Send([Fresh EXCEPT !.stage = "streaming", !.adapter = "setup",
                                       !.token = IF MaxConc = 0 THEN "none" ELSE "held",
                                       !.armed = {"request", "idle", "keepalive"},
                                       !.wantUsage = wantUsage], "role")
  PROVE  Whole(y)
<1> DEFINE x == [Fresh EXCEPT !.stage = "streaming", !.adapter = "setup",
                              !.token = IF MaxConc = 0 THEN "none" ELSE "held",
                              !.armed = {"request", "idle", "keepalive"},
                              !.wantUsage = wantUsage]
<1>1. /\ Fields \subseteq DOMAIN x
      /\ x.wire = <<>> /\ x.queue = <<>>
      /\ x.stage = "streaming" /\ x.conn = "open" /\ x.best = "none"
      /\ ~x.finished /\ ~x.finalized /\ ~x.closed /\ ~x.shown /\ ~x.flushing /\ ~x.full
      /\ x.token # "released"
  BY DEF Fresh, Fields
<1> HIDE DEF x
<1>2. y = Write(x, "role")
  BY <1>1 DEF Send, x
<1>3. y = [x EXCEPT !.wire = Append(@, "role"), !.flushing = x.full,
                    !.conn = IF "role" = "done" /\ ~x.full THEN "ending" ELSE @]
  BY <1>1, <1>2 DEF Write
<1>4. /\ Fields \subseteq DOMAIN y
      /\ y.wire = Append(<<>>, "role") /\ y.queue = <<>>
      /\ y.stage = "streaming" /\ y.conn = "open" /\ y.best = "none"
      /\ ~y.finished /\ ~y.finalized /\ ~y.closed /\ ~y.shown /\ y.token # "released"
  BY <1>1, <1>3 DEF Fields
<1>5. y.wire = <<"role">> /\ <<"role">> \in Seq(Frames) /\ <<>> \in Seq(Frames)
  BY <1>4 DEF Frames
<1>6. Given(y) = <<"role">>
  BY <1>4, <1>5, ConcatEmptySeq DEF Given
<1>7. DOMAIN <<"role">> = 1..1 /\ <<"role">>[1] = "role" /\ <<"role">> # <<>>
  OBVIOUS
<1>8. /\ Grammar(Given(y)) /\ ~In(Given(y), Ends)
      /\ ~In(Given(y), {"tools"}) /\ ~In(Given(y), ToolFrames)
  BY <1>6, <1>7 DEF Grammar, In, Ends, FinishReasons, ToolFrames
<1>9. QED BY <1>4, <1>5, <1>6, <1>7, <1>8 DEF Whole, Orderly, Open

\* A line is heard, and what was held back comes before what it brings.
LEMMA HearWhole ==
  ASSUME NEW x, Whole(x)
  PROVE  /\ Whole(Hear(x)) /\ Orderly(Hear(x))
         /\ Whole(Flush(x)) /\ Orderly(Flush(x))
         /\ \A r : Whole([x EXCEPT !.residue = r]) /\ Orderly([x EXCEPT !.residue = r])
         /\ \A A : Whole([x EXCEPT !.armed = @ \ A]) /\ Orderly([x EXCEPT !.armed = @ \ A])
         /\ Whole(SendText(x)) /\ Whole(SendTool(x)) /\ Whole(SendCall(x)) /\ Whole(Schedule(x))
<1>1. Orderly(x)
  BY DEF Whole
<1>2. /\ Ordinary(x, Hear(x)) /\ Ordinary(x, Flush(x))
      /\ \A r : Ordinary(x, [x EXCEPT !.residue = r])
      /\ \A A : Ordinary(x, [x EXCEPT !.armed = @ \ A])
      /\ Ordinary(x, SendText(x)) /\ Ordinary(x, SendTool(x)) /\ Ordinary(x, SendCall(x))
      /\ Ordinary(x, Schedule(x))
  BY <1>1, NotesAreOrdinary, FlushOrdinary, SendTextOrdinary, SendToolOrdinary,
     SendCallOrdinary
<1>3. QED BY <1>2, OrdinaryWhole DEF Ordinary

LEMMA TextSound ==
  ASSUME Sound, NEW s \in Streams, Text(s)
  PROVE  Sound'
<1>1. Whole(stream[s])
  BY Busied DEF Text, Line
<1>2. Whole(Schedule(SendText(Flush(Hear(stream[s])))))
  BY <1>1, HearWhole
<1>3. QED BY <1>2, RunSound DEF Text

LEMMA HoldSound ==
  ASSUME Sound, NEW s \in Streams, NEW what, Hold(s, what)
  PROVE  Sound'
<1>1. Whole(stream[s])
  BY Busied DEF Hold, Line
<1>2. Whole([Hear(stream[s]) EXCEPT !.residue = what])
  BY <1>1, HearWhole
<1>3. QED BY <1>2, RunSound DEF Hold

LEMMA ToolSound ==
  ASSUME Sound, NEW s \in Streams, NEW tail \in BOOLEAN, NEW now \in BOOLEAN, Tool(s, tail, now)
  PROVE  Sound'
<1> DEFINE heard == Hear(stream[s])
           Choices == IF heard.residue = "tool" THEN {[heard EXCEPT !.residue = "none"]}
                      ELSE {Flush(heard), heard}
           Tailed(r) == IF tail THEN Send(SendTool(r), "text") ELSE SendTool(r)
<1>1. Whole(heard)
  BY Busied, HearWhole DEF Tool, Line
<1>2. PICK ready \in Choices : Run(s, IF now THEN Cut(Tailed(ready)) ELSE Schedule(Tailed(ready)))
  BY DEF Tool
<1> HIDE DEF heard
<1>3. Whole(ready)
  BY <1>1, <1>2, HearWhole
<1>4. Whole(Tailed(ready))
  <2>1. Whole(SendTool(ready))
    BY <1>3, HearWhole
  <2>2. ASSUME tail PROVE Whole(Send(SendTool(ready), "text"))
    <3>1. ~StopAfterTools
      BY <2>2 DEF Tool
    <3>2. Ordinary(SendTool(ready), Send(SendTool(ready), "text"))
      BY <2>1, <3>1, PlainSends DEF Whole, ToolFrames
    <3>3. QED BY <2>1, <3>2, OrdinaryWhole
  <2>3. QED BY <2>1, <2>2
<1> HIDE DEF Choices, Tailed
<1>5. Whole(Cut(Tailed(ready))) /\ Whole(Schedule(Tailed(ready)))
  BY <1>4, CutWhole, HearWhole
<1>6. QED BY <1>2, <1>5, RunSound

LEMMA CallSound ==
  ASSUME Sound, NEW s \in Streams, NEW content \in BOOLEAN, Call(s, content)
  PROVE  Sound'
<1>1. Whole(stream[s])
  BY Busied DEF Call, Line
<1>2. Whole(SendCall(Hear(stream[s])))
  BY <1>1, HearWhole
<1>3. Whole(Schedule(SendText(Flush(SendCall(Hear(stream[s]))))))
  BY <1>2, HearWhole
<1>4. QED BY <1>2, <1>3, RunSound DEF Call

LEMMA CountSound ==
  ASSUME Sound, NEW s \in Streams, NEW reason \in {"none", "stop", "length"}, Count(s, reason)
  PROVE  Sound'
<1>1. Whole(Hear(stream[s]))
  BY Busied, HearWhole DEF Count, Line
<1>2. reason # "none" => Whole(Track(Hear(stream[s]), reason, 0))
  BY <1>1, TrackWhole DEF FinishReasons
<1>3. QED BY <1>1, <1>2, RunSound DEF Count

\* The result is for an adapter that is held, so finalizeStream has not run.
LEMMA TaskCompleteSound ==
  ASSUME Sound, NEW s \in Streams, NEW reason \in {"stop", "length"}, TaskComplete(s, reason)
  PROVE  Sound'
<1> DEFINE x == Hear(stream[s])
           t == Track(x, reason, 1)
           y == EmitFinish(t)
<1>1. Whole(stream[s]) /\ stream[s].adapter = "held"
  BY Busied DEF TaskComplete
<1>2. Whole(x)
  BY <1>1, HearWhole
<1>3. x.adapter = "held"
  BY <1>1 DEF Hear, Whole, Orderly, Fields
<1> HIDE DEF x
<1>4. ~x.finalized
  BY <1>2, <1>3 DEF Whole, Running
<1>5. Whole(t) /\ ~t.finalized
  <2>1. Ordinary(x, t)
    BY <1>2, NotesAreOrdinary DEF Whole, FinishReasons
  <2> HIDE DEF t
  <2>2. QED BY <1>2, <1>4, <2>1, OrdinaryWhole DEF Ordinary, SameFlags
<1> HIDE DEF t
<1>6. Ready(y) /\ ~y.finalized
  BY <1>5, WholeIsReady, EmitFinishReady
<1> HIDE DEF y
<1>7. Whole(Finalize(y, reason))
  BY <1>6, FinalizeWhole DEF FinishReasons
<1>8. QED BY <1>7, RunSound DEF TaskComplete, x, t, y

\* The exit is heard: what is held back is told, then the end.
LEMMA ExitSound ==
  ASSUME Sound, NEW s \in Streams, Exit(s)
  PROVE  Sound'
<1> DEFINE x       == stream[s]
           exited  == [x EXCEPT !.adapter = "exited"]
           flushed == Flush(exited)
           raw     == Send(flushed, "raw")
           told    == IF ~flushed.sent /\ flushed.out
                      THEN [raw EXCEPT !.sent = TRUE] ELSE flushed
           reason  == IF told.length THEN "length" ELSE "stop"
<1>1. Whole(x)
  BY Busied DEF Exit
<1>2. Whole(exited)
  <2>1. Silent(x, exited) /\ SameFlags(x, exited)
    BY <1>1 DEF Silent, SameFlags, Whole, Orderly, Fields, Running, Open
  <2>2. Ordinary(x, exited)
    BY <1>1, <2>1, SilentOrdinary DEF Whole
  <2> HIDE DEF x, exited
  <2>3. QED BY <1>1, <2>2, OrdinaryWhole
<1> HIDE DEF exited
<1>3. Whole(flushed) /\ Orderly(flushed)
  BY <1>2, HearWhole
<1> HIDE DEF flushed
<1>4. Whole(told)
  <2>1. ASSUME ~flushed.sent PROVE Whole([raw EXCEPT !.sent = TRUE])
    <3>1. ~flushed.shown
      BY <1>3, <2>1 DEF Orderly
    <3>2. Ordinary(flushed, raw)
      BY <1>3, <3>1, PlainSends DEF ToolFrames
    <3> HIDE DEF raw
    <3>3. Whole(raw)
      BY <1>3, <3>2, OrdinaryWhole
    <3>4. Ordinary(raw, [raw EXCEPT !.sent = TRUE])
      BY <3>3, NotesAreOrdinary DEF Whole
    <3>5. QED BY <3>3, <3>4, OrdinaryWhole
  <2>2. QED BY <1>3, <2>1
<1>5. told.finalized = flushed.finalized
  <2>1. flushed.sent \/ (raw.finalized = flushed.finalized /\ Orderly(raw))
    BY <1>3, PlainSends DEF Ordinary, SameFlags, Orderly, ToolFrames
  <2> HIDE DEF raw
  <2>2. QED BY <2>1 DEF Orderly, Fields
<1> HIDE DEF told
<1>6. ~flushed.finalized => Whole(Finalize(told, reason))
  BY <1>4, <1>5, WholeIsReady, FinalizeWhole DEF FinishReasons
<1>7. Run(s, IF flushed.finalized THEN flushed ELSE Finalize(told, reason))
  BY DEF Exit, exited, flushed, raw, told
<1> HIDE DEF reason
<1>8. QED BY <1>3, <1>6, <1>7, RunSound

LEMMA TimerSound ==
  ASSUME Sound, NEW s \in Streams, Timer(s)
  PROVE  Sound'
<1>1. Whole(stream[s])
  BY Busied DEF Timer, RequestTimer, IdleTimer, GraceTimer
<1>2. \A timer : Whole(Disarm(s, timer))
  BY <1>1, HearWhole DEF Disarm
<1>3. CASE RequestTimer(s)
  <2>1. Whole(Kill(ChildError(Disarm(s, "request"))))
    BY <1>2, ChildErrorWhole, KillWhole
  <2>2. QED BY <1>2, <1>3, <2>1, RunSound DEF RequestTimer
<1>4. CASE IdleTimer(s)
  <2> DEFINE y == Disarm(s, "idle")
             n == IF y.finalized THEN y ELSE Track(y, "length", 0)
  <2>1. Whole(n)
    BY <1>2, TrackWhole DEF FinishReasons
  <2>2. Run(s, Kill(n))
    BY <1>4 DEF IdleTimer
  <2> HIDE DEF n
  <2>3. QED BY <2>1, <2>2, KillWhole, RunSound
<1>5. CASE GraceTimer(s)
  <2>1. Whole(Cut(Disarm(s, "grace")))
    BY <1>2, CutWhole
  <2>2. QED BY <1>5, <2>1, RunSound DEF GraceTimer
<1>6. QED BY <1>3, <1>4, <1>5 DEF Timer

LEMMA KeepaliveSound ==
  ASSUME Sound, NEW s \in Streams, Keepalive(s)
  PROVE  Sound'
<1> DEFINE y == [stream[s] EXCEPT !.comments = @ + 1]
<1>1. Whole(stream[s])
  BY Busied DEF Keepalive
<1>2. Whole(y)
  <2>1. Silent(stream[s], y) /\ SameFlags(stream[s], y)
    BY <1>1 DEF Silent, SameFlags, Whole, Orderly, Fields, Running, Open
  <2>2. Ordinary(stream[s], y)
    BY <1>1, <2>1, SilentOrdinary DEF Whole
  <2> HIDE DEF y
  <2>3. QED BY <1>1, <2>2, OrdinaryWhole
<1> HIDE DEF y
<1>3. Whole(Send(y, "comment"))
  <2>1. Ordinary(y, Send(y, "comment"))
    BY <1>2, PlainSends DEF Whole, ToolFrames
  <2>2. QED BY <1>2, <2>1, OrdinaryWhole
<1>4. QED BY <1>3, RunSound DEF Keepalive, y

\* The queue is lost with the connection; what is on the wire stays.
LEMMA DisconnectSound ==
  ASSUME Sound, NEW s \in Streams, Disconnect(s)
  PROVE  Sound'
<1> DEFINE x == stream[s]
           y == [x EXCEPT !.conn = "gone", !.flushing = FALSE,
                          !.full = FALSE, !.queue = <<>>]
<1>1. Whole(x)
  BY Busied DEF Disconnect
<1>2. /\ Fields \subseteq DOMAIN y
      /\ y.wire = x.wire /\ y.queue = <<>> /\ y.conn = "gone"
      /\ y.tools = x.tools /\ y.shown = x.shown /\ y.sent = x.sent /\ y.best = x.best
      /\ y.stage = x.stage /\ y.finished = x.finished /\ y.finalized = x.finalized
      /\ y.responded = x.responded /\ y.closed = x.closed /\ y.adapter = x.adapter
      /\ y.token = x.token
  BY <1>1 DEF Whole, Orderly, Fields
<1>3. Run(s, Cleanup(y))
  BY DEF Disconnect
<1> HIDE DEF x, y
<1>4. Given(y) = x.wire /\ x.wire \in Seq(Frames) /\ <<>> \in Seq(Frames)
  BY <1>1, <1>2, ConcatEmptySeq, EmptySeq DEF Given, Whole, Orderly
<1>5. /\ Grammar(x.wire)
      /\ \A F : In(x.wire, F) => In(Given(x), F)
  <2> DEFINE v == x.wire
             q == x.queue
             n == Len(v \o q)
             m == Len(v)
  <2>1. v \in Seq(Frames) /\ q \in Seq(Frames) /\ Grammar(v \o q)
    BY <1>1 DEF Whole, Orderly, Given
  <2> HIDE DEF v, q
  <2>2. /\ DOMAIN v = 1..m /\ m \in Nat /\ DOMAIN (v \o q) = 1..n /\ n \in Nat /\ m <= n
        /\ \A i \in 1..m : v[i] = (v \o q)[i]
    BY <2>1, FirstOfTwo
  <2> DEFINE g == v \o q
  <2>3. Grammar(g) /\ DOMAIN g = 1..n /\ \A i \in 1..m : v[i] = g[i]
    BY <2>1, <2>2
  <2> HIDE DEF n, m, g
  <2>4. Grammar(v) /\ \A F : In(v, F) => In(g, F)
    BY <2>2, <2>3, PrefixKeepsGrammar
  <2>5. QED BY <2>4 DEF v, q, g, Given
<1>6. Orderly(y) /\ ~Open(y)
  BY <1>1, <1>2, <1>4, <1>5 DEF Whole, Orderly, Open
<1>7. Whole(y)
  BY <1>1, <1>2, <1>6 DEF Whole, Running
<1>8. QED BY <1>3, <1>6, <1>7, CleanupWhole, RunSound

LEMMA FinishedSound ==
  ASSUME Sound, NEW s \in Streams, Finished(s)
  PROVE  Sound'
<1>1. Whole(stream[s]) /\ ~Open(stream[s])
  BY Busied DEF Finished, Open
<1>2. QED BY <1>1, CleanupWhole, RunSound DEF Finished

LEMMA FillSound ==
  ASSUME Sound, NEW s \in Streams, Fill(s)
  PROVE  Sound'
<1> DEFINE y == [stream[s] EXCEPT !.full = TRUE, !.stalls = @ + 1]
<1>1. Whole(stream[s])
  BY Busied DEF Fill
<1>2. Whole(y)
  <2>1. Silent(stream[s], y) /\ SameFlags(stream[s], y)
    BY <1>1 DEF Silent, SameFlags, Whole, Orderly, Fields, Running, Open
  <2>2. Ordinary(stream[s], y)
    BY <1>1, <2>1, SilentOrdinary DEF Whole
  <2> HIDE DEF y
  <2>3. QED BY <1>1, <2>2, OrdinaryWhole
<1>3. stream' = [stream EXCEPT ![s] = y]
  BY DEF Fill, Sound
<1> HIDE DEF y
<1>4. QED BY <1>2, <1>3, StepSound

\* Frames go from the queue to the wire: what is given stays as it is.
LEMMA DrainSound ==
  ASSUME Sound, NEW s \in Streams, NEW n \in 0..Len(stream[s].queue), NEW again \in BOOLEAN,
         Drain(s, n, again)
  PROVE  Sound'
<1> DEFINE x    == stream[s]
           over == SubSeq(x.queue, 1, IF again THEN n - 1 ELSE n)
           done == \E i \in DOMAIN (x.wire \o over) : (x.wire \o over)[i] = "done"
           y    == [x EXCEPT !.wire = @ \o SubSeq(x.queue, 1, n),
                             !.queue = SubSeq(@, n + 1, Len(@)),
                             !.flushing = again, !.full = again,
                             !.stalls = IF again THEN @ + 1 ELSE @,
                             !.conn = IF done THEN "ended" ELSE @]
<1>1. /\ Whole(x) /\ x.conn = "open"
      /\ ~again => n = Len(x.queue)
      /\ stream' = [stream EXCEPT ![s] = y]
  BY Busied DEF Drain
<1> HIDE DEF done
<1>2. /\ DOMAIN y = DOMAIN x
      /\ y.wire = x.wire \o SubSeq(x.queue, 1, n)
      /\ y.queue = SubSeq(x.queue, n + 1, Len(x.queue))
      /\ y.flushing = again /\ y.conn \in {"open", "ended"}
      /\ y.tools = x.tools /\ y.shown = x.shown /\ y.sent = x.sent /\ y.best = x.best
      /\ y.stage = x.stage /\ y.finished = x.finished /\ y.finalized = x.finalized
      /\ y.responded = x.responded /\ y.closed = x.closed /\ y.adapter = x.adapter
      /\ y.token = x.token
  BY <1>1 DEF Whole, Orderly, Fields
<1> HIDE DEF y
<1>3. /\ y.wire \in Seq(Frames) /\ y.queue \in Seq(Frames) /\ y.wire # <<>>
      /\ Given(y) = Given(x)
      /\ ~again => y.queue = <<>>
  <2> DEFINE v == x.wire
             q == x.queue
             a == SubSeq(q, 1, n)
             b == SubSeq(q, n + 1, Len(q))
  <2>1. v \in Seq(Frames) /\ q \in Seq(Frames) /\ v # <<>> /\ n \in 0..Len(q)
    BY <1>1 DEF Whole, Orderly
  <2>2. y.wire = v \o a /\ y.queue = b /\ (~again => n = Len(q))
    BY <1>1, <1>2
  <2>3. Given(x) = v \o q
    BY DEF Given
  <2> HIDE DEF v, q
  <2>4. Len(q) \in Nat /\ n \in Nat /\ n <= Len(q) /\ DOMAIN q = 1..Len(q)
    BY <2>1, LenProperties
  <2>5. a \in Seq(Frames) /\ b \in Seq(Frames)
    BY <2>1, <2>4, SubSeqProperties
  <2>6. q = a \o b
    <3>1. q = SubSeq(q, 1, Len(q))
      BY <2>1, SubSeqFull
    <3>2. 1 \in 1..(Len(q) + 1) /\ n \in (1 - 1)..Len(q) /\ Len(q) \in n..Len(q)
      BY <2>4
    <3>3. a \o b = SubSeq(q, 1, Len(q))
      BY <2>1, <3>2, ConcatAdjacentSubSeq
    <3>4. QED BY <3>1, <3>3
  <2> HIDE DEF a, b
  <2>7. (v \o a) \o b = v \o q
    BY <2>1, <2>5, <2>6, ConcatAssociative
  <2>8. v \o a \in Seq(Frames) /\ v \o a # <<>>
    BY <2>1, <2>5, ConcatProperties, ConcatEqualIffEmpty
  <2>9. ~again => b = <<>>
    BY <2>1, <2>2, <2>4 DEF b
  <2>10. QED BY <2>2, <2>3, <2>5, <2>7, <2>8, <2>9 DEF Given
<1>4. Orderly(y) /\ Open(x)
  BY <1>1, <1>2, <1>3 DEF Whole, Orderly, Open
<1>5. Whole(y)
  BY <1>1, <1>2, <1>3, <1>4 DEF Whole, Running
<1>6. QED BY <1>1, <1>5, StepSound

-----------------------------------------------------------------------------
(* The invariant.                                                           *)

LEMMA InitSound == Init => Sound
  BY DEF Init, Sound, Idle

LEMMA NextSound == Sound /\ [Next]_vars => Sound'
<1> SUFFICES ASSUME Sound, [Next]_vars PROVE Sound'
  OBVIOUS
<1>1. CASE UNCHANGED vars
  BY <1>1 DEF Sound, vars
<1>2. ASSUME NEW s \in Streams, Reject(s) \/ Busy(s) PROVE Sound'
  <2>1. stream[s] = Fresh
    <3>1. stream[s].stage = "new"
      BY <1>2 DEF Reject, Busy
    <3>2. QED BY <3>1 DEF Sound, Whole, Idle, Fresh
  <2>2. stream' = [stream EXCEPT ![s] = [Fresh EXCEPT !.stage = "refused"]]
    BY <1>2, <2>1 DEF Reject, Busy
  <2>3. Idle([Fresh EXCEPT !.stage = "refused"])
    BY DEF Idle
  <2>4. QED BY <2>2, <2>3, StepSound
<1>3. ASSUME NEW s \in Streams, NEW wantUsage \in BOOLEAN, Start(s, wantUsage) PROVE Sound'
  <2> DEFINE y == Send([Fresh EXCEPT !.stage = "streaming", !.adapter = "setup",
                                     !.token = IF MaxConc = 0 THEN "none" ELSE "held",
                                     !.armed = {"request", "idle", "keepalive"},
                                     !.wantUsage = wantUsage], "role")
  <2>1. stream[s] = Fresh
    <3>1. stream[s].stage = "new"
      BY <1>3 DEF Start
    <3>2. QED BY <3>1 DEF Sound, Whole, Idle, Fresh
  <2>2. stream' = [stream EXCEPT ![s] = y]
    BY <1>3, <2>1 DEF Start
  <2> HIDE DEF y
  <2>3. Whole(y)
    BY StartWhole DEF y
  <2>4. QED BY <2>2, <2>3, StepSound
<1>4. ASSUME NEW s \in Streams, SetUp(s) PROVE Sound'
  <2> DEFINE y == [stream[s] EXCEPT !.adapter = "held"]
  <2>1. Whole(stream[s]) /\ stream[s].adapter = "setup"
    BY <1>4, Busied DEF SetUp
  <2>2. Silent(stream[s], y) /\ SameFlags(stream[s], y)
    BY <2>1 DEF Silent, SameFlags, Whole, Orderly, Fields, Running, Open
  <2>3. Ordinary(stream[s], y)
    BY <2>1, <2>2, SilentOrdinary DEF Whole
  <2> HIDE DEF y
  <2>4. Whole(y)
    BY <2>1, <2>3, OrdinaryWhole
  <2>5. QED BY <1>4, <2>4, RunSound DEF SetUp, y
<1>5. ASSUME NEW s \in Streams, BackendLine(s) PROVE Sound'
  BY <1>5, TextSound, HoldSound, ToolSound, CallSound, CountSound, TaskCompleteSound
  DEF BackendLine
<1>6. ASSUME NEW s \in Streams, BackendEnds(s) PROVE Sound'
  <2>1. Whole(stream[s])
    BY <1>6, Busied DEF BackendEnds, Resolve, Fail
  <2>2. Whole(Shut(stream[s])) /\ Whole(Shut(ChildError(stream[s])))
    BY <2>1, KillWhole, ChildErrorWhole
  <2>3. QED BY <1>6, <2>2, RunSound DEF BackendEnds, Resolve, Fail
<1>7. QED
  BY <1>1, <1>2, <1>3, <1>4, <1>5, <1>6, ExitSound, TimerSound, KeepaliveSound,
     DisconnectSound, FinishedSound, FillSound, DrainSound DEF Next

\* Every stream is whole between two handlers: its frames, on the wire or still
\* queued, keep the grammar, and its flags know what they say.
THEOREM StreamSound == Spec => []Sound
  BY InitSound, NextSound, PTL DEF Spec

-----------------------------------------------------------------------------
(* What the client is told.                                                 *)

\* The wire is the beginning of what is given.
LEMMA WireKeepsGrammar ==
  ASSUME Sound, NEW s \in Streams
  PROVE  \/ stream[s].wire = <<>>
         \/ stream[s].wire \in Seq(Frames) /\ Grammar(stream[s].wire)
<1>1. CASE Idle(stream[s])
  BY <1>1, IdleIsQuiet
<1>2. CASE Whole(stream[s])
  <2> DEFINE v == stream[s].wire
             q == stream[s].queue
             g == v \o q
             n == Len(g)
             m == Len(v)
  <2>1. v \in Seq(Frames) /\ q \in Seq(Frames) /\ Grammar(g)
    BY <1>2 DEF Whole, Orderly, Given
  <2> HIDE DEF v, q
  <2>2. /\ DOMAIN v = 1..m /\ m \in Nat /\ DOMAIN g = 1..n /\ n \in Nat /\ m <= n
        /\ \A i \in 1..m : v[i] = g[i]
    BY <2>1, FirstOfTwo
  <2> HIDE DEF n, m, g
  <2>3. Grammar(v)
    BY <2>1, <2>2, PrefixKeepsGrammar
  <2>4. QED BY <2>1, <2>3 DEF v
<1>3. QED BY <1>1, <1>2 DEF Sound

LEMMA SoundGrammar == Sound => StreamGrammar
<1> SUFFICES ASSUME Sound, NEW s \in Streams
             PROVE  LET w == stream[s].wire
                    IN /\ \A i \in DOMAIN w : (w[i] = "role") <=> (i = 1)
                       /\ \A i, j \in Told(s) : i < j /\ w[i] \in Ends => w[j] \notin Ends
                       /\ \A i \in Told(s) : w[i] = "usage" =>
                            \E j \in 1..(i - 1) : w[j] \in FinishReasons
                       /\ (\E i \in DOMAIN w : w[i] = "done") => \E i \in Told(s) : w[i] \in Ends
  BY DEF StreamGrammar
<1> DEFINE w == stream[s].wire
<1>1. Told(s) = {i \in DOMAIN w : \A k \in 1..i : w[k] # "done"}
  BY DEF Told
<1>2. w = <<>> \/ (w \in Seq(Frames) /\ Grammar(w))
  BY WireKeepsGrammar
<1> HIDE DEF w
<1>3. CASE w = <<>>
  <2>1. DOMAIN w = {}
    BY <1>3
  <2>2. QED BY <1>1, <2>1 DEF w
<1>4. CASE w \in Seq(Frames) /\ Grammar(w)
  <2>1. \A i \in DOMAIN w : (w[i] = "role") <=> (i = 1)
    BY <1>4 DEF Grammar
  <2>2. \A i, j \in Told(s) : i < j /\ w[i] \in Ends => w[j] \notin Ends
    BY <1>1, <1>4 DEF Grammar
  <2>3. \A i \in Told(s) : w[i] = "usage" => \E j \in 1..(i - 1) : w[j] \in FinishReasons
    BY <1>1, <1>4 DEF Grammar
  <2>4. ASSUME NEW i \in DOMAIN w, w[i] = "done" PROVE \E j \in Told(s) : w[j] \in Ends
    <3>1. PICK j \in 1..(i - 1) : w[j] \in Ends /\ \A k \in 1..j : w[k] # "done"
      BY <1>4, <2>4 DEF Grammar
    <3>2. DOMAIN w = 1..Len(w) /\ Len(w) \in Nat
      BY <1>4, LenProperties
    <3>3. j \in Told(s)
      BY <1>1, <3>1, <3>2
    <3>4. QED BY <3>1, <3>3
  <2>5. QED BY <2>1, <2>2, <2>3, <2>4 DEF w
<1>5. QED BY <1>2, <1>3, <1>4

\* Every stream opens with the role and only then, has one end, tells usage after
\* its finish chunk, and [DONE] after an end (finalizeStream, onChildError).
THEOREM StreamGrammarHolds == Spec => []StreamGrammar
  BY StreamSound, SoundGrammar, PTL

\* After a tool call the end is "tool_calls", however the stream comes to it.
THEOREM ToolCallsEndWellHolds == Spec => []ToolCallsEndWell
<1>1. Sound => ToolCallsEndWell
  <2> SUFFICES ASSUME Sound, NEW s \in Streams,
                      NEW i \in DOMAIN stream[s].wire, NEW j \in DOMAIN stream[s].wire,
                      i < j, stream[s].wire[i] \in ToolFrames, stream[s].wire[j] \in Ends
               PROVE  stream[s].wire[j] = "tool_calls"
    BY DEF ToolCallsEndWell
  <2>1. stream[s].wire # <<>>
    OBVIOUS
  <2>2. QED BY <2>1, WireKeepsGrammar DEF Grammar
<1>2. QED BY <1>1, StreamSound, PTL

\* With PROXY_STOP_AFTER_TOOLS no text and no raw line follows a tool call that was
\* shown as a block; one told only as structured deltas it may follow.
THEOREM NoTextAfterBlockHolds == Spec => []NoTextAfterBlock
<1>1. Sound => NoTextAfterBlock
  <2> SUFFICES ASSUME Sound, StopAfterTools, NEW s \in Streams,
                      NEW i \in DOMAIN stream[s].wire, NEW j \in DOMAIN stream[s].wire,
                      i < j, stream[s].wire[i] = "tools"
               PROVE  stream[s].wire[j] \notin {"text", "raw"}
    BY DEF NoTextAfterBlock
  <2>1. stream[s].wire # <<>>
    OBVIOUS
  <2>2. QED BY <2>1, WireKeepsGrammar DEF Grammar
<1>2. QED BY <1>1, StreamSound, PTL

\* What a client is given after its token has come back follows a [DONE].
THEOREM NothingAfterReleaseHolds == Spec => NothingAfterRelease
<1>1. Sound /\ [Next]_vars =>
        [\A s \in Streams :
           stream[s].token = "released" /\ stream[s].conn = "open"
           /\ Len(stream'[s].wire) + Len(stream'[s].queue)
                > Len(stream[s].wire) + Len(stream[s].queue)
           => \E i \in DOMAIN (stream[s].wire \o stream[s].queue) :
                (stream[s].wire \o stream[s].queue)[i] = "done"]_vars
  <2>1. ASSUME Sound, NEW s \in Streams, stream[s].token = "released", stream[s].conn = "open"
        PROVE  \E i \in DOMAIN (stream[s].wire \o stream[s].queue) :
                 (stream[s].wire \o stream[s].queue)[i] = "done"
    <3>1. Whole(stream[s])
      BY <2>1, IdleIsQuiet DEF Sound
    <3>2. In(Given(stream[s]), {"done"})
      BY <2>1, <3>1 DEF Whole, Open
    <3>3. QED BY <3>2 DEF In, Given
  <2>2. QED BY <2>1
<1>2. QED BY <1>1, StreamSound, PTL DEF Spec, NothingAfterRelease
=============================================================================
