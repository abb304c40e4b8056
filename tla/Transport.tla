------------------------------ MODULE Transport ------------------------------
(***************************************************************************)
(* The JSON-RPC transport of the proxy: one event loop that multiplexes    *)
(* chat requests over the stdio of one app-server worker.  It is modelled  *)
(* with the adapter that drives it for each HTTP request and with the      *)
(* readiness flag of the supervisor, which the transport writes and which  *)
(* the requireWorkerReady middleware reads.                                *)
(*                                                                         *)
(*   src/src/services/transport/index.js          the transport            *)
(*   src/src/services/transport/child-adapter.js  one adapter per request  *)
(*   src/src/services/worker/supervisor.js        readiness, spawn, exit   *)
(*   src/src/middleware/worker-ready.js           the readiness gate       *)
(*                                                                         *)
(* The event loop.  A macrotask (a timer, an HTTP request, an exit event)  *)
(* runs when every promise continuation has run: Drained.  Lines of one    *)
(* stdout chunk are delivered in a row, so an action that handles a worker *)
(* line needs no Drained.  A continuation is an action of its own, enabled *)
(* when the promise it awaits has settled.                                 *)
(*                                                                         *)
(* An exception out of a timer or event callback, or a rejected promise    *)
(* with no handler, ends the Node process: crashed.  Nothing happens then. *)
(***************************************************************************)
EXTENDS Naturals, FiniteSets

CONSTANTS
  Requests,        \* chat requests, each with its adapter and request id
  MaxConcurrency,  \* WORKER_MAX_CONCURRENCY
  Gated,           \* are the callers behind requireWorkerReady?
  MaxSpawns,       \* bound: workers the supervisor launches
  MaxInits         \* bound: initialize calls the transport makes

ASSUME RequestsAssumption == IsFiniteSet(Requests)
ASSUME BoundsAssumption ==
  MaxConcurrency \in Nat /\ MaxSpawns \in Nat /\ MaxInits \in Nat /\ Gated \in BOOLEAN

VARIABLES
  crashed,     \* the process has ended on an uncaught error
  spawns,      \* workers launched so far
  child,       \* this.child: number of the attached worker, 0 for null
  listening,   \* conversations whose events the worker sends (external)
  readiness,   \* reason of the supervisor's readiness; ready iff "complete"
  hsDone,      \* handshakeCompleted, with handshakeData
  hsPromise,   \* initialize call behind handshakePromise, 0 for null
  initSeq,     \* initialize calls made so far
  inits,       \* initialize calls in this.pending
  pending,     \* the other entries of this.pending: <<method, request>>
  active,      \* activeRequests
  byRequest,   \* keys of contextsByRequest
  byConv,      \* keys of contextsByConversation: <<"client" or "server", r>>
  pc,          \* where the adapter's async #handleWrite stands
  hsOn,        \* the initialize call a request awaits, 0 for none
  settled,     \* the request's context: "none", "open", "resolved", "rejected"
  subscribed,  \* the context has a subscriptionId
  wired,       \* the adapter listens to the context and holds it
  closed,      \* adapter.closed
  result,      \* context.result is set
  final        \* context.finalMessage is set

workerVars  == <<spawns, child, listening>>
hsVars      == <<readiness, hsDone, hsPromise, initSeq, inits>>
tableVars   == <<active, byRequest, byConv>>
contextVars == <<settled, subscribed, wired, result, final>>
vars == <<crashed, workerVars, hsVars, pending, tableVars, pc, hsOn, contextVars, closed>>

Methods == {"newConversation", "addConversationListener", "sendUserTurn",
            "sendUserMessage", "removeConversationListener"}
Rpcs == Methods \X Requests

ReadyPcs == {"hsOk", "hsFail", "convOk", "convFail", "listenOk", "listenFail"}
Pcs == {"idle", "hsWait", "convWait", "listenWait", "running", "done"} \cup ReadyPcs

\* A promise this request awaits has settled and its continuation has not run.
HasContinuation(r) == pc[r] \in ReadyPcs \/ (pc[r] = "running" /\ settled[r] = "resolved")
Drained == \A r \in Requests : ~HasContinuation(r)

\* requireWorkerReady: isWorkerSupervisorReady() reads readiness.ready.
WorkerReady == readiness = "complete"

Capacity == IF MaxConcurrency >= 1 THEN MaxConcurrency ELSE 1

Init ==
  /\ crashed = FALSE
  /\ spawns = 0 /\ child = 0 /\ listening = {}
  /\ readiness = "not_started"
  /\ hsDone = FALSE /\ hsPromise = 0 /\ initSeq = 0 /\ inits = {}
  /\ pending = {}
  /\ active = 0 /\ byRequest = {} /\ byConv = {}
  /\ pc = [r \in Requests |-> "idle"]
  /\ hsOn = [r \in Requests |-> 0]
  /\ settled = [r \in Requests |-> "none"]
  /\ subscribed = [r \in Requests |-> FALSE]
  /\ wired = [r \in Requests |-> FALSE]
  /\ result = [r \in Requests |-> FALSE]
  /\ final = [r \in Requests |-> FALSE]
  /\ closed = [r \in Requests |-> FALSE]

-----------------------------------------------------------------------------
(* Effects shared by several handlers.                                      *)

\* ensureHandshake when no handshake is done or under way: a new initialize
\* call; recordHandshakePending is called before it is written.
NewInitialize ==
  /\ initSeq < MaxInits
  /\ initSeq' = initSeq + 1
  /\ inits' = inits \cup {initSeq + 1}
  /\ hsPromise' = initSeq + 1
  /\ readiness' = "pending"

\* The handshake promise of call n settles: who awaits it may go on.
Awaken(n, next) ==
  /\ pc' = [r \in Requests |-> IF pc[r] = "hsWait" /\ hsOn[r] = n THEN next ELSE pc[r]]
  /\ hsOn' = [r \in Requests |-> IF hsOn[r] = n THEN 0 ELSE hsOn[r]]

\* The part #completeContext and #failContext share: the context leaves both
\* maps, the slot is given back and the promise settles.
Settle(r, outcome) ==
  /\ settled' = [settled EXCEPT ![r] = outcome]
  /\ byRequest' = byRequest \ {r}
  /\ byConv' = byConv \ {<<"client", r>>, <<"server", r>>}
  /\ active' = IF active > 0 THEN active - 1 ELSE 0

\* #removeConversationListener: an RPC when the context has a subscription.
Removal(r) == IF subscribed[r] THEN {<<"removeConversationListener", r>>} ELSE {}

RpcsOf(r) == {p \in pending : p[2] = r}

\* #failContext on a context the adapter listens to: the "error" event closes
\* the adapter, and the rejected promise ends #handleWrite.
FailWired(r, rest) ==
  /\ Settle(r, "rejected")
  /\ pending' = rest \cup Removal(r)
  /\ closed' = [closed EXCEPT ![r] = TRUE]
  /\ pc' = [pc EXCEPT ![r] = "done"]
  /\ UNCHANGED <<crashed, subscribed>>

\* #failContext on a context nobody listens to: its emitter throws on "error"
\* and its promise has no rejection handler.
Crash == /\ crashed' = TRUE
         /\ UNCHANGED <<pending, tableVars, settled, subscribed, closed, pc>>

\* #failContext as its callers reach it; rest is what remains of pending.
Fail(r, rest) ==
  \/ /\ settled[r] = "open" /\ wired[r]
     /\ FailWired(r, rest)
  \/ /\ settled[r] = "open" /\ ~wired[r]
     /\ Crash
  \/ /\ settled[r] # "open"
     /\ pending' = rest
     /\ UNCHANGED <<crashed, tableVars, settled, subscribed, closed, pc>>

\* Mutant: cancelling gives back the slot of a context that has settled, too.
CancelAgain(r) ==
  /\ pending' = pending \ RpcsOf(r)
  /\ UNCHANGED subscribed
  /\ Settle(r, "rejected")

\* cancelContext of a wired context.  The loop over this.pending rejects every
\* call of the context; rejecting a turn or message call fails the context and
\* the removal call this adds is met by the same loop, so it is dropped too.
Cancel(r) ==
  LET calls   == RpcsOf(r)
      failing == \E p \in calls : p[1] \in {"sendUserTurn", "sendUserMessage"}
      dropped == \/ failing /\ settled[r] = "open"
                 \/ <<"removeConversationListener", r>> \in calls
  IN /\ pending' = (pending \ calls)
                     \cup (IF settled[r] = "open" /\ ~failing THEN Removal(r) ELSE {})
     /\ subscribed' = [subscribed EXCEPT ![r] = @ /\ ~dropped]
     /\ IF settled[r] = "open"
          THEN Settle(r, "rejected")
          ELSE UNCHANGED <<settled, tableVars>>

-----------------------------------------------------------------------------
(* Worker process events, as the supervisor emits them.                     *)

\* #onSpawn: attach, forget the old handshake, start a new one.
Spawn ==
  /\ ~crashed /\ Drained
  /\ child = 0 /\ spawns < MaxSpawns
  /\ spawns' = spawns + 1
  /\ child' = spawns + 1
  /\ hsDone' = FALSE
  /\ NewInitialize
  /\ UNCHANGED <<crashed, listening, pending, tableVars, pc, hsOn, contextVars, closed>>

\* Mutant: a ready line drops the handshake and leaves the readiness alone.
ReadyLineSilent ==
  /\ ~crashed /\ spawns > 0
  /\ hsDone' = FALSE /\ hsPromise' = 0
  /\ UNCHANGED <<crashed, workerVars, readiness, initSeq, inits, pending, tableVars, pc, hsOn,
                 contextVars, closed>>

\* A "ready" line: the supervisor emits "ready", the transport drops what it
\* knows of the handshake and calls ensureHandshake again.  The line may come
\* from the stdout of a worker that has exited: then there is no child.
ReadyLine ==
  /\ ~crashed /\ spawns > 0
  /\ hsDone' = FALSE
  /\ \/ child # 0 /\ NewInitialize
     \/ /\ child = 0
        /\ hsPromise' = 0 /\ readiness' = "failed"
        /\ UNCHANGED <<initSeq, inits>>
  /\ UNCHANGED <<crashed, workerVars, pending, tableVars, pc, hsOn, contextVars, closed>>

\* #onExit: every pending call is rejected and every live context failed.  The
\* loop over the contexts throws at the first one that nobody listens to.
Exit ==
  /\ ~crashed /\ Drained /\ child # 0
  /\ \/ /\ \E r \in byRequest : ~wired[r]
        /\ crashed' = TRUE
        /\ UNCHANGED <<workerVars, hsVars, pending, tableVars, pc, hsOn, contextVars, closed>>
     \/ /\ \A r \in byRequest : wired[r]
        /\ child' = 0 /\ listening' = {}
        /\ hsDone' = FALSE /\ hsPromise' = 0 /\ inits' = {}
        /\ readiness' = "worker_exit"
        /\ pending' = {}
        /\ active' = 0 /\ byRequest' = {} /\ byConv' = {}
        /\ settled' = [r \in Requests |-> IF r \in byRequest THEN "rejected" ELSE settled[r]]
        /\ subscribed' = [r \in Requests |-> FALSE]
        /\ closed' = [r \in Requests |-> closed[r] \/ r \in byRequest]
        /\ pc' = [r \in Requests |->
                    CASE r \in byRequest -> "done"
                      [] r \notin byRequest /\ pc[r] = "hsWait" -> "hsFail"
                      [] r \notin byRequest /\ pc[r] = "convWait" -> "convFail"
                      [] r \notin byRequest /\ pc[r] = "listenWait" -> "listenFail"
                      [] OTHER -> pc[r]]
        /\ hsOn' = [r \in Requests |-> 0]
        /\ UNCHANGED <<crashed, spawns, initSeq, wired, result, final>>

-----------------------------------------------------------------------------
(* The handshake.                                                           *)

InitializeOk(n) ==
  /\ ~crashed /\ n \in inits
  /\ hsDone' = TRUE /\ hsPromise' = 0
  /\ inits' = inits \ {n}
  /\ readiness' = "complete"
  /\ Awaken(n, "hsOk")
  /\ UNCHANGED <<crashed, workerVars, initSeq, pending, tableVars, contextVars, closed>>

\* Mutant: the failed handshake stays cached as handshakePromise.
RejectInitializeCached(n) ==
  /\ inits' = inits \ {n}
  /\ readiness' = "failed"
  /\ Awaken(n, "hsFail")
  /\ UNCHANGED <<crashed, workerVars, hsDone, hsPromise, initSeq, pending, tableVars, contextVars, closed>>

RejectInitialize(n) ==
  /\ hsPromise' = 0
  /\ inits' = inits \ {n}
  /\ readiness' = "failed"
  /\ Awaken(n, "hsFail")
  /\ UNCHANGED <<crashed, workerVars, hsDone, initSeq, pending, tableVars, contextVars, closed>>

InitializeError(n)   == ~crashed /\ n \in inits /\ RejectInitialize(n)
InitializeTimeout(n) == ~crashed /\ Drained /\ n \in inits /\ RejectInitialize(n)

-----------------------------------------------------------------------------
(* One request: adapter.#handleWrite, createChatRequest and what it awaits. *)

\* createChatRequest throws worker_unavailable or worker_busy.
Refuse(r) ==
  /\ ~crashed /\ Drained /\ pc[r] = "idle"
  /\ Gated => WorkerReady
  /\ child = 0 \/ active >= Capacity
  /\ pc' = [pc EXCEPT ![r] = "done"]
  /\ closed' = [closed EXCEPT ![r] = TRUE]
  /\ UNCHANGED <<crashed, workerVars, hsVars, pending, tableVars, hsOn, contextVars>>

\* Mutant: the capacity check is off by one.
StartOneMore(r) ==
  /\ ~crashed /\ Drained /\ pc[r] = "idle"
  /\ Gated => WorkerReady
  /\ child # 0 /\ hsDone /\ active <= Capacity
  /\ pc' = [pc EXCEPT ![r] = "hsOk"]
  /\ UNCHANGED <<crashed, workerVars, hsVars, pending, tableVars, hsOn, contextVars, closed>>

\* The capacity check passes; then createChatRequest awaits ensureHandshake.
\* The slot is not counted until the continuation runs (OpenContext).
Start(r) ==
  /\ ~crashed /\ Drained /\ pc[r] = "idle"
  /\ Gated => WorkerReady
  /\ child # 0 /\ active < Capacity
  /\ \/ /\ hsDone
        /\ pc' = [pc EXCEPT ![r] = "hsOk"]
        /\ UNCHANGED <<hsVars, hsOn>>
     \/ /\ ~hsDone /\ hsPromise # 0
        /\ pc' = [pc EXCEPT ![r] = "hsWait"]
        /\ hsOn' = [hsOn EXCEPT ![r] = hsPromise]
        /\ UNCHANGED hsVars
     \/ /\ ~hsDone /\ hsPromise = 0
        /\ NewInitialize
        /\ pc' = [pc EXCEPT ![r] = "hsWait"]
        /\ hsOn' = [hsOn EXCEPT ![r] = initSeq + 1]
        /\ UNCHANGED hsDone
  /\ UNCHANGED <<crashed, workerVars, pending, tableVars, contextVars, closed>>

\* The handshake failed: the adapter reports the error and closes.
HandshakeThrow(r) ==
  /\ ~crashed /\ pc[r] = "hsFail"
  /\ pc' = [pc EXCEPT ![r] = "done"]
  /\ closed' = [closed EXCEPT ![r] = TRUE]
  /\ UNCHANGED <<crashed, workerVars, hsVars, pending, tableVars, hsOn, contextVars>>

\* After the handshake: a context, its slot, and the newConversation call.
\* The adapter may have been killed meanwhile; the code does not look.
OpenContext(r) ==
  /\ ~crashed /\ pc[r] = "hsOk"
  /\ settled' = [settled EXCEPT ![r] = "open"]
  /\ byRequest' = byRequest \cup {r}
  /\ byConv' = byConv \cup {<<"client", r>>}
  /\ active' = active + 1
  /\ pending' = pending \cup {<<"newConversation", r>>}
  /\ pc' = [pc EXCEPT ![r] = "convWait"]
  /\ UNCHANGED <<crashed, workerVars, hsVars, hsOn, subscribed, wired, result, final, closed>>

\* Mutant: the conversation is left to the turn's answer to register.
SubscribeUnregistered(r) ==
  /\ ~crashed /\ pc[r] = "convOk"
  /\ pending' = pending \cup {<<"addConversationListener", r>>}
  /\ pc' = [pc EXCEPT ![r] = "listenWait"]
  /\ UNCHANGED <<crashed, workerVars, hsVars, tableVars, hsOn, contextVars, closed>>

\* newConversation returned an id: register it, subscribe to its events.
Subscribe(r) ==
  /\ ~crashed /\ pc[r] = "convOk"
  /\ byConv' = byConv \cup {<<"server", r>>}
  /\ pending' = pending \cup {<<"addConversationListener", r>>}
  /\ pc' = [pc EXCEPT ![r] = "listenWait"]
  /\ UNCHANGED <<crashed, workerVars, hsVars, active, byRequest, hsOn, contextVars, closed>>

\* Either call of #ensureConversation failed: createChatRequest fails the
\* context, which nobody listens to yet, and rethrows to the adapter.
SetupThrow(r) ==
  /\ ~crashed /\ pc[r] \in {"convFail", "listenFail"}
  /\ \/ /\ settled[r] = "open"
        /\ Crash
     \/ /\ settled[r] # "open"
        /\ pc' = [pc EXCEPT ![r] = "done"]
        /\ closed' = [closed EXCEPT ![r] = TRUE]
        /\ UNCHANGED <<crashed, pending, tableVars, settled, subscribed>>
  /\ UNCHANGED <<workerVars, hsVars, hsOn, wired, result, final>>

\* The listener is in place (with a subscription id or without): send the
\* turn; the adapter wires the context and sends the message, unless it was
\* killed during the setup, when it cancels the context.  That cancel rejects
\* the turn call inside a try block, so the throwing emitter does no harm.
SendTurn(r) ==
  /\ ~crashed /\ pc[r] = "listenOk"
  /\ \/ /\ ~closed[r]
        /\ \E s \in BOOLEAN : subscribed' = [subscribed EXCEPT ![r] = s]
        /\ pending' = pending \cup {<<"sendUserTurn", r>>, <<"sendUserMessage", r>>}
        /\ wired' = [wired EXCEPT ![r] = TRUE]
        /\ pc' = [pc EXCEPT ![r] = "running"]
        /\ UNCHANGED <<settled, tableVars>>
     \/ /\ closed[r]
        /\ pc' = [pc EXCEPT ![r] = "done"]
        /\ UNCHANGED <<wired, pending, subscribed>>
        /\ IF settled[r] = "open"
             THEN Settle(r, "rejected")
             ELSE UNCHANGED <<settled, tableVars>>
  /\ UNCHANGED <<crashed, workerVars, hsVars, hsOn, result, final, closed>>

\* Mutant: the adapter does not finalize.
FinishSilently(r) ==
  /\ ~crashed /\ pc[r] = "running" /\ settled[r] = "resolved"
  /\ pc' = [pc EXCEPT ![r] = "done"]
  /\ UNCHANGED <<crashed, workerVars, hsVars, pending, tableVars, hsOn, contextVars, closed>>

\* await context.promise resolved: the adapter finalizes with exit code 0.
Finish(r) ==
  /\ ~crashed /\ pc[r] = "running" /\ settled[r] = "resolved"
  /\ pc' = [pc EXCEPT ![r] = "done"]
  /\ closed' = [closed EXCEPT ![r] = TRUE]
  /\ UNCHANGED <<crashed, workerVars, hsVars, pending, tableVars, hsOn, contextVars>>

\* adapter.kill(): a client disconnect, an idle timer or the end of the
\* stream.  It runs in a macrotask, or inside the delivery of a worker event.
Kill(r) ==
  /\ ~crashed /\ pc[r] # "idle" /\ ~closed[r]
  /\ Drained \/ wired[r]
  /\ closed' = [closed EXCEPT ![r] = TRUE]
  /\ \/ /\ wired[r]
        /\ Cancel(r)
        /\ pc' = [pc EXCEPT ![r] = "done"]
     \/ /\ ~wired[r]
        /\ UNCHANGED <<pending, subscribed, settled, tableVars, pc>>
  /\ UNCHANGED <<crashed, workerVars, hsVars, hsOn, wired, result, final>>

\* Mutant: the result of sendUserMessage disarms the timer.
RequestTimeoutBeforeResult(r) ==
  /\ ~crashed /\ Drained /\ settled[r] = "open" /\ ~result[r]
  /\ Fail(r, pending)
  /\ UNCHANGED <<workerVars, hsVars, hsOn, wired, result, final>>

\* The RequestContext timer: armed when the context is created.
RequestTimeout(r) ==
  /\ ~crashed /\ Drained /\ settled[r] = "open"
  /\ Fail(r, pending)
  /\ UNCHANGED <<workerVars, hsVars, hsOn, wired, result, final>>

-----------------------------------------------------------------------------
(* Answers to the calls of a request, and their timers.  An answer to a     *)
(* call that is no longer pending is ignored, so it has no action.          *)

\* Mutant: the answered call stays in this.pending.
ConversationCreatedKept(r) ==
  /\ ~crashed /\ <<"newConversation", r>> \in pending
  /\ pc' = [pc EXCEPT ![r] = "convOk"]
  /\ UNCHANGED <<crashed, workerVars, hsVars, pending, tableVars, hsOn, contextVars, closed>>

ConversationCreated(r) ==
  /\ ~crashed /\ <<"newConversation", r>> \in pending
  /\ pending' = pending \ {<<"newConversation", r>>}
  /\ pc' = [pc EXCEPT ![r] = "convOk"]
  /\ UNCHANGED <<crashed, workerVars, hsVars, tableVars, hsOn, contextVars, closed>>

ListenerAdded(r) ==
  /\ ~crashed /\ <<"addConversationListener", r>> \in pending
  /\ pending' = pending \ {<<"addConversationListener", r>>}
  /\ pc' = [pc EXCEPT ![r] = "listenOk"]
  /\ listening' = listening \cup {r}
  /\ UNCHANGED <<crashed, spawns, child, hsVars, tableVars, hsOn, contextVars, closed>>

\* With the conversation's id in the answer the key is set again, even when
\* the context has settled since.
TurnAccepted(r) ==
  /\ ~crashed /\ <<"sendUserTurn", r>> \in pending
  /\ pending' = pending \ {<<"sendUserTurn", r>>}
  /\ byConv' \in {byConv, byConv \cup {<<"server", r>>}}
  /\ UNCHANGED <<crashed, workerVars, hsVars, active, byRequest, pc, hsOn, contextVars, closed>>

\* Mutant: completion does not look whether the context has settled.
CompleteAgain(r, res, fin, rest) ==
  /\ result' = [result EXCEPT ![r] = res]
  /\ final' = [final EXCEPT ![r] = fin]
  /\ \/ res /\ fin /\ Settle(r, "resolved") /\ pending' = rest \cup Removal(r)
     \/ ~(res /\ fin) /\ pending' = rest /\ UNCHANGED <<settled, tableVars>>
  /\ UNCHANGED <<crashed, subscribed, closed, pc>>

\* #scheduleCompletionCheck after the context got res and fin: both are needed.
\* With only one, the context waits on (the grace timer just checks again).
\* A settled context's fields are not read again and are left alone.
CompleteIfBoth(r, res, fin, rest) ==
  /\ result' = [result EXCEPT ![r] = IF settled[r] = "open" THEN res ELSE @]
  /\ final' = [final EXCEPT ![r] = IF settled[r] = "open" THEN fin ELSE @]
  /\ \/ /\ res /\ fin /\ settled[r] = "open"
        /\ Settle(r, "resolved")
        /\ pending' = rest \cup Removal(r)
     \/ /\ ~(res /\ fin /\ settled[r] = "open")
        /\ pending' = rest
        /\ UNCHANGED <<settled, tableVars>>
  /\ UNCHANGED <<crashed, subscribed, closed, pc>>

\* An answer without a result overwrites what task_complete had set.
MessageAnswered(r) ==
  /\ ~crashed /\ <<"sendUserMessage", r>> \in pending
  /\ \E res \in BOOLEAN :
       CompleteIfBoth(r, res, final[r], pending \ {<<"sendUserMessage", r>>})
  /\ UNCHANGED <<workerVars, hsVars, hsOn, wired>>

ListenerRemoved(r) ==
  /\ ~crashed /\ <<"removeConversationListener", r>> \in pending
  /\ pending' = pending \ {<<"removeConversationListener", r>>}
  /\ subscribed' = [subscribed EXCEPT ![r] = FALSE]
  /\ listening' = listening \ {r}
  /\ UNCHANGED <<crashed, spawns, child, hsVars, tableVars, pc, hsOn, settled, wired,
                 result, final, closed>>

\* A pending call is rejected, by an error answer or by its timer.
RejectRpc(m, r) ==
  LET rest == pending \ {<<m, r>>} IN
  /\ <<m, r>> \in pending
  /\ \/ /\ m \in {"newConversation", "addConversationListener"}
        /\ pending' = rest
        /\ pc' = [pc EXCEPT ![r] = IF m = "newConversation" THEN "convFail" ELSE "listenFail"]
        /\ UNCHANGED <<crashed, tableVars, settled, subscribed, closed>>
     \/ /\ m \in {"sendUserTurn", "sendUserMessage"}
        /\ Fail(r, rest)
     \/ /\ m = "removeConversationListener"
        /\ pending' = rest
        /\ subscribed' = [subscribed EXCEPT ![r] = FALSE]
        /\ UNCHANGED <<crashed, tableVars, settled, closed, pc>>
  /\ UNCHANGED <<workerVars, hsVars, hsOn, wired, result, final>>

RpcError(m, r)   == ~crashed /\ RejectRpc(m, r)
RpcTimeout(m, r) == ~crashed /\ Drained /\ RejectRpc(m, r)

-----------------------------------------------------------------------------
(* Notifications.                                                           *)

\* #resolveContext: the context registered for the conversation, else the
\* only active request.
Targets(c) == IF <<"server", c>> \in byConv THEN {c}
              ELSE IF Cardinality(byRequest) = 1 THEN byRequest ELSE {}

\* A notification of conversation c reaches context r.
Hear(c, r) ==
  /\ ~crashed /\ c \in listening
  /\ r \in Targets(c)
  /\ UNCHANGED <<workerVars, hsVars, hsOn, wired>>

\* agent_message, task_complete and item/completed; both flags FALSE stand
\* for deltas, token counts and methods the transport does not know.
Progress(c, r, res, fin) ==
  /\ Hear(c, r)
  /\ CompleteIfBoth(r, result[r] \/ res, final[r] \/ fin, pending)

\* requestTimeout.
WorkerTimeout(c, r) ==
  /\ Hear(c, r)
  /\ Fail(r, pending)
  /\ UNCHANGED <<result, final>>

\* An error notification that asks for authentication: the adapter cancels
\* the context it holds (PROXY_AUTH_LOGIN_URL off); #failContext's "error"
\* event then closes the adapter.
AuthRequired(c, r) ==
  /\ Hear(c, r)
  /\ wired[r]
  /\ Cancel(r)
  /\ closed' = [closed EXCEPT ![r] = @ \/ settled[r] = "open"]
  /\ pc' = [pc EXCEPT ![r] = IF settled[r] = "open" THEN "done" ELSE @]
  /\ UNCHANGED <<crashed, result, final>>

-----------------------------------------------------------------------------

Continuation(r) ==
  HandshakeThrow(r) \/ OpenContext(r) \/ Subscribe(r) \/ SetupThrow(r) \/ SendTurn(r) \/ Finish(r)

Answer(r) ==
  \/ ConversationCreated(r) \/ ListenerAdded(r) \/ TurnAccepted(r)
  \/ MessageAnswered(r) \/ ListenerRemoved(r)
  \/ \E m \in Methods : RpcError(m, r)

Timer(r) == RequestTimeout(r) \/ \E m \in Methods : RpcTimeout(m, r)

Notification(c, r) ==
  \/ \E res, fin \in BOOLEAN : Progress(c, r, res, fin)
  \/ WorkerTimeout(c, r)
  \/ AuthRequired(c, r)

Next ==
  \/ Spawn \/ ReadyLine \/ Exit
  \/ \E n \in 1..MaxInits : InitializeOk(n) \/ InitializeError(n) \/ InitializeTimeout(n)
  \/ \E r \in Requests : Refuse(r) \/ Start(r) \/ Continuation(r) \/ Kill(r) \/ Answer(r) \/ Timer(r)
  \/ \E c, r \in Requests : Notification(c, r)

\* Timers fire and promise continuations run; the worker owes nothing.
Fairness ==
  /\ \A n \in 1..MaxInits : WF_vars(InitializeTimeout(n))
  /\ \A r \in Requests : WF_vars(Continuation(r)) /\ WF_vars(Timer(r))

Spec == Init /\ [][Next]_vars
FairSpec == Spec /\ Fairness

-----------------------------------------------------------------------------
(* Properties.                                                              *)

\* Every variable has its type.
TypeOK ==
  /\ crashed \in BOOLEAN
  /\ spawns \in Nat /\ child \in Nat /\ listening \subseteq Requests
  /\ readiness \in {"not_started", "pending", "complete", "failed", "worker_exit"}
  /\ hsDone \in BOOLEAN /\ hsPromise \in Nat /\ initSeq \in Nat /\ inits \subseteq Nat
  /\ pending \subseteq Rpcs
  /\ active \in Nat /\ byRequest \subseteq Requests
  /\ byConv \subseteq {"client", "server"} \X Requests
  /\ pc \in [Requests -> Pcs] /\ hsOn \in [Requests -> Nat]
  /\ settled \in [Requests -> {"none", "open", "resolved", "rejected"}]
  /\ subscribed \in [Requests -> BOOLEAN] /\ wired \in [Requests -> BOOLEAN]
  /\ result \in [Requests -> BOOLEAN] /\ final \in [Requests -> BOOLEAN]
  /\ closed \in [Requests -> BOOLEAN]

\* The slot counter is the number of live contexts: on every path (completion,
\* failure, cancel, worker exit) a slot is given back once.  The code keeps the
\* number and the map apart and clamps the number at 0, which would hide a
\* double release.
SlotAccounting ==
  /\ byRequest = {r \in Requests : settled[r] = "open"}
  /\ active = Cardinality(byRequest)

\* The worker never has more than WORKER_MAX_CONCURRENCY live contexts.  The
\* check (index.js:364) and the increment (index.js:386) are separated by an
\* await: that is safe only while the handshake is already done.
CapacityRespected == active <= Capacity

\* The gate is open only while the attached worker has completed a handshake:
\* the supervisor's readiness and the transport's handshake state are kept in
\* two objects and changed by exits, spawns, late answers and timers.
ReadyMeansHandshake == WorkerReady => hsDone /\ child # 0

\* No request is stranded: what its adapter awaits is still pending at the
\* transport, so that an answer, an error, a timer or the exit will wake it.
NobodyStranded ==
  \A r \in Requests :
    /\ pc[r] = "hsWait" => hsOn[r] \in inits
    /\ pc[r] = "convWait" => <<"newConversation", r>> \in pending
    /\ pc[r] = "listenWait" => <<"addConversationListener", r>> \in pending

\* A killed request keeps its slot only while its setup calls are under way.
KilledSlotsAreSettingUp ==
  \A r \in byRequest : closed[r] => pc[r] \notin {"idle", "running", "done"}

\* A context settles once: no late answer, timer, exit or cancel changes the
\* outcome the adapter has been told.
OutcomeIsFinal ==
  [][\A r \in Requests : settled[r] \in {"resolved", "rejected"} => settled'[r] = settled[r]]_vars

\* The events of a live request's conversation reach that request, however
\* many others are live: the conversation's key is registered before the worker
\* is asked for its events and is dropped only with the request itself.  The
\* fallback of #resolveContext hides a missing key from a request that is alone.
LiveHearsItself ==
  \A r \in listening : settled[r] = "open" => Targets(r) = {r}

\* Every request that was started ends: its adapter closes (or the process dies).
EveryRequestEnds == \A r \in Requests : pc[r] # "idle" ~> closed[r] \/ crashed

\* Every slot is given back, whatever the worker and the client do.
EverySlotIsFreed == \A r \in Requests : r \in byRequest ~> r \notin byRequest \/ crashed

-----------------------------------------------------------------------------
(* The inductive invariant behind SlotAccounting, CapacityRespected,        *)
(* ReadyMeansHandshake, NobodyStranded, KilledSlotsAreSettingUp and         *)
(* LiveHearsItself.                                                         *)

SettingUp == {"convWait", "convOk", "convFail", "listenWait", "listenOk", "listenFail"}

\* How far the adapter is tells what its context can be.
PhaseConsistent ==
  \A r \in Requests :
    /\ pc[r] \in {"idle", "hsWait", "hsOk", "hsFail"} => settled[r] = "none"
    /\ settled[r] = "open" => pc[r] \in SettingUp \cup {"running"}
    /\ wired[r] => pc[r] \in {"running", "done"}
    /\ pc[r] = "running" => wired[r]
    /\ pc[r] = "running" /\ settled[r] = "open" => ~closed[r]

\* A setup call is pending exactly while its caller waits for it.
SetupCallsAwaited ==
  \A r \in Requests :
    /\ pc[r] = "convWait" <=> <<"newConversation", r>> \in pending
    /\ pc[r] = "listenWait" <=> <<"addConversationListener", r>> \in pending

\* Only an attached worker has handshakes, and waiters wait for live ones.
HandshakeConsistent ==
  /\ ReadyMeansHandshake
  /\ child = 0 => inits = {}
  /\ hsPromise # 0 => hsPromise \in inits
  /\ \A r \in Requests : pc[r] = "hsWait" => hsOn[r] \in inits

\* From its first event call to its end a request has its conversation's key.
ConversationKnown(r) ==
  /\ settled[r] = "open" /\ pc[r] \in {"listenWait", "listenOk", "listenFail", "running"}
       => <<"server", r>> \in byConv
  /\ r \in listening => pc[r] \in {"listenOk", "running", "done"}
ConversationsKnown == \A r \in Requests : ConversationKnown(r)

\* Behind the gate nobody waits for a handshake, and between the capacity
\* check and the increment there is one request, with a slot left for it.
GatedAdmission ==
  Gated => /\ active <= Capacity
           /\ \A r \in Requests : pc[r] # "hsWait"
           /\ \A r \in Requests : pc[r] = "hsOk" => active < Capacity
           /\ \A r, q \in Requests : pc[r] = "hsOk" /\ pc[q] = "hsOk" => r = q

\* The inductive invariant: slots, phases, calls, handshake, conversations and
\* admission.
InductiveInvariant ==
  /\ TypeOK /\ SlotAccounting /\ PhaseConsistent /\ SetupCallsAwaited
  /\ HandshakeConsistent /\ ConversationsKnown /\ GatedAdmission

-----------------------------------------------------------------------------
(* What the repository says of the program and the code does not keep.      *)

\* A worker exit or a request timeout is an error for the requests in flight,
\* not the end of the proxy.
ProxySurvives == ~crashed

\* A request is given notifications of its own conversation only.
OwnConversationOnly ==
  \A c \in listening, r \in Requests : r \in Targets(c) => c = r

\* With a handshake done and none under way, the readiness flag says so.
ReadinessMirrorsHandshake == hsDone /\ inits = {} => WorkerReady

=============================================================================
