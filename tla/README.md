# TLA+ models of codex-completions-api

This directory holds TLA+ specifications of the parts of the proxy where
concurrency, failure and timing decide whether it is correct: TLC configurations
that check them on small instances, and TLAPS proofs of what matters most for
every value of the constants. `PROJECT.json` lists the runs, the mutants that
show that each property can fail, the lines each definition models, the hazards
and the theorems.

## The system

codex-completions-api is an OpenAI-compatible HTTP proxy (Node.js, Express). It
keeps one long-lived `codex app-server` process, the *worker*, and translates
each chat or responses request into JSON-RPC calls on the worker's stdin; the
worker's stdout carries answers and notifications back, which become JSON or
server-sent events. Everything runs on one event loop, so the hard part is not
data races but what may happen *between* two callbacks: at each `await`, timer,
`exit` event and line of stdout another request, the supervisor or the client may
have changed the state that the next line relies on.

```
 client ──HTTP──> app / routes ──> requireWorkerReady ──> chat handlers
                                        │ reads             │ stdin.write, kill
                                        ▼                   ▼
  supervisor ── spawn / exit / ready ─> transport <── child adapter (one per request)
      │  ▲          events                │  ▲
      │  └──── readiness (handshake) ─────┘  │ JSON-RPC lines
      └── spawn, SIGTERM, SIGKILL ──> worker process
```

### Inventory

| Component | Source | State it keeps | Operations | Hard behaviour | What makes it correct |
|---|---|---|---|---|---|
| JSON-RPC transport | `services/transport/index.js` | attached child, handshake, table of pending calls, contexts by request and by conversation, slot counter | `ensureHandshake`, `createChatRequest`, `sendUserMessage`, `cancelContext`, spawn / exit / ready / line handlers, timers | check-then-await admission, settle once, exit during setup, late answers, fallback routing | slots = live contexts ≤ capacity; outcomes final; nobody waits for nothing; every slot comes back |
| Child adapter | `services/transport/child-adapter.js` | context, `closed`, `started` | `stdin.write`, `kill`, wiring, finalize | kill while the setup is awaited | exactly one exit; a killed request gives back its slot |
| Supervisor | `services/worker/supervisor.js`, `server.js` | child, restart count, back-off, restart timer, readiness, liveness | `start`, `shutdown`, `#launch`, `#handleExit`, handshake records, ready watcher | restart timer vs. exit vs. shutdown vs. watcher of an earlier worker | one worker; bounded restarts; no launch during a shutdown; shutdown ends |
| Readiness gate | `middleware/worker-ready.js` | none (reads the supervisor) | admit or 503 | reads a flag two objects write | open only with a handshake |
| Chat stream handler | `handlers/chat/stream*.js` | finish flags, timers, guard, choices, usage | child events, idle timer, disconnect, finish | error and exit both finish; timers armed after the end | one `[DONE]`, guard released once, child killed or ended |
| SSE writer | `services/sse.js` | write queue, drain state, keep-alive | send, flush, finish | finish while waiting for drain | order kept, nothing after the end |
| Concurrency guard | `services/concurrency-guard.js` | counter of active streams | acquire, release | double release, clamp at 0 | counter = holders ≤ limit |
| Chat non-stream handler | `handlers/chat/nonstream.js`, `request.js`, `shared.js` | choices, timers, `responded` | checks, child events, three timers, disconnect, `finalizeResponse` | timeout vs. exit vs. completion; a kill that runs the error listener inside | one answer and one log entry that agree; each choice told with its own |
| Tool-call aggregator | `lib/tool-call-aggregator.js` | calls by choice and ordinal | ingest delta, ingest message, snapshot | deltas of unknown ids, duplicates | the deltas of a call add up to its arguments |
| Tool buffer, stop-after-tools | `handlers/chat/tool-buffer.js`, `stream-output.js`, `stop-after-tools-controller.js` | open block, positions in the text, timer | feed, flush, trim, cut | a block cut anywhere; text and structured call of the same tool; timer vs. next delta | in order, once, no tag torn, nothing kept |
| Usage tracker | `handlers/chat/stream-usage-tracker.js` | counts, `emitted`, `logged` | resolve, emit, finalize | finalize twice | logged once |
| Responses adapter | `handlers/responses/stream-adapter.js`, `stream.js`, `nonstream.js` | its own aggregator, items, chain of writes; the transform of a whole answer | chat chunk → events, done, error | two queues to one socket; a second aggregator behind the first | well-bracketed events, one end, arguments that add up |
| Title intercept, codex-exec | `handlers/responses/title-summary-intercept.js`, `lib/title-intercept.js`, `services/codex-exec.js` | one short-lived process, its timer and its file | run, timeout, answer | timeout vs. exit vs. error vs. file | the answer fits; no process and no file left |
| Rate limit | `middleware/rate-limit.js` | window counters by key | take | window boundary | at most N per window |
| Configuration, routes, metrics, logging, capture, sanitizers, schema | the rest | constants or write-only | – | – | pure functions and output; not modelled |

## Plan

1. **Core (done)**: `Transport` with the adapter, the gate and the worker's
   events; `RequestService`, its abstract specification, with
   `TransportRefinement`; `Supervisor`; `TransportProofs` and
   `SupervisorProofs`, over `Induction`.
2. **Streams (done)**: `StreamSession`: the stream handler
   with its timers and finish paths, the SSE queue, the concurrency guard, the
   stop-after-tools cut, held-back text and tool blocks, and when usage is logged.
   Seen from the guard it implements `RequestService`. `StreamProofs`: the guard
   is exact and bounds the backend, the safety part of that refinement, and the
   order of a stream's frames.
3. **Whole answers (done)**: `NonstreamSession`, the handler that answers with
   one document, for both endpoints, and `NonstreamProofs`.
4. **Text and tools (done)**: `StreamText`, what a streamed choice shows of a text
   with tool blocks, on positions of the text as the code keeps them, and
   `StreamTextProofs`, for every text and every cut of it; `ToolCalls`,
   the aggregator; `ResponsesStream`, the typed events of `/v1/responses` behind
   two aggregators and the SSE queue, and `ResponsesProofs`; `Intercept`, the requests that a one-shot
   `codex exec` answers, and `InterceptProofs`.
5. **Transport implements its service (done)**: `TransportProofs`, for the safety
   part of `RequestService`.
6. **Left, models**: several choices in one stream; `Supervisor` and `Transport`
   composed over the readiness flag, in place of the abstraction each makes of
   the other.
7. **Arguments (done)**: `ResponsesProofs`, for `ArgumentsAddUp`: as long as no
   fragment looks like what came before, no token of a call's arguments is lost or
   told twice behind the two aggregators. With it every safety property that a
   passing run checks has its theorem.
8. **Left, proofs**: nothing that the prover reaches; the liveness properties stay with TLC.

Runs are kept few and each asks one question; properties are in the modules they
are about, next to what the repository says and the code does not keep.

## Modules

### Conventions

A macrotask of the event loop (a timer, an HTTP request, an exit event) runs only
when all promise continuations have run; the guard `Drained` says so. The lines of
one chunk of stdout are delivered in a row by `readline`, with no turn for
continuations in between, so actions for worker lines do not require `Drained`.
A promise continuation is an action of its own. An error that escapes a timer or
event callback, or a rejection nobody handles, ends a Node process: `crashed`.

A comment `Mutant:` precedes an operator that is not part of the specification:
it is a definition with a plausible bug, used to show that a property is able to
fail.

### `Transport`

| State | Code |
|---|---|
| `child`, `spawns`, `listening` | `this.child`, the number of workers so far, the conversations the worker has listeners for |
| `readiness` | the supervisor's `health.readiness.reason`; ready iff `handshake_complete` |
| `hsDone`, `hsPromise`, `inits`, `initSeq` | `handshakeCompleted`/`handshakeData`, the call behind `handshakePromise`, initialize calls in `this.pending`, all so far |
| `pending` | the other entries of `this.pending`, as ⟨method, request⟩ |
| `active`, `byRequest`, `byConv` | `activeRequests`, keys of the two context maps |
| `pc`, `hsOn` | where `#handleWrite` stands, and which handshake it awaits |
| `settled`, `subscribed`, `result`, `final` | the `RequestContext` |
| `wired`, `closed` | the adapter |

`Start`/`Refuse` are `createChatRequest` up to its first await; `OpenContext`,
`Subscribe`, `SendTurn`, `SetupThrow`, `HandshakeThrow` and `Finish` the
continuations of the awaits of `createChatRequest`, `#ensureConversation` and
`#handleWrite`; `Kill` is `adapter.kill()`. `ConversationCreated`,
`ListenerAdded`, `TurnAccepted`, `MessageAnswered`, `ListenerRemoved`,
`RpcError`, `RpcTimeout` are the ends of a pending call; `RequestTimeout` the
context's own timer; `Progress`, `WorkerTimeout`, `AuthRequired` the
notifications. `Spawn`, `ReadyLine`, `Exit` and `Initialize*` are the worker and
its handshake. `Fail` is `#failContext` with its three outcomes: the context is
already settled (nothing), an adapter listens (it closes), nobody listens (the
emitter throws and the process ends).

Left out: the `signal` and `conversationId` branches (no caller in `src/` passes
them), `destroy()` (only tests call it), `getAuthLoginDetails` with
`PROXY_AUTH_LOGIN_URL`, the auth error after the adapter was killed, rpc ids
(a pending call is identified by its method and request), and write errors on
the worker's stdin: the transport has no child after an exit, and `#write` to a
destroyed pipe does not throw.

### `RequestService`, `TransportRefinement`

`RequestService` is what the HTTP handlers rely on: a request is refused or takes
one of `Limit` slots, and whoever holds a slot is answered or failed, once, while
the process lives. `TransportRefinement` maps the transport to it: a request is
active from the moment it passes the capacity check, *before* `activeRequests` is
incremented. That is why the refinement holds only behind the gate.

### `Supervisor`

One variable per field of `state` that decides anything, plus the processes
(`alive`, `unborn`, `doomed`), the watchers that still poll (`watchers`) or wait
for their SIGKILL (`condemned`), and the exit that `shutdown()` awaits
(`stopping`, `inGrace`). Workers are numbered by launch, so that a watcher of an
earlier worker and the current child are told apart. Time is left out: an armed
timer may fire at any moment; only the *length* of the restart delay is kept.
`asking` counts the transport's initialize calls, as far as they move the
readiness. `Launch` includes what the transport does on `spawn`; `HandleExit` what it does
on `exit`. The branch of `shutdown()` for a child whose `exitCode` is set is left
out: when the exit code is set, the exit event, which clears `child`, is emitted
in the same turn of the loop. A child's `error` event is modelled for a worker
that could not be spawned, where no `exit` follows.

### `StreamSession`

Handlers run inside each other here: `child.kill()` of an adapter with a context
makes the transport fail the context, whose `error` event reaches `onChildError`
before `kill()` returns, and `onChildError` may finish the stream, release the
guard and kill again. So a handler is a function from the record of a stream to
the record it leaves (`Finalize`, `ChildError`, `Kill`, `Cleanup`, `Cut`, ...),
composed the way the code calls them, and an action applies one of them and then
runs the promise jobs (`EndOfTask`: `res.end()` once the write of `[DONE]` has
resolved).

| State of a stream | Code |
|---|---|
| `stage`, `token` | refused or streaming; the guard's token and whether it was released |
| `adapter` | the child adapter: its context still being set up, wired, closed with `exit` to come, exited |
| `responded`, `finalized`, `closed` | `responded`, `finalized`, `streamClosed` (with `responseWritable` its negation) |
| `armed` | the request, idle, keep-alive and stop-after-tools timers |
| `stopped`, `tools`, `shown` | the cut's `stopped`; `hasToolCallEvidence()`, which any tool call sets; `dropAssistantContentAfterTools`, which only a tool block sent as content sets |
| `sent`, `out` | the choice's `sentAny`, which a structured delta leaves alone; whether stdout has been heard |
| `residue` | what has been received and not sent: text in the sanitizer or an open tool block |
| `best`, `rank`, `length` | the finish tracker and `lengthEvidence` |
| `finished`, `logs`, `outcome` | `finishSent`, the usage events, `recordStreamOutcome` |
| `queue`, `flushing`, `full`, `conn`, `wire` | the SSE queue and what waits for `drain`; the socket; what it was given |

`Start` is `postChatStream` of a request that passes its checks; `Text`, `Hold`,
`Tool`, `Call`, `Count`, `TaskComplete` are lines of the backend as
`stream-event-router.js` sorts them (`Tool` is a tool call that is shown as a block,
frame `tools`; `Call` a structured delta that is told as it is, frame `call`, since
its arguments do not parse yet or a block may be arriving in the text); `Resolve`, `Fail` and `Exit` the adapter's
ends; `RequestTimer`, `IdleTimer`, `GraceTimer`, `Keepalive` the timers;
`Disconnect` and `Finished` the events of the response; `Fill` and `Drain` a
client that reads slowly.

Abstractions: one choice per request; output mode `obsidian-xml` (`openai-json`
holds no text back and is a special case); a text is one frame whatever its
length; finish reasons `content_filter` and `function_call`, which are handled
like `stop`, are left out; the transport underneath is `Resolve`, `Fail` and
`SetUp`.

### `NonstreamSession`

One request that is answered with one JSON document. As in `StreamSession`, the
handlers are functions on the session, because `kill()` of a wired adapter runs
the `error` listener, and with it `finalizeResponse`, before it returns.

| Field of `session` | Code |
|---|---|
| `fault`, `n` | the first check the request would fail, and how many choices it asks for |
| `transform` | `res.locals.responseTransform`, set and dropped by `responses/nonstream.js` |
| `adapter`, `armed`, `responded` | the child adapter; the request, idle and early-truncation timers; `responded` |
| `text`, `calls`, `json` | `choiceStates`, the calls of the aggregator and whether their arguments parse |
| `tools`, `function`, `best`, `rank` | `hasToolCalls`, `hasFunctionCall`, the finish reason tracker |
| `lines`, `logs`, `answers` | what stdout has given, the usage log, what the client was sent |

`Start` is `postChatNonStream`, on the Responses route inside
`postResponsesNonStream`; `Wire`, `BackendLine`, `BackendCompletes`,
`BackendFails` and `AdapterEnds` the adapter; `RequestTimeout`, `IdleTimeout`,
`EarlyTimeout` the timers; `Disconnect` the client. The content of a choice is the
place it was taken from (its own words, another choice's, the XML of its calls,
the blocks in a text, raw stdout). Left out: the parsing and merging of bodies
beyond the outcome of each check, the metadata sanitizer, the deduplication of
repeated blocks, the fallback of `respondWithJson` to `res.json()`, and the 500
of a transform that throws.

### `StreamText`

What one streamed choice shows of the text its backend sends. A text is a sequence
of tokens in which `<`,`u` opens a tool block and `<`,`/`,`>` closes it, so a
delta may end inside a tag. `choice` holds the positions that the code keeps:

| Field of `choice` | Code |
|---|---|
| `emitted`, `upTo`, `scan`, `toolEnd` | the choice's text, `forwardedUpTo`, `scanPos`, `lastToolEnd` |
| `active`, `nested`, `search`, `skip` | the tool buffer: start of the open block, `nestedScanPos`, `searchPos`, `skipUntil` |
| `seen`, `drop`, `any`, `shown` | `textualToolContentSeen`, `dropAssistantContentAfterTools`, `sentAny`, `forwardedToolCount` |
| `calls`, `sent` | the structured calls (arguments that parse yet or not); the content chunks, as intervals of the text |

`TextDelta` and `CallDelta` are deltas, `TextMessage` and `CallMessage` the final
message, `End` the flush. Each runs all of `appendContentSegment`, the tool
buffer and the emitter. Left out: the buffer's metrics and the content of a block.

### `ToolCalls`, `ResponsesStream`

`ToolCalls` is the aggregator as a record: the calls in the order in which they
were made and the names (`alias`) a fragment may know them by. `ingest` finds or
makes the call, appends (`AppendArgument` with its two rules for repetitions), and
says what is new of it.

`ResponsesStream` passes a call through two of them, as the program does: the chat
handler's, whose deltas the adapter feeds into its own. `backend` is what the
backend says, `chat` the handler, `adapter` the adapter's items and aggregator, and
`out` the way to the socket: the adapter's promise chain for typed events, the SSE
queue behind it (into which the chat handler writes an error directly), the
`drain` that either awaits, and the wire. A task of the loop (`TextDelta`, `ToolFragment`,
`ArgumentsDone`, `Message`, `TaskComplete`, `Fail`, `ChildCloses`) waits until the
promises have run (`Quiet`), unless the socket is full. Left out: the coercion of
inputs, metadata and usage fields, capture, and `emitFailure`, which is reached
only when a handler of the adapter throws.

### `Intercept`

A title or summary prompt is answered by a `codex exec` of its own. `exec` is
`runCodexExec` with its child, timer, file and promise, `answer` the two handlers
and their way to the client. Which prompts are intercepted is text matching and
a free choice of `Init`; a request that is not intercepted goes on (`HandOn`) to
the gate. The child may fail to start, have no stdin, write its file or not,
block on a stdout that nobody reads, end, or run on until its timer kills it.

### Not modelled

- JSON-RPC schema, ingress guardrail, header and text helpers: functions on data
  without state.
- Rate limit: a bucket read and written in one synchronous call; what is left is
  arithmetic on a clock.
- Routes of health, usage, models and metrics, the wiring of the app, access
  and authentication: read-only views and pass-through middleware.
- Metrics, tracing, logging and capture: output that nothing reads back. When usage
  and outcomes are logged *is* modelled.
- Configuration: the constants of the modules.
- Redaction of metadata: only that text is held back and flushed.
- Scripts, test doubles and generators under `scripts/` and `tests/`: not part of
  the server.

## Runs

| Run | Asks |
|---|---|
| `transport_ungated` | When requests may wait for handshakes: do counter and map agree, does a context settle once, is the readiness flag backed by a handshake, does anyone wait for a call that is no longer pending, does every live request get the events of its own conversation, with one or two of them live? Also checks `InductiveInvariant`. |
| `transport_liveness` | Behind the gate: is the slot ever oversubscribed, does every request end, does every slot come back, and does the transport implement `RequestService`? |
| `supervisor` | One worker, no stall, bounded restarts, back-off no smaller than the failures call for, nothing launched after a shutdown, shutdown ends, slow workers end. |
| `stream_wire` | What is a client told, for every order of backend lines, failures, timers, keep-alives, stalls and its own departure? Role first, one end, no error after a tool call, no text after a tool block, nothing more once the token is back, and every stream comes to its end. |
| `stream_guard` | Two streams and one token, `PROXY_KILL_ON_DISCONNECT` on: is the semaphore exact, does it bound the requests at the backend, and does it implement `RequestService`? |
| `nonstream` | With timers, exit, error and disconnect in any order: one answer and one log entry that agree, choices told with their own reason, calls and words, no completion before the backend's last line, a Responses document for a Responses client, and an end for every request. |
| `stream_text` | However a text is cut into deltas: is it shown in order and once, is a tag ever torn, is a call shown both as text and as XML, does anything stay behind? |
| `responses_stream` | Typed events with two aggregators, arguments that repeat tokens in fragments of which none looks like what came before, errors and a slow client: are items well bracketed, do the deltas add up to each call's arguments, and is there one end? |
| `intercepts` | Is the answer the one that route, streaming and the outcome of `codex exec` ask for, and is neither process nor file left? |
| `proxy_survives` | *Violated*: a worker exit or request timeout during a request's setup ends the process. |
| `stream_text_after_tools` | *Violated*: text follows a structured tool call that was not shown as a block. |
| `cumulative_arguments` | *Violated*: an argument fragment equal to the last one is dropped, and one that is a prefix of the arguments replaces them. |

### Bounds

- `Transport`: two requests (every hazard involves one or two contexts: one that
  settles and one that takes its place), capacity 2 without the gate (two are live)
  and 1 behind it (two compete for a slot), two workers (an exit, and a request on the successor) and two
  initialize calls beyond which `ready` lines stop (one call overtakes the other).
  The liveness run has one worker and one handshake, and no symmetry. In that run
  a worker that exits is not replaced; requests are then refused.
- `Supervisor`: `RestartMax = 3` and `MaxLaunches = 5`, so the restart limit is
  reached and the bound on launches is not; delays 2, 4, 6 (doubling and
  the cap both happen); at most two initialize calls pending.
- `StreamSession`: `stream_wire` has one stream (streams share only the
  semaphore), three lines before the last one (text, a tool call and something
  after it; `task_complete` is not counted), one keep-alive and two writes that
  meet a full socket (a stall, and a second one while the queue is flushed).
  `stream_guard` has two streams for one token and one line each, since what a
  stream does with its token does not depend on how much it has said.
  `StopAfterTools` is on in both; with it off both runs pass as well (set
  `StopAfterTools = FALSE`; `Tool` may then carry a tail of text).
- `NonstreamSession`: two choices (a choice and another whose words or calls it
  must not be given), two calls where the limit is one, and two lines, enough for
  a call and a text, a block in two halves, or a delta and its message.
- `StreamText`: texts of up to three pieces out of `a`, `<`, an opening tag, a closing
  tag and a whole block, of eleven tokens at most (two blocks and one more), in deltas of up
  to five tokens: a tag is cut at each place, a whole block comes in one delta, blocks
  are nested or left open, two blocks follow each other, closing tags stray. One
  structured call arrives before, between or after. The theorems have no such
  bounds.
- `ResponsesStream`: two calls with three tokens of arguments each, one of which
  repeats (behind another or twice in a row), in fragments of one or two, and one
  text delta. `responses_stream` runs `FairPlainSpec`, without the cuts in which a
  fragment looks like what came before; what those do to the arguments is shown by the
  violated run. `EventGrammar` and `StreamEnds` do not depend on it: they hold of
  `FairSpec` as well (with `Truths <- NestedTruths`, in some two minutes), and
  `GrammarKept` is a theorem of `Spec`.
- `Intercept` has no constants: one request, one child.

Some guards in the modules are bounds of the model and not of the code: those
with `MaxSpawns`/`MaxInits` (`Spawn`, `NewInitialize`), `MaxLaunches`/
`MaxAsking` (`Launch`, `ReadyLine`) and `MaxEvents`/`MaxComments`/`MaxStalls`
(`Line`, `Keepalive`, `Fill` and `Drain`). In the later modules they are
`MaxCalls` and `MaxLines` (`NonstreamSession`), `Texts`, `MaxDelta` and `MaxCalls`
(`StreamText`), and `Names`, `Truths`, `MaxChunk` and `MaxTexts` (`ResponsesStream`).

### Fairness

`Transport` assumes that armed timers fire (`Timer`, `InitializeTimeout`: every
pending call and every context has a `setTimeout`) and that settled promises
continue (`Continuation`). The worker owes nothing: no answer, notification or
exit is fair. `Supervisor` assumes the same of its timers and awaits, and that a
process that was sent SIGKILL exits; it need not heed SIGTERM.

`StreamSession` assumes that its request and idle timers fire, that the
`setImmediate` of an adapter's exit runs, and that the transport ends every
request (`EveryRequestEnds`, checked in `transport_liveness`). The handler
of each of these has one condition, which it ends, so the fairness is stated as
that condition not lasting: `[]<>("idle" \notin armed)` is weak fairness of the
idle timer without an ENABLED that would expand the nested handlers. The client is not fair: it
may stop reading, and `StreamsEnd` then asks for everything but the last byte.

`NonstreamSession` assumes that the request timer fires and that the adapter's
scheduled end runs; the backend owes nothing, and the other timers are not needed.
`ResponsesStream` assumes that promises go on, that the queue is flushed, that a
client which stays reads (`Drain`), and that the request's timeout fires
(`Fail`). `Intercept` assumes its promises and timers, a client that reads while
it stays, and that a child which ended or was killed is reported (`ChildExit`); that a
child ends by itself is not assumed. `StreamText` has safety properties only.

`CHECK_DEADLOCK FALSE` everywhere: a finished instance (all requests done and
the bounds reached, the process crashed, or the supervisor stopped) has no step left,
as the program has none until something outside it happens.

## What the repository says and the code does not keep

Three properties are violated by what the code does; they are the findings of
`PROJECT.json`, each with the sentence it comes from:

- `Transport!ProxySurvives`: a context that fails before its adapter listens throws.
- `StreamSession!NoTextAfterTools`: in the obsidian-xml mode a structured `tool_calls`
  delta whose arguments do not parse yet, or behind which a block may be arriving in the
  text, does not set `dropAssistantContentAfterTools` (`stream-runtime-emitter.js:61`), so
  text follows it; nor `sentAny`, so the raw lines may follow it at exit.
  `NoTextAfterBlock` is what the code keeps.
- `ResponsesStream!CumulativeArguments`: a fragment that looks like what came before is
  dropped or replaces it.

More such properties stand in the modules, next to those that hold, and no run
checks them; add one to a cfg of its module to see the counterexample.

| Property | What the repository says | What happens |
|---|---|---|
| `Transport!ReadinessMirrorsHandshake` | readiness follows the handshake (`tests/unit/worker-supervisor.test.js:146`) | after a second initialize call the gate may stay closed with a handshake in use |
| `Transport!OwnConversationOnly` | "Route notifications to the **correct HTTP stream** using conversation/request IDs" (`docs/app-server-migration/codex-proto-vs-app-server.md:137`) | the fallback at `transport/index.js:1102` gives a notification of a conversation that was dropped to the one live request; one killed in its setup does not even ask the worker to stop sending. With two live it is given to nobody: `LiveHearsItself` does not rest on the fallback |
| `Supervisor!ReportedDelayIsScheduled` | `next_restart_delay_ms` | the value is the delay of the restart after the one that is armed (`supervisor.js:269`) |
| `StreamSession!FinishIsLast` | the finish chunk is the last one (`tests/sse-usage-negative.spec.js:34`) | `task_complete` sends it before what was held back is flushed (`stream-event-router.js:179`) |
| `StreamSession!UsageLoggedOnce` | one usage event per request (`README.md:218`) | a failed request is logged as a failure and, at the adapter's exit, as usage (`stream.js:659`) |
| `StreamSession!NothingAfterDone`, `StreamSession!TimersCleared` | see below | see below |
| `StreamText!TextAsEmitted` | "subsequent chunks are deltas as the backend emits them" (`README.md:687`) | a delta that begins as the text so far ends is shortened (`stream-output.js:176`), also when the text repeats itself |
| `NonstreamSession!EarlyTruncationAnswers` | the content so far is finalized (`docs/troubleshooting.md:29`) | the timer kills a wired adapter, whose `error` event answers 499 |

Two were met outside what the server reaches: without `requireWorkerReady` in front,
`CapacityRespected` fails, since the capacity check is separated from the
increment by the await of the handshake (set `Gated = FALSE` and
`MaxConcurrency = 1`); and `start()` during a shutdown, which `start()`'s comment
allows ("Cancel any pending shutdown before re-starting"), leads to two workers
(set `StartAgain = TRUE`). The theorems about `Supervisor` therefore assume
`~StartAgain`, and `CapacityHolds` assumes `Gated`.

Of `StreamSession`: `NothingAfterDone` ("drop late
backend frames after sending `[DONE]`", `docs/codex-proxy-tool-calls.md:327`)
fails while the socket is full: `[DONE]` of `onChildError` waits in the queue, the response
is not ended, and the exit's `finalizeStream` queues its frames and a second `[DONE]`
behind it. `TimersCleared` ("keepalive/timers cleared", `README.md:31`) fails after a
disconnect without `PROXY_KILL_ON_DISCONNECT`, since the next line of the backend arms the idle
timer again. Three smaller observations: an idle timeout of a stream without a tool call ends
with an error frame, not with the finish reason `length` that was recorded for it,
since the kill's `error` event comes first; after a tool call the wire's finish reason is
`tool_calls` and the metric's may be `length` (`FinishOf`, `OutcomeOf`); and text that
ends in a prefix of `<use_tool` is held back by `findToolPrefixHoldback` and
never flushed (in `StreamText`, where `NothingHeldBack` excepts it).

Facts met while modelling the other parts, which the models keep unless noted:

- *Whole answers.* `tool_call_count_total` of the usage log is always 0 here (not
  modelled). A turn of usage and `task_complete` lines alone is answered with the
  raw lines of stdout as content. A client that leaves during the setup, with
  `PROXY_KILL_ON_DISCONNECT`, is logged as usage with status 200. A bad `n` on
  `/v1/responses` is answered and not logged. A choice whose call has arguments
  that do not parse is given the text of another choice. A tool call cut by the
  length limit is reported as `tool_calls`. The second textual block of a final
  message is lost when the first came in a delta.
- *Streamed text.* Text in front of a block in the same delta is lost, in both
  modes, and so is a second textual block in a later delta
  (`docs/codex-proxy-tool-calls.md:319`). Without
  `PROXY_SUPPRESS_TAIL_AFTER_TOOLS` the beginning of a second block behind a complete
  one in the same delta goes out as text. A nested opening that is closed
  in the same delta goes out as text. With an opening inside an open block the code may
  show a block that it has forwarded as text, so in the obsidian-xml mode `InOrderOnce`
  and `TagsNotTorn` except texts with a nested opening; `NothingHeldBack` excepts
  those too and closing tags without an opening one before them.
- *Responses.* An error stream ends with the raw `[DONE]` and not with
  `event: done` (`docs/responses-endpoint/overview.md:49`), and behind a full socket one typed
  event may follow it. A final message that completes a call already begun
  is not told to the adapter. A call that came as item events is a second call
  when the final message names it by another id. A backend error after a tool call is reported
  as completed. A stream without text whose child closes sends the raw lines as text.
- *Intercepts.* Nobody reads the stdout of `codex exec`, so one that says much blocks
  until its timeout. A client that leaves does not end it. A failure of a chat
  stream is answered with a JSON 502. The handler of a Responses stream
  waits for a `drain` that never comes when its client has gone; child and file
  are gone by then. The stdin of the child has no error listener (not
  modelled).

## Proofs

`TransportProofs` (for any finite set of requests, any capacity and bounds):

- `InductiveInvariant` conjoins the type invariant, `SlotAccounting`,
  `PhaseConsistent` (how far the adapter is tells what its context can be),
  `SetupCallsAwaited` (a setup call is pending exactly while its caller waits),
  `HandshakeConsistent` (a promise or a waiter has an initialize call pending, and
  only an attached worker has handshakes), `ConversationsKnown` (the key of a
  conversation is there from before the worker is asked for its events until the request
  settles) and `GatedAdmission` (behind the gate nobody waits for a handshake, and at
  most one request is between the capacity check and the increment). Each part is needed: slot accounting is inductive
  only when a context is opened by an adapter that has none yet
  (`PhaseConsistent`), and admission only when `WorkerReady` implies `hsDone`
  (`HandshakeConsistent`).
- An action is first summarised by the way it moves the slots (`SlotStep`: the
  context map and counter are left alone, gain one, or lose one together), by the
  calls it touches, and by whether it touches the handshake; the invariants are
  then proved from the summaries.
- Theorems: `TypeCorrect`, `Invariant`, `SlotsAreAccounted`, `CapacityHolds`,
  `ReadinessIsBacked`, `NoRequestIsStranded`, `KilledSlots`, `OutcomesAreFinal`, and
  `ConversationsAreHeard`: a live request whose events are on is what `Targets` finds for
  them, by `ConversationsKnown`, whether it is alone or not.
- `TransportServes`: behind the gate every behaviour of `Transport` is one of
  `RequestService!SafeSpec` under the mapping of `TransportRefinement`. Every action
  moves at most one request from stage to stage in the way `Stutters`, `GoesDown` or
  `Ends` says; `Start` is the service's `Admit` since `Drained` and the gate leave
  nobody between the capacity check and the increment, so that the active requests of
  the service are the contexts of the transport; a worker's exit is the service's
  `FailAll`.

`SupervisorProofs`: `TypeCorrect`; and, without a second `start()`, an inductive
invariant that ties `child`, `alive`, `timer`, `running` and `shutting` together
(a running supervisor has a worker or a timer and never both; a stopping one
awaits its child; counters follow the launches), from which `NoOrphans`,
`NoStall`, `RestartsAreBounded`, `GateNeedsWorker` and `ShutdownIsFinal` follow.
`DelaysGrow` holds with further calls of `start()` too. Its invariant is about the delay
in store as well as the armed one (`BackoffConsistent`): an exit arms the stored
delay for a count that is one higher, so the stored one has to be ahead by one failure.
Every step but an exit keeps the count or resets it, and what resets the delay finds
or makes the count 0 (`BackoffKept`). The exit that gives up counts a failure and
leaves the delay; from then on no timer is armed, hence the premise
`restarts <= RestartMax`.

`Induction`: the library's induction takes an operator as a parameter, which the
installed provers cannot instantiate. `LeastOf`, `SetInduction` and `StrongInduction`
say the same of a set of numbers, so a proof defines the set of the numbers a fact
holds for. A recursive function is a CHOOSE, so that one exists has to be shown
before its equation can be used: `PrimitiveRecursion` does it for functions that go up from 0
(`Grown`); `BlocksUnfold`, by `SetInduction` from the end of the text back, for `Blocks`.

`StreamProofs` (for any finite set of streams, any limit and any bounds): the handlers are
composed of each other as the code calls them, so each operator is summarised
once by what it may do to the stage, the token, the adapter and the outcome of a
stream (`Quiet`: nothing; `Passing`, in the middle of a handler: the token may come
back, the adapter may be closed, an outcome stays; `Moved`, at its end: what was
finished has its outcome; `Stepped`: with `PROXY_KILL_ON_DISCONNECT` the token
does not come back while the adapter runs), and the summaries compose.
`Inductive` says that a stream that has not started holds nothing, that a running
adapter has a token when disconnects kill, that a stream whose token is back has
an outcome, and that the count is the number of holders; the clamp of `release()`
is shown never to apply. The discipline per stream is needed for the count: a
start adds a holder only because a new stream has no token. From it follow
`GuardIsExact`, `BackendIsBounded` and, since an outcome that is there stays,
`StreamsServe`: with a limit, every behaviour of the handlers is one of
`Slots!SafeSpec`.

The second part of `StreamProofs` (for any streams and any bounds): a frame is on the wire or
still in the queue, so the invariant is about both in a row (`Given`): a write appends to
it or does nothing, a drain leaves it as it is, and a disconnect cuts it to the wire, a
beginning of it. `Grammar` is `StreamGrammar`, `ToolCallsEndWell` and
`NoTextAfterBlock` strengthened until appending a frame that `Fits` keeps it
(`AppendKeepsGrammar`) and so does taking a beginning (`PrefixKeepsGrammar`). Between two
handlers a stream is `Whole`: an end that an open response was given has its
`[DONE]`, and so has a stream whose token is back, a finish chunk was sent by finalizeStream only, after which the request
counts as responded and the adapter is closed. Inside TaskComplete and finalizeStream, between
finish chunk and `[DONE]`, it is only `Ready`, so parts of handlers that write no end
(`Ordinary`) are shown to keep both, and the handlers are composed as the code calls
them: the error that kill() emits inside a cut, a timer or a disconnect meets a stream that is
`Whole`. `StreamSound` is the invariant; `StreamGrammarHolds`, `ToolCallsEndWellHolds`
and `NoTextAfterBlockHolds` follow since the wire is a beginning of what is given, and
`NothingAfterReleaseHolds` from the token.

`NonstreamProofs`: a request is new, refused with one error, or waiting; a waiting
one is open (nothing answered, nothing logged) or told (`Told`: one answer, one
log entry, and they agree). Each handler is summarised once by what it makes of
an open and of a told session, and the summaries compose in the order of the
calls. `Agrees` adds that the choices of a completion are true of the texts and
calls at hand and that its adapter has exited, so that no later line makes
them false. From it follow `AnswersAreLogged`, `AnswersAreTrue`,
`ResponsesAreShaped` and `AnswersAreComplete`, for any number of choices, calls,
lines and any limit on tool blocks.

`InterceptProofs`: `RunInvariant` ties step, timer, child, file and promise of the run;
`AnswerInvariant` says that what was answered is a beginning of `Due`, the answer that
route, streaming and outcome ask for (`Begins`), and, for a client that stays, together with
what is still to be written all of it: JSON or the frames of the one script that
fits, in their order. A failure of a chat stream has a JSON 502 as its `Due`,
as in the code. Together they are inductive (`InterceptsAgree`) and give `AnswersFit`.

`StreamTextProofs` (for any set of texts, any size of delta and any number of calls):

- Operators are summarised first: `indexOf`, `lastIndexOf` and the overlap
  trim by the least or greatest of a set of positions, and `Blocks`, by strong
  induction on how much text is left, as a list of blocks that are in order, do not
  overlap, each begin with an opening tag and end with a closing one, and that is empty
  only if there is no whole block (`BlocksAre`).
- `Inv` speaks of the positions the code keeps: what was forwarded ends before the open
  block, which is where an opening tag is (`Bounds`); a stream that showed XML has
  no open block and takes no more content, and one that showed a block is marked
  (`OneForm`); the chunks of text and blocks are in order and end where
  forwarding stands (`Between`); no text chunk reaches an opening tag (`Untorn`); what was
  forwarded was shown, and what was not is an open block or may begin a tag
  (`Reached`). These are not inductive: that a block is found only behind what was
  forwarded depends on the history of the tool buffer. `Calm` is the missing part:
  while a choice still takes content, no block has been complete, so nothing was scanned
  or skipped, closing tags are before opening ones, and the buffer has the only opening
  tag there is; a `<` at the end was held back.
- `appendContentSegment` is taken in the stages it has (`Grown`, `Opened`, `Flushed`,
  blocks, text), with `Mid` between them; `Going` is what each delta, call and message
  keeps, and `EndKeeps` covers the flush.
- Theorems: `InvHolds`, `TypeCorrect`, `TextInOrderOnce`, `NoTagTorn`,
  `CallsShownOnce`, `TextNotHeldBack`.

`ResponsesProofs` (for any calls, any arguments and any bounds), `InvHolds` and
`GrammarKept`:

- An event waits in the adapter's chain, then in the response's queue, then it is on the
  wire. `Story` is `EventGrammar` for the three in a row, said event by event (`May`: what
  may follow on the events so far), so a beginning of a story is one. A drain leaves the
  row as it is, the chain's turn moves its head, and the handler appends; only the error
  path and a `[DONE]` get in between queue and chain, and these are not typed events
  (`RawBetween`).
- While the adapter has not finished, the items that were added are exactly those it has
  (`Telling`), which is what makes the next `added` a new one and the next delta one of an
  item that was added. That needs more than the adapter: a delta carries an id only
  once and an index later, so `CallsInv` says that the chat handler's aggregator, the
  adapter's and its items know the same calls in the same order by the same names
  (`Mirrors`), that a call in the chat handler has the backend's id or one of its own
  making (`Chatted`), and, for chunks, that an id stands for the call that has it
  (`Faithful`).
- `finalizeToolCalls` closes the items one by one (`Closing`, by `SetInduction` on how many
  are closed), so `completed` finds every item done; `OnDone` closes only a story that was
  `Telling`, since it runs once.
- `QueueInv` bounds what the queue may hold: at most one typed event, the one the chain awaits,
  and at most one event behind `[DONE]`. It is needed for the wire of a response that has ended
  (`Over`): it is a story that ends with `done` or has a `[DONE]`.

The second part of `ResponsesProofs`, `ArgumentsKept`: `ArgumentsAddUp` for every set of
calls, every arguments, and every way in which the backend of `ResponsesStream` cuts and
repeats them (chunks of any size, by index or by item, an item's whole text again, the
final message), as long as no fragment looks like what came before (`PlainSpec`). The
aggregator drops a fragment that equals the last one, and takes one that begins the text
so far, or that the text begins with, for the whole text: of the tokens `a`, `b`, `a`,
one at a time, the last `a` replaces `a`, `b`, and the deltas do not add up
(`cumulative_arguments`). `LooksRepeated` is these two comparisons, on a fragment, the last
one and what the backend has said, and nothing else is assumed: the arguments may repeat
tokens at will, as JSON does, and a fragment may begin with a token that has come. A
fragment that the condition excludes leaves the aggregator with other arguments than the
backend's, so it cannot be weaker.

- `ArgsInv` follows every token through both aggregators. `Hears`: what the chat handler
  has of a call is the first `sent` tokens of the truth; the next part is added to it
  (`NextPart`), and a whole text replaces it (`WholePart`).
  `Placed`: a call that has begun and is not complete is found by its index, which is
  all that a further chunk carries. `Hears` also keeps two calls of the backend
  from being taken for one.
- `Settled` and `Whole`: between two handlers an aggregator has passed on all it has of a
  call, and the adapter's has the whole as its last fragment. So the arguments of the chat
  handler's calls, of the adapter's calls and the `last` of the items are one list of texts,
  and what the adapter sends is the part by which a text grew
  (`Remainder`), since the old text is always a beginning of the new one
  (`PrefixOfParts`, `Understood`). What a final message says of a call that deltas have
  brought is nothing new, so that nothing of it stays untold.
- `AddsUp` is `ArgumentsAddUp` for wire, queue and chain in a row, with the texts of the
  adapter in the place of the truth: the deltas of an item spell its text, and wherever an
  `argsDone` or an `itemDone` stands they did so by then. `Spell` is a recursive
  function on the events so far, with its equation from `PrimitiveRecursion`; an event of
  one item leaves the spelling of the others (`SpellRests`), and the client, who has read a
  beginning of the row, has a beginning of the spelling (`SpellGrows`).
- A text may grow only while none of its items has ended (`NoneEnded`, `UpsOn`). Items are
  ended by `onDone` alone, with the texts as they are (`UpsEnd`), and it runs once, when
  the chat handler reads no more.
- The adapter's aggregator is fed whole texts, each longer than the one before, which it
  takes for what they are without any hypothesis (`LongerPart`). `Inv`, of the first part,
  is used beside `ArgsInv`.

Only model-checked: the liveness properties and the liveness half of both refinements,
since temporal reasoning with fairness and ENABLED is out of the prover's reach. Every
safety invariant and every action property of the passing runs is stated by a theorem.

## Running

    tlc -config TransportUngated.cfg MCTransport
    tlc -config TransportLiveness.cfg MCTransport
    tlc -config SupervisorRuns.cfg Supervisor
    tlc -config StreamWire.cfg MCStreamSession
    tlc -config StreamGuard.cfg MCStreamSession
    tlc -config NonstreamRuns.cfg NonstreamSession
    tlc -config StreamTextRuns.cfg MCStreamText
    tlc -config ResponsesRuns.cfg MCResponsesStream
    tlc -config InterceptRuns.cfg Intercept

    tlc -config Transport_ProxySurvives.cfg MCTransport
    tlc -config Stream_TextAfterTools.cfg MCStreamSession
    tlc -config Responses_CumulativeArguments.cfg MCResponsesStream

    tlapm TransportProofs.tla
    tlapm SupervisorProofs.tla
    tlapm StreamProofs.tla
    tlapm NonstreamProofs.tla
    tlapm StreamTextProofs.tla
    tlapm ResponsesProofs.tla
    tlapm Induction.tla
    tlapm InterceptProofs.tla
