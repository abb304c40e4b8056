----------------------------- MODULE Supervisor -----------------------------
(***************************************************************************)
(* The worker supervisor: it launches the app-server worker, restarts it   *)
(* with a growing delay when it exits, gives up after a number of          *)
(* restarts, replaces a worker that does not become ready in time, and     *)
(* stops the worker when the proxy stops.                                  *)
(*                                                                         *)
(*   src/src/services/worker/supervisor.js   CodexWorkerSupervisor         *)
(*   src/server.js                           start at boot, stop on signal *)
(*                                                                         *)
(* Workers are numbered in the order of their launch.  Real time is left   *)
(* out: a timer that is armed may fire at any moment, and only the length  *)
(* of the restart delay is kept.  What the transport reports of its        *)
(* initialize calls is modelled as far as it moves the readiness.          *)
(***************************************************************************)
EXTENDS Naturals, FiniteSets

CONSTANTS
  InitialBackoff,  \* WORKER_BACKOFF_INITIAL_MS
  MaxBackoff,      \* WORKER_BACKOFF_MAX_MS
  RestartMax,      \* WORKER_RESTART_MAX
  StartAgain,      \* may start() be called after the boot?
  MaxLaunches,     \* bound: workers launched
  MaxAsking        \* bound: initialize calls pending at once

ASSUME BackoffAssumption == InitialBackoff \in Nat \ {0} /\ MaxBackoff \in Nat \ {0}
ASSUME LimitsAssumption ==
  /\ RestartMax \in Nat /\ MaxLaunches \in Nat /\ MaxAsking \in Nat
  /\ StartAgain \in BOOLEAN

VARIABLES
  running,    \* state.running
  shutting,   \* state.shutdownInFlight
  child,      \* state.child: number of the worker, 0 for null
  launches,   \* state.startAttempts
  restarts,   \* state.restarts
  failures,   \* state.consecutiveFailures
  backoff,    \* state.nextBackoffMs
  timer,      \* state.restartTimer: the delay it was armed with, 0 for null
  readiness,  \* health.readiness.reason; ready iff "handshake_complete"
  live,       \* health.liveness.live
  watchers,   \* workers whose readyWatcher still polls
  condemned,  \* workers whose readyWatcher waits 250 ms before SIGKILL
  stopping,   \* the worker whose exit shutdown() awaits, 0 for none
  inGrace,    \* ... and its grace period has not run out
  alive,      \* worker processes (external)
  unborn,     \* workers whose "spawn" event has not been delivered (external)
  doomed,     \* processes sent SIGKILL (external)
  asking      \* initialize calls pending in the transport (external)

lifeVars   == <<running, shutting, child, launches>>
retryVars  == <<restarts, failures, backoff, timer>>
healthVars == <<readiness, live>>
stopVars   == <<stopping, inGrace>>
procVars   == <<alive, unborn, doomed>>
vars == <<lifeVars, retryVars, healthVars, watchers, condemned, stopVars, procVars, asking>>

Ready == readiness = "handshake_complete"
Least(a, b) == IF a <= b THEN a ELSE b

\* The promise of once(child, "exit") has settled: shutdown() goes on before
\* any other event is handled.
Drained == stopping = 0 \/ stopping \in alive

Init ==
  /\ running = FALSE /\ shutting = FALSE /\ child = 0 /\ launches = 0
  /\ restarts = 0 /\ failures = 0 /\ backoff = InitialBackoff /\ timer = 0
  /\ readiness = "not_started" /\ live = FALSE
  /\ watchers = {} /\ condemned = {}
  /\ stopping = 0 /\ inGrace = FALSE
  /\ alive = {} /\ unborn = {} /\ doomed = {}
  /\ asking = 0

-----------------------------------------------------------------------------

\* #launch with what the transport does on "spawn": it attaches and begins a
\* handshake, so readiness goes through worker_launching to handshake_pending.
Launch ==
  /\ launches < MaxLaunches
  /\ launches' = launches + 1
  /\ child' = launches + 1
  /\ readiness' = "handshake_pending"
  /\ watchers' = watchers \cup {launches + 1}
  /\ alive' = alive \cup {launches + 1}
  /\ unborn' = unborn \cup {launches + 1}
  /\ asking' = Least(asking + 1, MaxAsking)

\* start(): a no-op when running; it takes back a shutdown in flight.
Start ==
  /\ Drained
  /\ launches = 0 \/ StartAgain
  /\ ~running \/ shutting
  /\ shutting' = FALSE /\ running' = TRUE /\ live' = TRUE
  /\ Launch
  /\ UNCHANGED <<retryVars, condemned, stopVars, doomed>>

\* The child's "spawn" event.
Spawned(n) ==
  /\ Drained /\ n \in unborn
  /\ unborn' = unborn \ {n}
  /\ live' = TRUE
  /\ UNCHANGED <<lifeVars, retryVars, readiness, watchers, condemned, stopVars, alive, doomed, asking>>

\* Mutant: the limit is compared with the count before this exit.
GiveUpLate == restarts > RestartMax
GiveUp == restarts + 1 > RestartMax

\* Mutant: the delay does not grow.
Same(delay) == Least(delay, MaxBackoff)
Doubled(delay) == Least(delay * 2, MaxBackoff)

\* Mutant: the supervisor stays running with nothing armed.
StopHalf == live' = FALSE /\ timer' = 0 /\ UNCHANGED running
Stop     == live' = FALSE /\ timer' = 0 /\ running' = FALSE

\* An exit nobody asked for: count it, then give up or arm the restart timer.
Unexpected ==
  /\ restarts' = restarts + 1 /\ failures' = failures + 1
  /\ readiness' = "worker_exit"
  /\ \/ GiveUp /\ Stop /\ UNCHANGED backoff
     \/ /\ ~GiveUp
        /\ timer' = Least(backoff, MaxBackoff)
        /\ backoff' = Doubled(Least(backoff, MaxBackoff))
        /\ live' = TRUE /\ UNCHANGED running

\* Mutant: an exit during the shutdown is handled like any other.
HandleExitAlways ==
  /\ child' = 0 /\ asking' = 0
  /\ Unexpected
  /\ UNCHANGED <<shutting, launches>>

\* #handleExit, with the transport's #onExit, which rejects its initialize
\* calls.
HandleExit ==
  /\ child' = 0 /\ asking' = 0
  /\ \/ /\ shutting
        /\ Stop /\ readiness' = "shutdown_in_progress"
        /\ UNCHANGED <<restarts, failures, backoff>>
     \/ ~shutting /\ Unexpected
  /\ UNCHANGED <<shutting, launches>>

\* A worker's "exit" event, or its "error" event when it could not be spawned.
Exit(n) ==
  /\ Drained /\ n \in alive
  /\ alive' = alive \ {n} /\ unborn' = unborn \ {n} /\ doomed' = doomed \ {n}
  /\ HandleExit
  /\ UNCHANGED <<watchers, condemned, stopVars>>

\* The restart timer fires.
Restart ==
  /\ Drained /\ timer # 0
  /\ timer' = 0
  /\ \/ /\ shutting
        /\ UNCHANGED <<lifeVars, readiness, watchers, alive, unborn, asking>>
     \/ /\ ~shutting
        /\ Launch
        /\ UNCHANGED <<running, shutting>>
  /\ UNCHANGED <<restarts, failures, backoff, live, condemned, stopVars, doomed>>

-----------------------------------------------------------------------------
(* Readiness.                                                               *)

\* A "ready" line on a worker's output, which may outlive the worker: the
\* supervisor marks the handshake pending unless it is complete, and emits
\* "ready"; the transport then begins a new handshake, or records a failure
\* when there is no worker.
ReadyLine ==
  /\ Drained /\ launches > 0
  /\ failures' = 0
  /\ \/ /\ child # 0 /\ asking < MaxAsking
        /\ readiness' = "handshake_pending" /\ asking' = asking + 1
     \/ /\ child = 0
        /\ readiness' = "handshake_failed" /\ UNCHANGED asking
  /\ UNCHANGED <<lifeVars, restarts, backoff, timer, live, watchers, condemned, stopVars, procVars>>

\* Mutant: the answer of a worker that has exited counts, too.
HandshakeSuccessLate ==
  /\ Drained /\ launches > 0
  /\ readiness' = "handshake_complete" /\ failures' = 0
  /\ UNCHANGED <<lifeVars, restarts, backoff, timer, live, watchers, condemned, stopVars, procVars, asking>>

\* recordHandshakeSuccess, from the answer to an initialize call.
HandshakeSuccess ==
  /\ Drained /\ asking > 0
  /\ asking' = asking - 1
  /\ readiness' = "handshake_complete" /\ failures' = 0
  /\ UNCHANGED <<lifeVars, restarts, backoff, timer, live, watchers, condemned, stopVars, procVars>>

\* recordHandshakeFailure, from an error answer or a timer.
HandshakeFailure ==
  /\ Drained /\ asking > 0
  /\ asking' = asking - 1
  /\ readiness' = "handshake_failed"
  /\ UNCHANGED <<lifeVars, retryVars, live, watchers, condemned, stopVars, procVars>>

\* readyWatcher of worker n polls a readiness that may be a later worker's.
WatcherReady(n) ==
  /\ Drained /\ n \in watchers /\ Ready
  /\ watchers' = watchers \ {n}
  /\ backoff' = InitialBackoff /\ failures' = 0
  /\ UNCHANGED <<lifeVars, restarts, timer, healthVars, condemned, stopVars, procVars, asking>>

\* Mutant: the watcher that gives up does not end its worker.
WatcherTimeoutSilent(n) ==
  /\ Drained /\ n \in watchers /\ ~Ready
  /\ watchers' = watchers \ {n}
  /\ readiness' = "handshake_failed"
  /\ UNCHANGED <<lifeVars, retryVars, live, condemned, stopVars, procVars, asking>>

\* ... or gives up: the readiness becomes a failure, whoever is the child now;
\* its own worker, if still the child, is sent SIGTERM and later SIGKILL.
WatcherTimeout(n) ==
  /\ Drained /\ n \in watchers /\ ~Ready
  /\ watchers' = watchers \ {n}
  /\ readiness' = "handshake_failed"
  /\ condemned' = IF ~shutting /\ child = n THEN condemned \cup {n} ELSE condemned
  /\ UNCHANGED <<lifeVars, retryVars, live, stopVars, procVars, asking>>

CondemnedKill(n) ==
  /\ Drained /\ n \in condemned
  /\ condemned' = condemned \ {n}
  /\ doomed' = doomed \cup ({n} \cap alive)
  /\ UNCHANGED <<lifeVars, retryVars, healthVars, watchers, stopVars, alive, unborn, asking>>

-----------------------------------------------------------------------------
(* Shutdown.                                                                *)

\* shutdown(), up to its await; without a child it ends at once, and
\* shutdownInFlight stays set.
Shutdown ==
  /\ Drained /\ running /\ ~shutting
  /\ shutting' = TRUE
  /\ readiness' = "shutdown_initiated" /\ live' = FALSE
  /\ timer' = 0
  /\ running' = (child # 0)
  /\ stopping' = child /\ inGrace' = (child # 0)
  /\ UNCHANGED <<child, launches, restarts, failures, backoff, watchers, condemned, procVars, asking>>

\* Mutant: no SIGKILL after the grace period.
GraceExceededSilently ==
  /\ Drained /\ stopping # 0 /\ inGrace
  /\ inGrace' = FALSE
  /\ UNCHANGED <<lifeVars, retryVars, healthVars, watchers, condemned, stopping, procVars, asking>>

\* The grace period runs out: SIGKILL.
GraceExceeded ==
  /\ Drained /\ stopping # 0 /\ inGrace
  /\ inGrace' = FALSE
  /\ doomed' = doomed \cup ({stopping} \cap alive)
  /\ UNCHANGED <<lifeVars, retryVars, healthVars, watchers, condemned, stopping, alive, unborn, asking>>

\* Mutant: after SIGKILL the exit is not awaited.
ShutdownDoneEarly ==
  /\ stopping # 0 /\ (stopping \notin alive \/ ~inGrace)
  /\ running' = FALSE /\ child' = 0 /\ live' = FALSE
  /\ stopping' = 0 /\ inGrace' = FALSE
  /\ UNCHANGED <<shutting, launches, retryVars, readiness, watchers, condemned, procVars, asking>>

\* The awaited exit has come: the finally block, which does not look whether
\* start() was called since.
ShutdownDone ==
  /\ stopping # 0 /\ stopping \notin alive
  /\ running' = FALSE /\ child' = 0 /\ live' = FALSE
  /\ stopping' = 0 /\ inGrace' = FALSE
  /\ UNCHANGED <<shutting, launches, retryVars, readiness, watchers, condemned, procVars, asking>>

-----------------------------------------------------------------------------

Workers == 1..MaxLaunches

Next ==
  \/ Start \/ Restart \/ ReadyLine \/ HandshakeSuccess \/ HandshakeFailure
  \/ Shutdown \/ GraceExceeded \/ ShutdownDone
  \/ \E n \in Workers :
       Spawned(n) \/ Exit(n) \/ WatcherReady(n) \/ WatcherTimeout(n) \/ CondemnedKill(n)

\* Timers fire, promises are continued and a process that was sent SIGKILL
\* ends.  A worker need not answer, nor heed SIGTERM.
Fairness ==
  /\ WF_vars(Restart) /\ WF_vars(GraceExceeded) /\ WF_vars(ShutdownDone)
  /\ \A n \in Workers :
       /\ WF_vars(WatcherReady(n) \/ WatcherTimeout(n))
       /\ WF_vars(CondemnedKill(n))
       /\ WF_vars(n \in doomed /\ Exit(n))

Spec == Init /\ [][Next]_vars
FairSpec == Spec /\ Fairness

-----------------------------------------------------------------------------
(* Properties.                                                              *)

\* Every variable has its type.
TypeOK ==
  /\ running \in BOOLEAN /\ shutting \in BOOLEAN /\ child \in Nat /\ launches \in Nat
  /\ restarts \in Nat /\ failures \in Nat /\ backoff \in Nat /\ timer \in Nat
  /\ readiness \in {"not_started", "handshake_pending", "handshake_complete", "handshake_failed",
                    "worker_exit", "shutdown_initiated", "shutdown_in_progress"}
  /\ live \in BOOLEAN
  /\ watchers \subseteq Nat /\ condemned \subseteq Nat
  /\ stopping \in Nat /\ inGrace \in BOOLEAN
  /\ alive \subseteq Nat /\ unborn \subseteq Nat /\ doomed \subseteq Nat
  /\ asking \in Nat

\* No worker process escapes the supervisor, and there are never two: restart
\* timer, exit events, watchers and shutdown agree on who the child is.
OneWorker == alive = {child} \ {0}

\* A running supervisor never stalls: it has a worker, or a restart is armed.
\* /livez says live exactly then.
NeverStalls ==
  ~shutting /\ launches > 0 =>
    /\ running <=> (child # 0 \/ timer # 0)
    /\ live <=> running

\* The first delay, doubled n times.
Grown[n \in Nat] == IF n = 0 THEN InitialBackoff ELSE 2 * Grown[n - 1]

\* The delay of a restart has doubled at least once per consecutive failure.
\* The two are reset by different events (a ready line, a handshake, the
\* watcher's next poll), the count first.
BackoffCoversFailures ==
  timer # 0 /\ failures > 0 => timer >= Least(Grown[failures - 1], MaxBackoff)

\* Without further calls of start(), the workers launched are the first one
\* and one per restart, and the limit holds.
LaunchesAreCounted ==
  /\ launches > 0 => launches + (IF timer # 0 THEN 1 ELSE 0) <= restarts + 1
  /\ launches <= RestartMax + 1

\* The gate is open only while there is a worker.
ReadyMeansWorker == Ready => child # 0

\* Once a shutdown is in flight no worker is launched and no restart armed,
\* whatever timers, watchers and exits are still to come.
NoLaunchAfterShutdown == [][shutting => launches' = launches /\ timer' = 0]_vars

\* A shutdown ends with the supervisor stopped and no worker left.
ShutdownEnds == shutting ~> ~running /\ alive = {}

\* A worker that does not become ready after its launch is ended.  (Once its
\* watcher has seen it ready nobody watches it any more: a worker whose later
\* handshake fails stays, not ready.)
SlowWorkerEnds == \A n \in Workers : n \in watchers /\ child = n ~> Ready \/ n \notin alive

-----------------------------------------------------------------------------
(* What the repository says of the supervisor and the code does not keep.   *)

\* status() reports the delay of the restart that is scheduled.
NextRestartDelay == IF timer # 0 THEN backoff ELSE 0
ReportedDelayIsScheduled == NextRestartDelay = timer

=============================================================================
