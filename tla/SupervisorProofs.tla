-------------------------- MODULE SupervisorProofs --------------------------
(***************************************************************************)
(* Theorems about Supervisor as the server uses it: started once at boot.  *)
(***************************************************************************)
EXTENDS Supervisor, Induction, TLAPS

USE BackoffAssumption, LimitsAssumption

\* The type invariant is inductive.
LEMMA TypeStep == TypeOK /\ [Next]_vars => TypeOK'
<1> SUFFICES ASSUME TypeOK, [Next]_vars PROVE TypeOK'
  OBVIOUS
<1> USE DEF TypeOK
<1>1. CASE Start
  <2>1. /\ running' \in BOOLEAN /\ shutting' \in BOOLEAN /\ live' \in BOOLEAN
        /\ readiness' = "handshake_pending"
    BY <1>1 DEF Start, Launch
  <2>2. child' \in Nat /\ launches' \in Nat /\ asking' \in Nat
    BY <1>1 DEF Start, Launch, Least
  <2>3. watchers' \subseteq Nat /\ alive' \subseteq Nat /\ unborn' \subseteq Nat
    BY <1>1 DEF Start, Launch
  <2>4. UNCHANGED <<retryVars, condemned, stopVars, doomed>>
    BY <1>1 DEF Start
  <2> QED BY <2>1, <2>2, <2>3, <2>4 DEF retryVars, stopVars
<1>2. CASE Restart
  <2>1. timer' = 0 /\ UNCHANGED <<restarts, failures, backoff, live, condemned, stopVars, doomed>>
    BY <1>2 DEF Restart
  <2>2. CASE shutting
    <3>1. UNCHANGED <<lifeVars, readiness, watchers, alive, unborn, asking>>
      BY <1>2, <2>2 DEF Restart
    <3> QED BY <2>1, <3>1 DEF lifeVars, stopVars
  <2>3. CASE ~shutting
    <3>1. Launch /\ UNCHANGED <<running, shutting>>
      BY <1>2, <2>3 DEF Restart
    <3>2. child' \in Nat /\ launches' \in Nat /\ asking' \in Nat
      BY <3>1 DEF Launch, Least
    <3>3. watchers' \subseteq Nat /\ alive' \subseteq Nat /\ unborn' \subseteq Nat
      BY <3>1 DEF Launch
    <3>4. readiness' = "handshake_pending"
      BY <3>1 DEF Launch
    <3> QED BY <2>1, <3>1, <3>2, <3>3, <3>4 DEF stopVars
  <2> QED BY <2>2, <2>3
<1>3. ASSUME NEW n \in Workers, Exit(n) PROVE TypeOK'
  <2>1. /\ child' \in Nat /\ restarts' \in Nat /\ failures' \in Nat
        /\ backoff' \in Nat /\ timer' \in Nat /\ asking' \in Nat
    BY <1>3 DEF Exit, HandleExit, Unexpected, Stop, Doubled, Least
  <2>2. running' \in BOOLEAN /\ live' \in BOOLEAN
    BY <1>3 DEF Exit, HandleExit, Unexpected, Stop
  <2>3. readiness' \in {"worker_exit", "shutdown_in_progress"}
    BY <1>3 DEF Exit, HandleExit, Unexpected, Stop
  <2>4. /\ alive' \subseteq Nat /\ unborn' \subseteq Nat /\ doomed' \subseteq Nat
        /\ UNCHANGED <<shutting, launches, watchers, condemned, stopVars>>
    BY <1>3 DEF Exit, HandleExit
  <2> QED BY <2>1, <2>2, <2>3, <2>4 DEF stopVars
<1>4. CASE ReadyLine
  BY <1>4 DEF ReadyLine, lifeVars, stopVars, procVars
<1>5. CASE HandshakeSuccess \/ HandshakeFailure
  <2>1. asking' \in Nat /\ failures' \in Nat /\ readiness' \in {"handshake_complete", "handshake_failed"}
    BY <1>5 DEF HandshakeSuccess, HandshakeFailure, retryVars
  <2>2. UNCHANGED <<lifeVars, restarts, backoff, timer, live, watchers, condemned, stopVars, procVars>>
    BY <1>5 DEF HandshakeSuccess, HandshakeFailure, retryVars
  <2> QED BY <2>1, <2>2 DEF lifeVars, stopVars, procVars
<1>6. CASE Shutdown
  BY <1>6 DEF Shutdown, procVars
<1>7. CASE GraceExceeded
  <2>1. doomed' \subseteq Nat /\ inGrace' = FALSE
    BY <1>7 DEF GraceExceeded
  <2>2. UNCHANGED <<lifeVars, retryVars, healthVars, watchers, condemned, stopping, alive, unborn, asking>>
    BY <1>7 DEF GraceExceeded
  <2> QED BY <2>1, <2>2 DEF lifeVars, retryVars, healthVars
<1>8. CASE ShutdownDone
  BY <1>8 DEF ShutdownDone, retryVars, procVars
<1>9. ASSUME NEW n \in Workers, Spawned(n) PROVE TypeOK'
  BY <1>9 DEF Spawned, lifeVars, retryVars, stopVars
<1>10. ASSUME NEW n \in Workers, WatcherReady(n) \/ WatcherTimeout(n) \/ CondemnedKill(n) PROVE TypeOK'
  <2> USE DEF Workers, lifeVars, retryVars, healthVars, stopVars, procVars
  <2>1. CASE WatcherReady(n)
    BY <2>1 DEF WatcherReady
  <2>2. CASE WatcherTimeout(n)
    BY <2>2 DEF WatcherTimeout
  <2>3. CASE CondemnedKill(n)
    BY <2>3 DEF CondemnedKill
  <2> QED BY <1>10, <2>1, <2>2, <2>3
<1>11. CASE UNCHANGED vars
  BY <1>11 DEF vars, lifeVars, retryVars, healthVars, stopVars, procVars
<1> HIDE DEF TypeOK
<1> QED BY <1>1, <1>2, <1>3, <1>4, <1>5, <1>6, <1>7, <1>8, <1>9, <1>10, <1>11 DEF Next

-----------------------------------------------------------------------------
(* The inductive invariant.                                                 *)

\* A restart is armed only while there is neither worker nor shutdown, so that
\* its launch finds the place free; a shutdown awaits the child; the calls the
\* transport has pending are the child's.
WorkerConsistent ==
  /\ OneWorker /\ ReadyMeansWorker /\ LaunchesAreCounted
  /\ child <= launches
  /\ running => launches # 0
  /\ launches = 0 => ~shutting /\ restarts = 0 /\ timer = 0 /\ child = 0
  /\ timer # 0 => child = 0 /\ ~shutting /\ restarts <= RestartMax
  /\ shutting /\ child # 0 => stopping = child
  /\ stopping # 0 => shutting
  /\ asking > 0 => child # 0
  /\ unborn \subseteq alive
  /\ backoff # 0

\* A step that leaves the worker and the restarts alone; it may move the
\* readiness, but makes it complete only for a worker.
Quiet ==
  /\ UNCHANGED <<running, shutting, child, launches, restarts, timer, alive, stopping>>
  /\ backoff' # 0 /\ unborn' \subseteq unborn
  /\ readiness' = "handshake_complete" => readiness = "handshake_complete" \/ child # 0
  /\ asking' > 0 => child # 0

LEMMA QuietWorker == TypeOK /\ WorkerConsistent /\ Quiet => WorkerConsistent'
BY DEF Quiet, WorkerConsistent, OneWorker, ReadyMeansWorker, LaunchesAreCounted, Ready

LEMMA QuietSteps ==
  ASSUME TypeOK, WorkerConsistent,
         \/ ReadyLine \/ HandshakeSuccess \/ HandshakeFailure \/ GraceExceeded
         \/ (\E n \in Workers : Spawned(n) \/ WatcherReady(n) \/ WatcherTimeout(n) \/ CondemnedKill(n))
         \/ UNCHANGED vars
  PROVE  Quiet /\ UNCHANGED running /\ (live' = live \/ (live' = TRUE /\ child # 0))
<1>0. /\ asking \in Nat /\ backoff # 0 /\ (asking > 0 => child # 0)
      /\ InitialBackoff # 0 /\ alive = {child} \ {0} /\ unborn \subseteq alive
  BY DEF TypeOK, WorkerConsistent, OneWorker
<1> USE DEF Quiet, Ready, lifeVars, retryVars, healthVars, stopVars, procVars
<1>1. CASE ReadyLine
  BY <1>0, <1>1 DEF ReadyLine
<1>2. CASE HandshakeSuccess
  BY <1>0, <1>2 DEF HandshakeSuccess
<1>3. CASE HandshakeFailure
  BY <1>0, <1>3 DEF HandshakeFailure
<1>4. CASE GraceExceeded
  BY <1>0, <1>4 DEF GraceExceeded
<1>5. ASSUME NEW n \in Workers, Spawned(n)
      PROVE Quiet /\ UNCHANGED running /\ live' = TRUE /\ child # 0
  BY <1>0, <1>5 DEF Spawned
<1>6. ASSUME NEW n \in Workers, WatcherReady(n) PROVE Quiet /\ UNCHANGED <<running, live>>
  BY <1>0, <1>6 DEF WatcherReady
<1>7. ASSUME NEW n \in Workers, WatcherTimeout(n) PROVE Quiet /\ UNCHANGED <<running, live>>
  BY <1>0, <1>7 DEF WatcherTimeout
<1>8. ASSUME NEW n \in Workers, CondemnedKill(n) PROVE Quiet /\ UNCHANGED <<running, live>>
  BY <1>0, <1>8 DEF CondemnedKill
<1>9. CASE UNCHANGED vars
  BY <1>0, <1>9 DEF vars
<1> HIDE DEF Quiet
<1> QED BY <1>1, <1>2, <1>3, <1>4, <1>5, <1>6, <1>7, <1>8, <1>9

\* What an exit does: the worker was the child, and the restarts are counted.
LEMMA ExitStep ==
  ASSUME TypeOK, WorkerConsistent, NEW n \in Workers, Exit(n)
  PROVE  /\ child # 0 /\ timer = 0 /\ launches > 0
         /\ alive' = {} /\ unborn' = {} /\ child' = 0 /\ asking' = 0
         /\ UNCHANGED <<shutting, launches, stopping>>
         /\ readiness' # "handshake_complete"
         /\ \/ shutting /\ timer' = 0 /\ UNCHANGED <<restarts, backoff>>
            \/ /\ ~shutting /\ restarts' = restarts + 1
               /\ \/ timer' = 0 /\ UNCHANGED backoff /\ ~live' /\ ~running'
                  \/ /\ timer' # 0 /\ backoff' # 0 /\ restarts' <= RestartMax
                     /\ live' /\ UNCHANGED running
<1>0. /\ restarts \in Nat /\ backoff \in Nat \ {0} /\ child \in Nat /\ launches \in Nat
      /\ alive = {child} \ {0} /\ unborn \subseteq alive /\ child <= launches
      /\ (timer # 0 => child = 0)
  BY DEF TypeOK, WorkerConsistent, OneWorker
<1>1. /\ n = child /\ child # 0 /\ alive' = alive \ {n} /\ unborn' = unborn \ {n} /\ HandleExit
      /\ UNCHANGED stopVars
  BY <1>0 DEF Exit
<1>2. /\ child' = 0 /\ asking' = 0 /\ UNCHANGED <<shutting, launches, stopping>>
  BY <1>1 DEF HandleExit, stopVars
<1>3. CASE shutting
  BY <1>0, <1>1, <1>2, <1>3 DEF HandleExit, Stop
<1>4. CASE ~shutting
  <2>1. Unexpected
    BY <1>1, <1>4 DEF HandleExit
  <2>2. CASE GiveUp
    BY <1>0, <1>1, <1>2, <1>4, <2>1, <2>2 DEF Unexpected, Stop
  <2>3. CASE ~GiveUp
    <3>1. /\ timer' = Least(backoff, MaxBackoff) /\ backoff' = Doubled(Least(backoff, MaxBackoff))
          /\ restarts' = restarts + 1 /\ readiness' = "worker_exit" /\ live' /\ UNCHANGED running
      BY <2>1, <2>3 DEF Unexpected
    <3>2. timer' # 0 /\ backoff' # 0
      BY <1>0, <3>1 DEF Least, Doubled
    <3>3. restarts' <= RestartMax
      BY <1>0, <2>3, <3>1 DEF GiveUp
    <3> QED BY <1>0, <1>1, <1>2, <1>4, <3>1, <3>2, <3>3
  <2> QED BY <2>2, <2>3
<1> QED BY <1>3, <1>4

LEMMA WorkerStep ==
  ASSUME ~StartAgain
  PROVE  TypeOK /\ WorkerConsistent /\ [Next]_vars => WorkerConsistent'
<1> SUFFICES ASSUME TypeOK, WorkerConsistent, [Next]_vars PROVE WorkerConsistent'
  OBVIOUS
<1>0. /\ shutting \in BOOLEAN /\ child \in Nat /\ launches \in Nat /\ restarts \in Nat
      /\ timer \in Nat /\ asking \in Nat /\ backoff \in Nat /\ stopping \in Nat
  BY DEF TypeOK
<1> USE DEF WorkerConsistent, OneWorker, LaunchesAreCounted, ReadyMeansWorker, Ready
<1>1. CASE Start
  <2>1. launches = 0 /\ Launch /\ UNCHANGED <<retryVars, stopVars>> /\ ~shutting'
    BY <1>1 DEF Start
  <2>5. alive = {} /\ unborn = {}
    BY <1>0, <2>1
  <2>2. /\ child' = 1 /\ launches' = 1 /\ alive' = {1} /\ unborn' = {1}
        /\ readiness' = "handshake_pending"
    BY <2>1, <2>5 DEF Launch
  <2>3. UNCHANGED <<restarts, backoff, timer, stopping>>
    BY <2>1 DEF retryVars, stopVars
  <2>4. restarts = 0 /\ timer = 0 /\ ~shutting /\ stopping = 0
    BY <1>0, <2>1
  <2> QED BY <1>0, <2>1, <2>2, <2>3, <2>4
<1>2. CASE Restart
  <2>1. timer # 0 /\ child = 0 /\ ~shutting
    BY <1>2 DEF Restart
  <2>2. /\ Launch /\ timer' = 0
        /\ UNCHANGED <<shutting, restarts, backoff, stopping>>
    BY <1>2, <2>1 DEF Restart, stopVars
  <2>3. /\ child' = launches + 1 /\ launches' = launches + 1 /\ alive' = {launches + 1}
        /\ unborn' = unborn \cup {launches + 1} /\ readiness' = "handshake_pending"
    BY <1>0, <2>1, <2>2 DEF Launch
  <2>4. unborn' \subseteq alive' /\ launches > 0
    BY <1>0, <2>1, <2>3
  <2> QED BY <1>0, <2>1, <2>2, <2>3, <2>4
<1>3. ASSUME NEW n \in Workers, Exit(n) PROVE WorkerConsistent'
  BY <1>0, <1>3, ExitStep
<1>4. CASE Shutdown
  <2>1. UNCHANGED <<child, launches, restarts, backoff, alive, unborn, asking>>
    BY <1>4 DEF Shutdown, procVars
  <2>2. shutting' /\ timer' = 0 /\ stopping' = child /\ readiness' = "shutdown_initiated" /\ running
    BY <1>4 DEF Shutdown
  <2>3. launches # 0
    BY <2>2
  <2> QED BY <1>0, <2>1, <2>2, <2>3
<1>5. CASE ShutdownDone
  <2>1. shutting /\ stopping # child /\ child = 0
    BY <1>0, <1>5 DEF ShutdownDone
  <2> QED BY <1>0, <1>5, <2>1 DEF ShutdownDone, retryVars, procVars
<1> HIDE DEF WorkerConsistent
<1>6. CASE Quiet
  BY <1>6, QuietWorker
<1> QED BY <1>1, <1>2, <1>3, <1>4, <1>5, <1>6, QuietSteps DEF Next

\* A launch, an exit and a shutdown keep the supervisor either stopped or with
\* something that will go on.
LEMMA StallStep ==
  ASSUME ~StartAgain
  PROVE  TypeOK /\ WorkerConsistent /\ NeverStalls /\ [Next]_vars => NeverStalls'
<1> SUFFICES ASSUME TypeOK, WorkerConsistent, NeverStalls, [Next]_vars, ~shutting', launches' > 0
             PROVE  (running' <=> (child' # 0 \/ timer' # 0)) /\ (live' <=> running')
  BY DEF NeverStalls
<1>0. launches \in Nat /\ running \in BOOLEAN /\ live \in BOOLEAN
  BY DEF TypeOK
<1>1. CASE Start
  <2>1. child' # 0
    BY <1>0, <1>1 DEF Start, Launch
  <2> QED BY <1>1, <2>1 DEF Start
<1>2. CASE Restart
  <2>1. timer # 0 /\ ~shutting /\ launches > 0
    BY <1>0, <1>2 DEF Restart, WorkerConsistent
  <2>2. child' # 0 /\ UNCHANGED <<running, live>>
    BY <1>0, <1>2, <2>1 DEF Restart, Launch
  <2> QED BY <2>1, <2>2 DEF NeverStalls
<1>3. ASSUME NEW n \in Workers, Exit(n)
      PROVE  (running' <=> (child' # 0 \/ timer' # 0)) /\ (live' <=> running')
  <2>1. /\ child # 0 /\ launches > 0 /\ ~shutting /\ child' = 0
    BY <1>3, ExitStep
  <2>2. running
    BY <2>1 DEF NeverStalls
  <2> QED BY <1>3, <2>1, <2>2, ExitStep
<1>4. CASE Shutdown
  BY <1>4 DEF Shutdown
<1>5. CASE ShutdownDone
  BY <1>5 DEF ShutdownDone, WorkerConsistent
<1>6. CASE Quiet /\ UNCHANGED running /\ (live' = live \/ (live' = TRUE /\ child # 0))
  BY <1>6 DEF Quiet, NeverStalls
<1> QED BY <1>1, <1>2, <1>3, <1>4, <1>5, <1>6, QuietSteps DEF Next

-----------------------------------------------------------------------------
(* The delays.                                                              *)

\* Grown is what its definition says: it starts at InitialBackoff and doubles.
LEMMA GrownDoubles ==
  /\ Grown \in [Nat -> Nat] /\ Grown[0] = InitialBackoff
  /\ \A n \in Nat : Grown[n + 1] = 2 * Grown[n]
<1>1. PICK step \in [Nat \X Nat -> Nat] : \A n, v \in Nat : step[<<n, v>>] = 2 * v
  <2>1. [s \in Nat \X Nat |-> 2 * s[2]] \in [Nat \X Nat -> Nat]
    OBVIOUS
  <2> QED BY <2>1
<1>2. PICK f : Iterates(f, Nat, InitialBackoff, step)
  BY PrimitiveRecursion
<1>3. \A n \in Nat : f[n + 1] = 2 * f[n]
  BY <1>1, <1>2 DEF Iterates
<1> DEFINE Unfolds(g) == g = [n \in Nat |-> IF n = 0 THEN InitialBackoff ELSE 2 * g[n - 1]]
<1>4. Unfolds(f)
  <2>1. ASSUME NEW n \in Nat PROVE f[n] = IF n = 0 THEN InitialBackoff ELSE 2 * f[n - 1]
    <3>1. CASE n = 0
      BY <1>2, <3>1 DEF Iterates
    <3>2. CASE n # 0
      <4>1. n - 1 \in Nat /\ (n - 1) + 1 = n
        BY <3>2
      <4>2. f[(n - 1) + 1] = 2 * f[n - 1]
        BY <1>3, <4>1
      <4> QED BY <3>2, <4>1, <4>2
    <3> QED BY <3>1, <3>2
  <2> QED BY <1>2, <2>1 DEF Iterates
<1>5. Grown = CHOOSE g : Unfolds(g)
  BY DEF Grown
<1> HIDE DEF Unfolds
<1>6. Unfolds(Grown)
  BY <1>4, <1>5
<1>7. Grown = [n \in Nat |-> IF n = 0 THEN InitialBackoff ELSE 2 * Grown[n - 1]]
  BY <1>6 DEF Unfolds
<1>8. Grown[0] = InitialBackoff /\ \A n \in Nat : Grown[n + 1] = 2 * Grown[n]
  BY <1>7
<1> DEFINE S == {n \in Nat : Grown[n] \in Nat}
<1>9. 0 \in S /\ \A n \in Nat : n \in S => n + 1 \in S
  BY <1>8
<1> HIDE DEF S
<1>10. \A n \in Nat : n \in S
  BY <1>9, SetInduction
<1>11. \A n \in Nat : Grown[n] \in Nat
  BY <1>10 DEF S
<1> QED BY <1>7, <1>8, <1>11

LEMMA GrownAtLeast == \A n \in Nat : Grown[n] >= InitialBackoff
<1> DEFINE S == {n \in Nat : Grown[n] >= InitialBackoff}
<1>1. 0 \in S
  BY GrownDoubles
<1>2. ASSUME NEW n \in Nat, n \in S PROVE n + 1 \in S
  <2>1. Grown[n] \in Nat /\ Grown[n + 1] = 2 * Grown[n] /\ Grown[n] >= InitialBackoff
    BY <1>2, GrownDoubles
  <2> QED BY <2>1
<1> HIDE DEF S
<1>3. \A n \in Nat : n \in S
  BY <1>1, <1>2, SetInduction
<1> QED BY <1>3 DEF S

\* The delay kept for the next restart has doubled once per failure counted,
\* until the restarts are used up: the exit after the last one counts a failure
\* and leaves the delay alone.
BackoffConsistent ==
  /\ restarts <= RestartMax => backoff >= Least(Grown[failures], MaxBackoff)
  /\ BackoffCoversFailures

\* A step that counts no failure, or none since.
LEMMA BackoffKept ==
  ASSUME TypeOK, BackoffConsistent, UNCHANGED restarts, failures' = failures \/ failures' = 0,
         backoff' = backoff \/ (backoff' = InitialBackoff /\ failures' = 0),
         timer' = timer \/ timer' = 0
  PROVE  BackoffConsistent'
<1>0. /\ failures \in Nat /\ backoff \in Nat /\ timer \in Nat
      /\ Grown[failures] \in Nat /\ Grown[0] = InitialBackoff /\ Grown[failures] >= InitialBackoff
  BY GrownDoubles, GrownAtLeast DEF TypeOK
<1>1. (restarts <= RestartMax => backoff >= Least(Grown[failures], MaxBackoff))'
  BY <1>0 DEF BackoffConsistent, Least
<1>2. BackoffCoversFailures'
  BY <1>0 DEF BackoffConsistent, BackoffCoversFailures
<1> QED BY <1>1, <1>2 DEF BackoffConsistent

\* An exit that arms the timer: the delay is at least the one for the failures
\* before it, and the next one is twice as long.
LEMMA BackoffGrows ==
  ASSUME TypeOK, BackoffConsistent, restarts <= RestartMax, failures' = failures + 1,
         timer' = Least(backoff, MaxBackoff), backoff' = Doubled(Least(backoff, MaxBackoff))
  PROVE  BackoffConsistent'
<1>0. /\ failures \in Nat /\ backoff \in Nat /\ Grown[failures] \in Nat
      /\ Grown[failures + 1] = 2 * Grown[failures]
      /\ backoff >= Least(Grown[failures], MaxBackoff)
  BY GrownDoubles DEF TypeOK, BackoffConsistent
<1>1. timer' >= Least(Grown[failures' - 1], MaxBackoff)
  <2>1. failures' - 1 = failures
    BY <1>0
  <2> QED BY <1>0, <2>1 DEF Least
<1>2. backoff' >= Least(Grown[failures'], MaxBackoff)
  BY <1>0 DEF Least, Doubled
<1> QED BY <1>1, <1>2 DEF BackoffConsistent, BackoffCoversFailures

LEMMA BackoffStep == TypeOK /\ BackoffConsistent /\ [Next]_vars => BackoffConsistent'
<1> SUFFICES ASSUME TypeOK, BackoffConsistent, [Next]_vars PROVE BackoffConsistent'
  OBVIOUS
<1>1. CASE Start
  BY <1>1, BackoffKept DEF Start, retryVars
<1>2. CASE Restart
  BY <1>2, BackoffKept DEF Restart
<1>3. CASE ReadyLine
  BY <1>3, BackoffKept DEF ReadyLine
<1>4. CASE HandshakeSuccess \/ HandshakeFailure
  BY <1>4, BackoffKept DEF HandshakeSuccess, HandshakeFailure, retryVars
<1>5. CASE Shutdown
  BY <1>5, BackoffKept DEF Shutdown
<1>6. CASE GraceExceeded \/ ShutdownDone
  BY <1>6, BackoffKept DEF GraceExceeded, ShutdownDone, retryVars
<1>7. ASSUME NEW n \in Workers, Spawned(n) \/ WatcherReady(n) \/ WatcherTimeout(n) \/ CondemnedKill(n)
      PROVE  BackoffConsistent'
  BY <1>7, BackoffKept DEF Spawned, WatcherReady, WatcherTimeout, CondemnedKill, retryVars
<1>8. ASSUME NEW n \in Workers, Exit(n) PROVE BackoffConsistent'
  <2>0. restarts \in Nat
    BY DEF TypeOK
  <2>1. CASE shutting
    BY <1>8, <2>1, BackoffKept DEF Exit, HandleExit, Stop
  <2>2. CASE ~shutting /\ GiveUp
    <3>1. restarts' > RestartMax /\ timer' = 0
      BY <1>8, <2>0, <2>2 DEF Exit, HandleExit, Unexpected, Stop, GiveUp
    <3>2. ~(restarts' <= RestartMax)
      BY <1>8, <2>0, <2>2 DEF Exit, HandleExit, Unexpected, GiveUp
    <3> QED BY <3>1, <3>2 DEF BackoffConsistent, BackoffCoversFailures
  <2>3. CASE ~shutting /\ ~GiveUp
    <3>1. /\ failures' = failures + 1 /\ timer' = Least(backoff, MaxBackoff)
          /\ backoff' = Doubled(Least(backoff, MaxBackoff))
      BY <1>8, <2>3 DEF Exit, HandleExit, Unexpected
    <3>2. restarts <= RestartMax
      BY <2>0, <2>3 DEF GiveUp
    <3> QED BY <3>1, <3>2, BackoffGrows
  <2> QED BY <2>1, <2>2, <2>3
<1>9. CASE UNCHANGED vars
  BY <1>9, BackoffKept DEF vars, retryVars
<1> QED BY <1>1, <1>2, <1>3, <1>4, <1>5, <1>6, <1>7, <1>8, <1>9 DEF Next

-----------------------------------------------------------------------------
(* The theorems.                                                            *)

LEMMA InitType == Init => TypeOK
<1> SUFFICES ASSUME Init PROVE TypeOK
  OBVIOUS
<1>1. backoff \in Nat
  BY DEF Init
<1> QED BY <1>1 DEF Init, TypeOK

\* Every variable keeps its type, with or without further calls of start().
THEOREM TypeCorrect == Spec => []TypeOK
BY InitType, TypeStep, PTL DEF Spec

LEMMA WorkersConsistent == ASSUME ~StartAgain PROVE Spec => [](TypeOK /\ WorkerConsistent /\ NeverStalls)
<1>1. Init => TypeOK /\ WorkerConsistent /\ NeverStalls
  <2> SUFFICES ASSUME Init PROVE TypeOK /\ WorkerConsistent /\ NeverStalls
    OBVIOUS
  <2>1. TypeOK
    BY InitType
  <2>2. OneWorker /\ LaunchesAreCounted /\ ReadyMeansWorker /\ NeverStalls
    BY DEF Init, OneWorker, LaunchesAreCounted, ReadyMeansWorker, Ready, NeverStalls
  <2> QED BY <2>1, <2>2 DEF Init, WorkerConsistent
<1>2. TypeOK /\ WorkerConsistent /\ NeverStalls /\ [Next]_vars
        => (TypeOK /\ WorkerConsistent /\ NeverStalls)'
  BY TypeStep, WorkerStep, StallStep
<1> QED BY <1>1, <1>2, PTL DEF Spec

\* One worker process at most, and it is the child.
THEOREM NoOrphans == ASSUME ~StartAgain PROVE Spec => []OneWorker
<1>1. WorkerConsistent => OneWorker
  BY DEF WorkerConsistent
<1> QED BY <1>1, WorkersConsistent, PTL

\* A running supervisor has a worker or an armed restart, and /livez says so.
THEOREM NoStall == ASSUME ~StartAgain PROVE Spec => []NeverStalls
BY WorkersConsistent, PTL

\* The restart limit bounds the workers launched.
THEOREM RestartsAreBounded == ASSUME ~StartAgain PROVE Spec => []LaunchesAreCounted
<1>1. WorkerConsistent => LaunchesAreCounted
  BY DEF WorkerConsistent
<1> QED BY <1>1, WorkersConsistent, PTL

\* The gate is closed while there is no worker.
THEOREM GateNeedsWorker == ASSUME ~StartAgain PROVE Spec => []ReadyMeansWorker
<1>1. WorkerConsistent => ReadyMeansWorker
  BY DEF WorkerConsistent
<1> QED BY <1>1, WorkersConsistent, PTL

\* From the shutdown on, no launch and no armed restart.
THEOREM ShutdownIsFinal == ASSUME ~StartAgain PROVE Spec => NoLaunchAfterShutdown
<1>1. TypeOK /\ WorkerConsistent /\ [Next]_vars => (shutting => launches' = launches /\ timer' = 0)
  <2> SUFFICES ASSUME TypeOK, WorkerConsistent, [Next]_vars, shutting
               PROVE  launches' = launches /\ timer' = 0
    OBVIOUS
  <2>0. timer = 0 /\ launches # 0
    BY DEF WorkerConsistent
  <2>1. CASE Start
    BY <2>0, <2>1 DEF Start
  <2>2. CASE Restart
    BY <2>0, <2>2 DEF Restart
  <2>3. ASSUME NEW n \in Workers, Exit(n) PROVE launches' = launches /\ timer' = 0
    BY <2>3, ExitStep
  <2>4. CASE Shutdown
    BY <2>4 DEF Shutdown
  <2>5. CASE ShutdownDone
    BY <2>0, <2>5 DEF ShutdownDone, retryVars
  <2>6. CASE Quiet
    BY <2>0, <2>6 DEF Quiet
  <2> QED BY <2>1, <2>2, <2>3, <2>4, <2>5, <2>6, QuietSteps DEF Next
<1> QED BY <1>1, WorkersConsistent, PTL DEF Spec, NoLaunchAfterShutdown

\* The delays grow, with or without further calls of start(): however exits,
\* ready lines, handshakes and watchers interleave, a restart is delayed at
\* least as long as the failures counted then ask for.
THEOREM DelaysGrow == Spec => []BackoffCoversFailures
<1>1. Init => BackoffConsistent
  <2> SUFFICES ASSUME Init PROVE BackoffConsistent
    OBVIOUS
  <2>1. backoff = Grown[0] /\ failures = 0 /\ timer = 0 /\ backoff \in Nat
    BY GrownDoubles DEF Init
  <2> QED BY <2>1 DEF BackoffConsistent, BackoffCoversFailures, Least
<1>2. BackoffConsistent => BackoffCoversFailures
  BY DEF BackoffConsistent
<1> QED BY <1>1, <1>2, InitType, TypeStep, BackoffStep, PTL DEF Spec

=============================================================================
