--------------------------- MODULE TransportProofs ---------------------------
(***************************************************************************)
(* Theorems about Transport, for every set of requests and every bound,    *)
(* the last of them that it implements RequestService.                     *)
(***************************************************************************)
EXTENDS TransportRefinement, FiniteSetTheorems, TLAPS

USE RequestsAssumption, BoundsAssumption

\* Settling a context keeps the types of what it changes.
LEMMA SettleType ==
  ASSUME TypeOK, NEW r \in Requests, NEW o \in {"resolved", "rejected"}, Settle(r, o)
  PROVE  /\ settled' \in [Requests -> {"none", "open", "resolved", "rejected"}]
         /\ byRequest' \subseteq Requests
         /\ byConv' \subseteq {"client", "server"} \X Requests
         /\ active' \in Nat
BY DEF TypeOK, Settle

\* A new initialize call keeps the types of the handshake variables.
LEMMA NewInitializeType ==
  ASSUME TypeOK, NewInitialize
  PROVE  hsPromise' \in Nat /\ initSeq' \in Nat /\ inits' \subseteq Nat /\ readiness' = "pending"
BY DEF TypeOK, NewInitialize

\* The calls of a request are known calls.
LEMMA RemovalType ==
  ASSUME NEW r \in Requests
  PROVE  Removal(r) \subseteq Rpcs
BY DEF Removal, Rpcs, Methods

\* Failing, cancelling and completing a context keep the types of what they
\* change.
LEMMA FailType ==
  ASSUME TypeOK, NEW r \in Requests, NEW rest \in SUBSET Rpcs, Fail(r, rest)
  PROVE  /\ crashed' \in BOOLEAN /\ pending' \subseteq Rpcs
         /\ active' \in Nat /\ byRequest' \subseteq Requests
         /\ byConv' \subseteq {"client", "server"} \X Requests
         /\ pc' \in [Requests -> Pcs]
         /\ settled' \in [Requests -> {"none", "open", "resolved", "rejected"}]
         /\ subscribed' \in [Requests -> BOOLEAN] /\ closed' \in [Requests -> BOOLEAN]
BY SettleType, RemovalType DEF TypeOK, Fail, FailWired, Crash, Pcs, tableVars

LEMMA CancelType ==
  ASSUME TypeOK, NEW r \in Requests, Cancel(r)
  PROVE  /\ pending' \subseteq Rpcs
         /\ active' \in Nat /\ byRequest' \subseteq Requests
         /\ byConv' \subseteq {"client", "server"} \X Requests
         /\ settled' \in [Requests -> {"none", "open", "resolved", "rejected"}]
         /\ subscribed' \in [Requests -> BOOLEAN]
BY SettleType, RemovalType DEF TypeOK, Cancel, RpcsOf, tableVars

LEMMA CompleteType ==
  ASSUME TypeOK, NEW r \in Requests, NEW res \in BOOLEAN, NEW fin \in BOOLEAN,
         NEW rest \in SUBSET Rpcs, CompleteIfBoth(r, res, fin, rest)
  PROVE  /\ crashed' \in BOOLEAN /\ pending' \subseteq Rpcs
         /\ active' \in Nat /\ byRequest' \subseteq Requests
         /\ byConv' \subseteq {"client", "server"} \X Requests
         /\ pc' \in [Requests -> Pcs] /\ closed' \in [Requests -> BOOLEAN]
         /\ settled' \in [Requests -> {"none", "open", "resolved", "rejected"}]
         /\ result' \in [Requests -> BOOLEAN] /\ final' \in [Requests -> BOOLEAN]
         /\ subscribed' \in [Requests -> BOOLEAN]
BY SettleType, RemovalType DEF TypeOK, CompleteIfBoth, tableVars

\* The type invariant is inductive.
LEMMA TypeStep == TypeOK /\ [Next]_vars => TypeOK'
<1> SUFFICES ASSUME TypeOK, [Next]_vars PROVE TypeOK'
  OBVIOUS
<1> USE DEF TypeOK
<1>1. CASE Spawn
  <2>1. /\ spawns' \in Nat /\ child' \in Nat
        /\ hsPromise' \in Nat /\ initSeq' \in Nat /\ inits' \subseteq Nat
    BY <1>1 DEF Spawn, NewInitialize
  <2>2. /\ readiness' = "pending" /\ hsDone' = FALSE
        /\ UNCHANGED <<crashed, listening, pending, tableVars, pc, hsOn, contextVars, closed>>
    BY <1>1 DEF Spawn, NewInitialize
  <2> QED BY <2>1, <2>2 DEF tableVars, contextVars
<1>2. CASE ReadyLine
  <2>1. /\ hsPromise' \in Nat /\ initSeq' \in Nat /\ inits' \subseteq Nat
        /\ readiness' = "pending" \/ readiness' = "failed"
    <3>1. CASE child # 0
      BY <1>2, <3>1, NewInitializeType DEF ReadyLine
    <3>2. CASE child = 0
      BY <1>2, <3>2 DEF ReadyLine
    <3> QED BY <3>1, <3>2
  <2>2. /\ hsDone' = FALSE
        /\ UNCHANGED <<crashed, workerVars, pending, tableVars, pc, hsOn, contextVars, closed>>
    BY <1>2 DEF ReadyLine
  <2> QED BY <2>1, <2>2 DEF workerVars, tableVars, contextVars
<1>3. CASE Exit
  <2>1. CASE \E r \in byRequest : ~wired[r]
    <3>1. /\ crashed' = TRUE
          /\ UNCHANGED <<workerVars, hsVars, pending, tableVars, pc, hsOn, contextVars, closed>>
      BY <1>3, <2>1 DEF Exit
    <3> QED BY <3>1 DEF workerVars, hsVars, tableVars, contextVars
  <2>2. CASE \A r \in byRequest : wired[r]
    <3>1. pc' \in [Requests -> Pcs]
      BY <1>3, <2>2 DEF Exit, Pcs, ReadyPcs
    <3>2. settled' \in [Requests -> {"none", "open", "resolved", "rejected"}]
      BY <1>3, <2>2 DEF Exit
    <3>3. /\ hsOn' = [r \in Requests |-> 0]
          /\ subscribed' = [r \in Requests |-> FALSE]
          /\ closed' = [r \in Requests |-> closed[r] \/ r \in byRequest]
      BY <1>3, <2>2, Zenon DEF Exit
    <3>5. hsOn' \in [Requests -> Nat]
      BY <3>3
    <3>6. subscribed' \in [Requests -> BOOLEAN] /\ closed' \in [Requests -> BOOLEAN]
      BY <3>3, Zenon
    <3>4. /\ child' = 0 /\ listening' = {} /\ hsDone' = FALSE /\ hsPromise' = 0 /\ inits' = {}
          /\ readiness' = "worker_exit" /\ pending' = {}
          /\ active' = 0 /\ byRequest' = {} /\ byConv' = {}
          /\ UNCHANGED <<crashed, spawns, initSeq, wired, result, final>>
      BY <1>3, <2>2 DEF Exit
    <3> QED BY <3>1, <3>2, <3>4, <3>5, <3>6
  <2> QED BY <2>1, <2>2
<1>4. ASSUME NEW n \in 1..MaxInits, InitializeOk(n) PROVE TypeOK'
  BY <1>4 DEF InitializeOk, Awaken, Pcs, ReadyPcs, workerVars, tableVars, contextVars
<1>5. ASSUME NEW n \in 1..MaxInits, InitializeError(n) \/ InitializeTimeout(n) PROVE TypeOK'
  <2>1. RejectInitialize(n)
    BY <1>5 DEF InitializeError, InitializeTimeout
  <2> QED BY <2>1 DEF RejectInitialize, Awaken, Pcs, ReadyPcs, workerVars, tableVars, contextVars
<1>6. ASSUME NEW r \in Requests, Refuse(r) PROVE TypeOK'
  BY <1>6 DEF Refuse, Pcs, workerVars, hsVars, tableVars, contextVars
<1>7. ASSUME NEW r \in Requests, Start(r) PROVE TypeOK'
  <2>1. /\ hsPromise' \in Nat /\ initSeq' \in Nat /\ inits' \subseteq Nat
        /\ hsDone' \in BOOLEAN
        /\ readiness' \in {"not_started", "pending", "complete", "failed", "worker_exit"}
    <3>1. CASE UNCHANGED hsVars
      BY <3>1 DEF hsVars
    <3>2. CASE NewInitialize /\ UNCHANGED hsDone
      BY <3>2, NewInitializeType
    <3> QED BY <1>7, <3>1, <3>2 DEF Start
  <2>2. pc' \in [Requests -> Pcs] /\ hsOn' \in [Requests -> Nat]
    BY <1>7 DEF Start, NewInitialize, Pcs, ReadyPcs
  <2>3. UNCHANGED <<crashed, workerVars, pending, tableVars, contextVars, closed>>
    BY <1>7 DEF Start
  <2> QED BY <2>1, <2>2, <2>3 DEF workerVars, tableVars, contextVars
<1>8. ASSUME NEW r \in Requests, HandshakeThrow(r) PROVE TypeOK'
  BY <1>8 DEF HandshakeThrow, Pcs, workerVars, hsVars, tableVars, contextVars
<1>9. ASSUME NEW r \in Requests, OpenContext(r) PROVE TypeOK'
  BY <1>9 DEF OpenContext, Pcs, Rpcs, Methods, workerVars, hsVars
<1>10. ASSUME NEW r \in Requests, Subscribe(r) PROVE TypeOK'
  BY <1>10 DEF Subscribe, Pcs, Rpcs, Methods, workerVars, hsVars, contextVars
<1>11. ASSUME NEW r \in Requests, SetupThrow(r) PROVE TypeOK'
  <2>1. /\ crashed' \in BOOLEAN
        /\ pc' \in [Requests -> Pcs] /\ closed' \in [Requests -> BOOLEAN]
    BY <1>11 DEF SetupThrow, Crash, Pcs
  <2>2. UNCHANGED <<workerVars, hsVars, hsOn, wired, result, final,
                    pending, tableVars, settled, subscribed>>
    BY <1>11 DEF SetupThrow, Crash
  <2> QED BY <2>1, <2>2 DEF workerVars, hsVars, tableVars
<1>12. ASSUME NEW r \in Requests, SendTurn(r) PROVE TypeOK'
  <2>1. UNCHANGED <<crashed, workerVars, hsVars, hsOn, result, final, closed>>
    BY <1>12 DEF SendTurn
  <2>2. CASE ~closed[r]
    <3>1. pending' \subseteq Rpcs
      BY <1>12, <2>2 DEF SendTurn, Rpcs, Methods
    <3>2. subscribed' \in [Requests -> BOOLEAN]
      BY <1>12, <2>2 DEF SendTurn
    <3>3. /\ pc' \in [Requests -> Pcs] /\ wired' \in [Requests -> BOOLEAN]
          /\ UNCHANGED <<settled, tableVars>>
      BY <1>12, <2>2 DEF SendTurn, Pcs
    <3> QED BY <2>1, <3>1, <3>2, <3>3 DEF workerVars, hsVars, tableVars
  <2>3. CASE closed[r]
    BY <1>12, <2>1, <2>3, SettleType DEF SendTurn, Pcs, workerVars, hsVars, tableVars
  <2> QED BY <2>2, <2>3
<1>13. ASSUME NEW r \in Requests, Finish(r) PROVE TypeOK'
  BY <1>13 DEF Finish, Pcs, workerVars, hsVars, tableVars, contextVars
<1>14. ASSUME NEW r \in Requests, Kill(r) PROVE TypeOK'
  BY <1>14, CancelType DEF Kill, Pcs, workerVars, hsVars, tableVars
<1>15. ASSUME NEW r \in Requests, RequestTimeout(r) PROVE TypeOK'
  BY <1>15, FailType DEF RequestTimeout, workerVars, hsVars
<1>16. ASSUME NEW r \in Requests, ConversationCreated(r) PROVE TypeOK'
  BY <1>16 DEF ConversationCreated, Pcs, ReadyPcs, workerVars, hsVars, tableVars, contextVars
<1>17. ASSUME NEW r \in Requests, ListenerAdded(r) PROVE TypeOK'
  BY <1>17 DEF ListenerAdded, Pcs, ReadyPcs, hsVars, tableVars, contextVars
<1>18. ASSUME NEW r \in Requests, TurnAccepted(r) PROVE TypeOK'
  BY <1>18 DEF TurnAccepted, workerVars, hsVars, contextVars
<1>19. ASSUME NEW r \in Requests, MessageAnswered(r) PROVE TypeOK'
  <2> DEFINE rest == pending \ {<<"sendUserMessage", r>>}
  <2>1. rest \in SUBSET Rpcs
    OBVIOUS
  <2>2. PICK res \in BOOLEAN : CompleteIfBoth(r, res, final[r], rest)
    BY <1>19 DEF MessageAnswered
  <2>3. UNCHANGED <<workerVars, hsVars, hsOn, wired>> /\ final[r] \in BOOLEAN
    BY <1>19 DEF MessageAnswered
  <2> HIDE DEF rest
  <2> QED BY <2>1, <2>2, <2>3, CompleteType DEF workerVars, hsVars
<1>20. ASSUME NEW r \in Requests, ListenerRemoved(r) PROVE TypeOK'
  BY <1>20 DEF ListenerRemoved, hsVars, tableVars
<1>21. ASSUME NEW r \in Requests, NEW m \in Methods, RejectRpc(m, r), ~crashed PROVE TypeOK'
  <2> DEFINE rest == pending \ {<<m, r>>}
  <2>1. CASE m \in {"newConversation", "addConversationListener"}
    BY <1>21, <2>1 DEF RejectRpc, Pcs, ReadyPcs, workerVars, hsVars, tableVars
  <2>2. CASE m \in {"sendUserTurn", "sendUserMessage"}
    <3>1. Fail(r, rest) /\ rest \subseteq Rpcs
      BY <1>21, <2>2 DEF RejectRpc
    <3>2. UNCHANGED <<workerVars, hsVars, hsOn, wired, result, final>>
      BY <1>21 DEF RejectRpc
    <3> HIDE DEF rest
    <3> QED BY <3>1, <3>2, FailType DEF workerVars, hsVars
  <2>3. CASE m = "removeConversationListener"
    BY <1>21, <2>3 DEF RejectRpc, workerVars, hsVars, tableVars
  <2> QED BY <2>1, <2>2, <2>3 DEF Methods
<1>22. ASSUME NEW c \in Requests, NEW r \in Requests, NEW res \in BOOLEAN, NEW fin \in BOOLEAN,
              Progress(c, r, res, fin)
       PROVE TypeOK'
  <2>1. (result[r] \/ res) \in BOOLEAN /\ (final[r] \/ fin) \in BOOLEAN
    OBVIOUS
  <2> QED BY <1>22, <2>1, CompleteType DEF Progress, Hear, workerVars, hsVars
<1>23. ASSUME NEW c \in Requests, NEW r \in Requests, WorkerTimeout(c, r) PROVE TypeOK'
  BY <1>23, FailType DEF WorkerTimeout, Hear, workerVars, hsVars
<1>24. ASSUME NEW c \in Requests, NEW r \in Requests, AuthRequired(c, r) PROVE TypeOK'
  BY <1>24, CancelType DEF AuthRequired, Hear, Pcs, workerVars, hsVars
<1>25. CASE UNCHANGED vars
  BY <1>25 DEF vars, workerVars, hsVars, tableVars, contextVars
<1> HIDE DEF TypeOK
<1> QED
  BY <1>1, <1>2, <1>3, <1>4, <1>5, <1>6, <1>7, <1>8, <1>9, <1>10, <1>11, <1>12, <1>13, <1>14,
     <1>15, <1>16, <1>17, <1>18, <1>19, <1>20, <1>21, <1>22, <1>23, <1>24, <1>25
     DEF Next, Continuation, Answer, Timer, Notification, RpcError, RpcTimeout

THEOREM TypeCorrect == Spec => []TypeOK
<1>1. Init => TypeOK
  <2> SUFFICES ASSUME Init PROVE TypeOK
    OBVIOUS
  <2>1. pc \in [Requests -> Pcs]
    BY DEF Init, Pcs
  <2>2. settled \in [Requests -> {"none", "open", "resolved", "rejected"}]
    BY DEF Init
  <2> QED BY <2>1, <2>2 DEF Init, TypeOK
<1> QED BY <1>1, TypeStep, PTL DEF Spec

-----------------------------------------------------------------------------
(* The phases of a request and its pending setup calls.                     *)

PhaseInv == PhaseConsistent /\ SetupCallsAwaited

\* An action that leaves a request's phase, context and setup calls alone
\* keeps what is known of it.
Untouched(r) ==
  /\ pc'[r] = pc[r] /\ settled'[r] = settled[r] /\ wired'[r] = wired[r] /\ closed'[r] = closed[r]
  /\ \A m \in {"newConversation", "addConversationListener"} :
       <<m, r>> \in pending' <=> <<m, r>> \in pending

PhaseOf(r) ==
  /\ pc[r] \in {"idle", "hsWait", "hsOk", "hsFail"} => settled[r] = "none"
  /\ settled[r] = "open" => pc[r] \in SettingUp \cup {"running"}
  /\ wired[r] => pc[r] \in {"running", "done"}
  /\ pc[r] = "running" => wired[r]
  /\ pc[r] = "running" /\ settled[r] = "open" => ~closed[r]
  /\ pc[r] = "convWait" <=> <<"newConversation", r>> \in pending
  /\ pc[r] = "listenWait" <=> <<"addConversationListener", r>> \in pending

LEMMA PhaseSplit == PhaseInv <=> \A r \in Requests : PhaseOf(r)
BY DEF PhaseInv, PhaseConsistent, SetupCallsAwaited, PhaseOf

LEMMA PhaseSplitNext == PhaseInv' <=> \A r \in Requests : PhaseOf(r)'
BY DEF PhaseInv, PhaseConsistent, SetupCallsAwaited, PhaseOf

\* A step that touches one request only keeps PhaseInv if that request's part holds.
LEMMA OneRequest ==
  ASSUME PhaseInv, NEW r \in Requests, PhaseOf(r)',
         \A q \in Requests \ {r} : Untouched(q)
  PROVE  PhaseInv'
<1>1. ASSUME NEW q \in Requests PROVE PhaseOf(q)'
  <2>1. CASE q = r
    BY <2>1
  <2>2. CASE q # r
    BY <2>2, PhaseSplit DEF PhaseOf, Untouched
  <2> QED BY <2>1, <2>2
<1> QED BY <1>1, PhaseSplitNext

LEMMA NoRequest ==
  ASSUME PhaseInv, \A q \in Requests : Untouched(q)
  PROVE  PhaseInv'
BY PhaseSplit, PhaseSplitNext DEF PhaseOf, Untouched

\* A removal call is not a setup call, and it is of its own request.
LEMMA RemovalIsNoSetup ==
  ASSUME NEW r \in Requests, NEW q \in Requests,
         NEW m \in {"newConversation", "addConversationListener"}
  PROVE  <<m, q>> \notin Removal(r)
BY DEF Removal

LEMMA FailPhase ==
  ASSUME TypeOK, PhaseInv, NEW r \in Requests, NEW rest \in SUBSET pending, Fail(r, rest),
         \A q \in Requests, m \in {"newConversation", "addConversationListener"} :
           <<m, q>> \in rest <=> <<m, q>> \in pending,
         UNCHANGED wired
  PROVE  PhaseInv'
<1>1. PhaseOf(r)
  BY PhaseSplit
<1>2. CASE settled[r] = "open" /\ wired[r]
  <2>1. FailWired(r, rest)
    BY <1>2 DEF Fail
  <2>2. PhaseOf(r)'
    BY <1>1, <1>2, <2>1, RemovalIsNoSetup DEF TypeOK, PhaseOf, FailWired, Settle
  <2>3. \A q \in Requests \ {r} : Untouched(q)
    BY <2>1, RemovalIsNoSetup DEF TypeOK, FailWired, Settle, Untouched
  <2> QED BY <2>2, <2>3, OneRequest
<1>3. CASE ~(settled[r] = "open" /\ wired[r])
  <2>1. \A q \in Requests : Untouched(q)
    BY <1>3 DEF Fail, Crash, Untouched
  <2> QED BY <2>1, NoRequest
<1> QED BY <1>2, <1>3

\* A wired request has no setup call pending, so cancelling it drops none.
LEMMA CancelPhase ==
  ASSUME TypeOK, PhaseInv, NEW r \in Requests, wired[r], Cancel(r), UNCHANGED wired,
         pc' = [pc EXCEPT ![r] = IF settled[r] = "open" THEN "done" ELSE @] \/ pc' = [pc EXCEPT ![r] = "done"],
         closed' \in [Requests -> BOOLEAN], \A q \in Requests \ {r} : closed'[q] = closed[q]
  PROVE  PhaseInv'
<1> DEFINE setup == {"newConversation", "addConversationListener"}
<1>1. PhaseOf(r)
  BY PhaseSplit
<1>2. \A q \in Requests, m \in setup : <<m, q>> \in pending' <=> <<m, q>> \in pending
  <2>1. \A m \in setup : <<m, r>> \notin pending
    BY <1>1 DEF PhaseOf
  <2>2. \A q \in Requests, m \in setup : <<m, q>> \in RpcsOf(r) <=> q = r /\ <<m, q>> \in pending
    BY DEF RpcsOf
  <2> QED BY <2>1, <2>2, RemovalIsNoSetup DEF Cancel
<1>3. \/ settled[r] = "open" /\ settled' = [settled EXCEPT ![r] = "rejected"]
      \/ settled[r] # "open" /\ settled' = settled
  BY DEF Cancel, Settle
<1>4. PhaseOf(r)'
  BY <1>1, <1>2, <1>3 DEF TypeOK, PhaseOf
<1>5. \A q \in Requests \ {r} : Untouched(q)
  BY <1>2, <1>3 DEF TypeOK, Untouched
<1> QED BY <1>4, <1>5, OneRequest

LEMMA CompletePhase ==
  ASSUME TypeOK, PhaseInv, NEW r \in Requests, NEW res, NEW fin, NEW rest \in SUBSET pending,
         CompleteIfBoth(r, res, fin, rest),
         \A q \in Requests, m \in {"newConversation", "addConversationListener"} :
           <<m, q>> \in rest <=> <<m, q>> \in pending,
         UNCHANGED wired
  PROVE  PhaseInv'
<1>1. PhaseOf(r)
  BY PhaseSplit
<1>2. \/ settled[r] = "open" /\ settled' = [settled EXCEPT ![r] = "resolved"] /\ pending' = rest \cup Removal(r)
      \/ settled' = settled /\ pending' = rest
  BY DEF CompleteIfBoth, Settle
<1>3. UNCHANGED <<pc, closed>>
  BY DEF CompleteIfBoth
<1>4. \A q \in Requests, m \in {"newConversation", "addConversationListener"} :
           <<m, q>> \in pending' <=> <<m, q>> \in pending
  BY <1>2, RemovalIsNoSetup
<1>5. PhaseOf(r)'
  BY <1>1, <1>2, <1>3, <1>4 DEF TypeOK, PhaseOf
<1>6. \A q \in Requests \ {r} : Untouched(q)
  BY <1>2, <1>3, <1>4 DEF TypeOK, Untouched
<1> QED BY <1>5, <1>6, OneRequest

\* Every step keeps the phases.
LEMMA PhaseStep == TypeOK /\ PhaseInv /\ [Next]_vars => PhaseInv'
<1> SUFFICES ASSUME TypeOK, PhaseInv, [Next]_vars PROVE PhaseInv'
  OBVIOUS
<1> USE DEF TypeOK
<1>1. CASE Spawn \/ ReadyLine
  BY <1>1, NoRequest DEF Spawn, ReadyLine, Untouched, contextVars
<1>2. CASE Exit
  <2>1. CASE \E r \in byRequest : ~wired[r]
    BY <1>2, <2>1, NoRequest DEF Exit, Untouched, contextVars
  <2>2. CASE \A r \in byRequest : wired[r]
    <3>1. SUFFICES ASSUME NEW q \in Requests PROVE PhaseOf(q)'
      BY PhaseSplitNext
    <3>2. PhaseOf(q) /\ ~HasContinuation(q)
      BY <1>2, PhaseSplit DEF Exit, Drained
    <3>3. pending' = {} /\ wired' = wired
      BY <1>2, <2>2 DEF Exit
    <3>4. CASE q \in byRequest
      <4>1. pc'[q] = "done" /\ settled'[q] = "rejected"
        BY <1>2, <2>2, <3>4 DEF Exit
      <4> QED BY <3>3, <4>1 DEF PhaseOf
    <3>5. CASE q \notin byRequest
      <4>1. /\ pc'[q] = CASE pc[q] = "hsWait" -> "hsFail"
                           [] pc[q] = "convWait" -> "convFail"
                           [] pc[q] = "listenWait" -> "listenFail"
                           [] OTHER -> pc[q]
            /\ settled'[q] = settled[q] /\ closed'[q] = closed[q]
        BY <1>2, <2>2, <3>5 DEF Exit
      <4> QED BY <3>2, <3>3, <4>1 DEF PhaseOf, SettingUp, HasContinuation, ReadyPcs
    <3> QED BY <3>4, <3>5
  <2> QED BY <2>1, <2>2
<1>3. ASSUME NEW n \in 1..MaxInits, InitializeOk(n) \/ InitializeError(n) \/ InitializeTimeout(n)
      PROVE PhaseInv'
  <2>1. SUFFICES ASSUME NEW q \in Requests PROVE PhaseOf(q)'
    BY PhaseSplitNext
  <2>2. PhaseOf(q)
    BY PhaseSplit
  <2>3. Awaken(n, "hsOk") \/ Awaken(n, "hsFail")
    BY <1>3 DEF InitializeOk, InitializeError, InitializeTimeout, RejectInitialize
  <2>4. pc'[q] = pc[q] \/ (pc[q] = "hsWait" /\ pc'[q] \in {"hsOk", "hsFail"})
    BY <2>3 DEF Awaken
  <2>5. UNCHANGED <<settled, wired, closed, pending>>
    BY <1>3 DEF InitializeOk, InitializeError, InitializeTimeout, RejectInitialize, contextVars
  <2> QED BY <2>2, <2>4, <2>5 DEF PhaseOf, SettingUp
<1>4. ASSUME NEW r \in Requests,
             \/ Refuse(r) \/ Start(r) \/ HandshakeThrow(r) \/ OpenContext(r) \/ Subscribe(r)
             \/ SetupThrow(r) \/ Finish(r) \/ ConversationCreated(r) \/ ListenerAdded(r)
             \/ TurnAccepted(r) \/ ListenerRemoved(r)
      PROVE PhaseInv'
  <2>1. PhaseOf(r)
    BY PhaseSplit
  <2> USE DEF Untouched, PhaseOf, SettingUp, contextVars
  <2>2. CASE Refuse(r)
    BY <2>1, <2>2, OneRequest DEF Refuse
  <2>3. CASE Start(r)
    BY <2>1, <2>3, OneRequest DEF Start
  <2>4. CASE HandshakeThrow(r)
    BY <2>1, <2>4, OneRequest DEF HandshakeThrow
  <2>5. CASE OpenContext(r)
    BY <2>1, <2>5, OneRequest DEF OpenContext
  <2>6. CASE Subscribe(r)
    BY <2>1, <2>6, OneRequest DEF Subscribe
  <2>7. CASE SetupThrow(r)
    BY <2>1, <2>7, OneRequest DEF SetupThrow, Crash
  <2>8. CASE Finish(r)
    BY <2>1, <2>8, OneRequest DEF Finish
  <2>9. CASE ConversationCreated(r)
    BY <2>1, <2>9, OneRequest DEF ConversationCreated
  <2>10. CASE ListenerAdded(r)
    BY <2>1, <2>10, OneRequest DEF ListenerAdded
  <2>11. CASE TurnAccepted(r)
    BY <2>1, <2>11, OneRequest DEF TurnAccepted
  <2>12. CASE ListenerRemoved(r)
    BY <2>1, <2>12, OneRequest DEF ListenerRemoved
  <2> QED BY <1>4, <2>2, <2>3, <2>4, <2>5, <2>6, <2>7, <2>8, <2>9, <2>10, <2>11, <2>12
<1>5. ASSUME NEW r \in Requests, SendTurn(r) PROVE PhaseInv'
  <2>1. PhaseOf(r)
    BY PhaseSplit
  <2>2. CASE ~closed[r]
    BY <1>5, <2>1, <2>2, OneRequest DEF SendTurn, Untouched, PhaseOf, SettingUp
  <2>3. CASE closed[r]
    <3>1. \/ settled[r] = "open" /\ settled' = [settled EXCEPT ![r] = "rejected"]
          \/ settled[r] # "open" /\ settled' = settled
      BY <1>5, <2>3 DEF SendTurn, Settle
    <3> QED BY <1>5, <2>1, <2>3, <3>1, OneRequest DEF SendTurn, Untouched, PhaseOf, SettingUp
  <2> QED BY <2>2, <2>3
<1>6. ASSUME NEW r \in Requests, Kill(r) PROVE PhaseInv'
  <2>1. PhaseOf(r)
    BY PhaseSplit
  <2>2. CASE wired[r]
    BY <1>6, <2>2, CancelPhase DEF Kill
  <2>3. CASE ~wired[r]
    BY <1>6, <2>1, <2>3, OneRequest DEF Kill, Untouched, PhaseOf
  <2> QED BY <2>2, <2>3
<1>7. ASSUME NEW r \in Requests, RequestTimeout(r) PROVE PhaseInv'
  BY <1>7, FailPhase DEF RequestTimeout
<1>8. ASSUME NEW r \in Requests, MessageAnswered(r) PROVE PhaseInv'
  <2> DEFINE rest == pending \ {<<"sendUserMessage", r>>}
  <2>1. (\E res \in BOOLEAN : CompleteIfBoth(r, res, final[r], rest)) /\ UNCHANGED wired
    BY <1>8 DEF MessageAnswered
  <2>2. /\ rest \in SUBSET pending
        /\ \A q \in Requests, m \in {"newConversation", "addConversationListener"} :
             <<m, q>> \in rest <=> <<m, q>> \in pending
    OBVIOUS
  <2> HIDE DEF rest
  <2> QED BY <2>1, <2>2, CompletePhase
<1>9. ASSUME NEW r \in Requests, NEW m \in Methods, RejectRpc(m, r) PROVE PhaseInv'
  <2> DEFINE rest == pending \ {<<m, r>>}
  <2>1. PhaseOf(r)
    BY PhaseSplit
  <2>2. CASE m \in {"newConversation", "addConversationListener"}
    BY <1>9, <2>1, <2>2, OneRequest DEF RejectRpc, Untouched, PhaseOf, SettingUp
  <2>3. CASE m \in {"sendUserTurn", "sendUserMessage"}
    <3>1. Fail(r, rest) /\ UNCHANGED wired
      BY <1>9, <2>3 DEF RejectRpc
    <3>2. /\ rest \in SUBSET pending
          /\ \A q \in Requests, k \in {"newConversation", "addConversationListener"} :
               <<k, q>> \in rest <=> <<k, q>> \in pending
      BY <2>3
    <3> HIDE DEF rest
    <3> QED BY <3>1, <3>2, FailPhase
  <2>4. CASE m = "removeConversationListener"
    BY <1>9, <2>4, NoRequest DEF RejectRpc, Untouched
  <2> QED BY <2>2, <2>3, <2>4 DEF Methods
<1>10. ASSUME NEW c \in Requests, NEW r \in Requests, NEW res \in BOOLEAN, NEW fin \in BOOLEAN,
              Progress(c, r, res, fin)
       PROVE PhaseInv'
  BY <1>10, CompletePhase DEF Progress, Hear
<1>11. ASSUME NEW c \in Requests, NEW r \in Requests, WorkerTimeout(c, r) PROVE PhaseInv'
  BY <1>11, FailPhase DEF WorkerTimeout, Hear
<1>12. ASSUME NEW c \in Requests, NEW r \in Requests, AuthRequired(c, r) PROVE PhaseInv'
  <2>1. /\ wired[r] /\ Cancel(r) /\ UNCHANGED wired
        /\ pc' = [pc EXCEPT ![r] = IF settled[r] = "open" THEN "done" ELSE @]
        /\ closed' = [closed EXCEPT ![r] = @ \/ settled[r] = "open"]
    BY <1>12 DEF AuthRequired, Hear
  <2>2. closed' \in [Requests -> BOOLEAN] /\ \A q \in Requests \ {r} : closed'[q] = closed[q]
    BY <2>1
  <2> QED BY <2>1, <2>2, CancelPhase
<1>13. CASE UNCHANGED vars
  BY <1>13, NoRequest DEF vars, contextVars, Untouched
<1> HIDE DEF TypeOK
<1> QED
  BY <1>1, <1>2, <1>3, <1>4, <1>5, <1>6, <1>7, <1>8, <1>9, <1>10, <1>11, <1>12, <1>13
     DEF Next, Continuation, Answer, Timer, Notification, RpcError, RpcTimeout

-----------------------------------------------------------------------------
(* The slots.                                                               *)

\* What a step can do to the contexts and the slot counter.
SlotStep ==
  \/ UNCHANGED <<settled, active, byRequest>>
  \/ \E r \in Requests, o \in {"resolved", "rejected"} : settled[r] = "open" /\ Settle(r, o)
  \/ \E r \in Requests : OpenContext(r)
  \/ /\ active' = 0 /\ byRequest' = {}
     /\ settled' = [r \in Requests |-> IF r \in byRequest THEN "rejected" ELSE settled[r]]

LEMMA SlotStepOfFail ==
  ASSUME NEW r \in Requests, NEW rest, Fail(r, rest)
  PROVE  SlotStep
BY DEF Fail, FailWired, Crash, SlotStep, tableVars

LEMMA SlotStepOfCancel ==
  ASSUME NEW r \in Requests, Cancel(r)
  PROVE  SlotStep
BY DEF Cancel, SlotStep, tableVars

LEMMA SlotStepOfComplete ==
  ASSUME NEW r \in Requests, NEW res, NEW fin, NEW rest, CompleteIfBoth(r, res, fin, rest)
  PROVE  SlotStep
BY DEF CompleteIfBoth, SlotStep, tableVars

\* Every step is one of the four.
LEMMA SlotSteps == [Next]_vars => SlotStep
<1> SUFFICES ASSUME [Next]_vars PROVE SlotStep
  OBVIOUS
<1>1. CASE Spawn \/ ReadyLine
  BY <1>1 DEF Spawn, ReadyLine, SlotStep, tableVars, contextVars
<1>2. CASE Exit
  BY <1>2 DEF Exit, SlotStep, tableVars, contextVars
<1>3. ASSUME NEW n \in 1..MaxInits, InitializeOk(n) \/ InitializeError(n) \/ InitializeTimeout(n)
      PROVE SlotStep
  BY <1>3 DEF InitializeOk, InitializeError, InitializeTimeout, RejectInitialize, SlotStep,
              tableVars, contextVars
<1>4. ASSUME NEW r \in Requests,
             \/ Refuse(r) \/ Start(r) \/ HandshakeThrow(r) \/ Subscribe(r)
             \/ Finish(r) \/ ConversationCreated(r) \/ ListenerAdded(r)
             \/ TurnAccepted(r) \/ ListenerRemoved(r)
      PROVE SlotStep
  BY <1>4 DEF Refuse, Start, HandshakeThrow, Subscribe, Finish, ConversationCreated,
              ListenerAdded, TurnAccepted, ListenerRemoved, SlotStep, tableVars, contextVars
<1>5. ASSUME NEW r \in Requests, SetupThrow(r) \/ SendTurn(r) PROVE SlotStep
  BY <1>5 DEF SetupThrow, Crash, SendTurn, SlotStep, tableVars
<1>6. ASSUME NEW r \in Requests, Kill(r) PROVE SlotStep
  <2>1. CASE wired[r]
    BY <1>6, <2>1, SlotStepOfCancel DEF Kill
  <2>2. CASE ~wired[r]
    BY <1>6, <2>2 DEF Kill, SlotStep, tableVars
  <2> QED BY <2>1, <2>2
<1>7. ASSUME NEW r \in Requests, RequestTimeout(r) \/ MessageAnswered(r) PROVE SlotStep
  BY <1>7, SlotStepOfFail, SlotStepOfComplete DEF RequestTimeout, MessageAnswered
<1>8. ASSUME NEW r \in Requests, NEW m \in Methods, RejectRpc(m, r) PROVE SlotStep
  BY <1>8, SlotStepOfFail DEF RejectRpc, SlotStep, tableVars
<1>9. ASSUME NEW c \in Requests, NEW r \in Requests, Notification(c, r) PROVE SlotStep
  BY <1>9, SlotStepOfFail, SlotStepOfCancel, SlotStepOfComplete
     DEF Notification, Progress, WorkerTimeout, AuthRequired
<1>10. ASSUME NEW r \in Requests, OpenContext(r) PROVE SlotStep
  BY <1>10 DEF SlotStep
<1>11. CASE UNCHANGED vars
  BY <1>11 DEF vars, tableVars, contextVars, SlotStep
<1> QED
  BY <1>1, <1>2, <1>3, <1>4, <1>5, <1>6, <1>7, <1>8, <1>9, <1>10, <1>11
     DEF Next, Continuation, Answer, Timer, RpcError, RpcTimeout

\* The counter stays the number of live contexts: a slot is taken for a
\* context that was not there, and given back for one that was.
LEMMA SlotAccountingStep == TypeOK /\ PhaseInv /\ SlotAccounting /\ [Next]_vars => SlotAccounting'
<1> SUFFICES ASSUME TypeOK, PhaseInv, SlotAccounting, SlotStep PROVE SlotAccounting'
  BY SlotSteps
<1>1. /\ settled \in [Requests -> {"none", "open", "resolved", "rejected"}]
      /\ active \in Nat
      /\ byRequest \subseteq Requests
  BY DEF TypeOK
<1>2. IsFiniteSet(byRequest)
  BY <1>1, FS_Subset
<1>3. CASE UNCHANGED <<settled, active, byRequest>>
  BY <1>3 DEF SlotAccounting
<1>4. ASSUME NEW r \in Requests, NEW o \in {"resolved", "rejected"}, settled[r] = "open", Settle(r, o)
      PROVE SlotAccounting'
  <2>1. byRequest' = byRequest \ {r} /\ settled' = [settled EXCEPT ![r] = o]
    BY <1>4 DEF Settle
  <2>2. byRequest' = {q \in Requests : settled'[q] = "open"}
    BY <1>1, <1>4, <2>1 DEF SlotAccounting
  <2>3. r \in byRequest /\ active = Cardinality(byRequest)
    BY <1>4 DEF SlotAccounting
  <2>4. Cardinality(byRequest \ {r}) = active - 1
    BY <1>2, <2>3, FS_RemoveElement
  <2>5. Cardinality(byRequest \ {r}) \in Nat
    BY <1>2, FS_CardinalityType, FS_RemoveElement
  <2>6. active' = active - 1
    BY <1>1, <1>4, <2>4, <2>5 DEF Settle
  <2> QED BY <2>1, <2>2, <2>4, <2>6 DEF SlotAccounting
<1>5. ASSUME NEW r \in Requests, OpenContext(r) PROVE SlotAccounting'
  <2>1. settled[r] = "none"
    BY <1>5, PhaseSplit DEF PhaseOf, OpenContext
  <2>2. byRequest' = byRequest \cup {r} /\ settled' = [settled EXCEPT ![r] = "open"] /\ active' = active + 1
    BY <1>5 DEF OpenContext
  <2>3. r \notin byRequest
    BY <2>1 DEF SlotAccounting
  <2>4. Cardinality(byRequest \cup {r}) = Cardinality(byRequest) + 1
    BY <1>2, <2>3, FS_AddElement
  <2>5. byRequest' = {q \in Requests : settled'[q] = "open"}
    BY <1>1, <2>2 DEF SlotAccounting
  <2> QED BY <2>2, <2>4, <2>5 DEF SlotAccounting
<1>6. CASE /\ active' = 0 /\ byRequest' = {}
           /\ settled' = [r \in Requests |-> IF r \in byRequest THEN "rejected" ELSE settled[r]]
  <2>1. \A q \in Requests : settled'[q] # "open"
    BY <1>1, <1>6 DEF SlotAccounting
  <2> QED BY <1>6, <2>1, FS_EmptySet DEF SlotAccounting
<1> QED BY <1>3, <1>4, <1>5, <1>6 DEF SlotStep

-----------------------------------------------------------------------------
(* The handshake and the admission.                                         *)

\* A step that leaves the handshake alone, starts nobody and takes no slot.
Calm ==
  /\ UNCHANGED <<hsVars, child, hsOn>>
  /\ \A q \in Requests : pc'[q] \in {"hsWait", "hsOk"} => pc'[q] = pc[q]
  /\ active' \in Nat /\ active' <= active

LEMMA CalmFail ==
  ASSUME TypeOK, NEW r \in Requests, NEW rest, Fail(r, rest), UNCHANGED <<hsVars, child, hsOn>>
  PROVE  Calm
<1>1. active \in Nat /\ pc \in [Requests -> Pcs]
  BY DEF TypeOK
<1>2. active' \in Nat /\ active' <= active
  BY <1>1 DEF Fail, FailWired, Crash, Settle, tableVars
<1>3. \A q \in Requests : pc'[q] \in {"hsWait", "hsOk"} => pc'[q] = pc[q]
  BY <1>1 DEF Fail, FailWired, Crash
<1> QED BY <1>2, <1>3 DEF Calm

LEMMA CalmCancel ==
  ASSUME TypeOK, NEW r \in Requests, Cancel(r)
  PROVE  active' \in Nat /\ active' <= active
<1>1. active \in Nat
  BY DEF TypeOK
<1> QED BY <1>1 DEF Cancel, Settle, tableVars

LEMMA CalmComplete ==
  ASSUME TypeOK, NEW r \in Requests, NEW res, NEW fin, NEW rest, CompleteIfBoth(r, res, fin, rest),
         UNCHANGED <<hsVars, child, hsOn>>
  PROVE  Calm
<1>1. active \in Nat
  BY DEF TypeOK
<1>2. active' \in Nat /\ active' <= active
  BY <1>1 DEF CompleteIfBoth, Settle, tableVars
<1>3. pc' = pc
  BY DEF CompleteIfBoth
<1> QED BY <1>2, <1>3 DEF Calm

\* The steps of a request other than Start and OpenContext.
LEMMA CalmSteps ==
  ASSUME TypeOK, NEW r \in Requests,
         \/ Refuse(r) \/ HandshakeThrow(r) \/ Subscribe(r) \/ SetupThrow(r) \/ SendTurn(r)
         \/ Finish(r) \/ Kill(r) \/ Answer(r) \/ Timer(r)
         \/ \E c \in Requests : Notification(c, r)
  PROVE  Calm
<1>1. active \in Nat /\ pc \in [Requests -> Pcs]
  BY DEF TypeOK
<1>2. CASE \/ Refuse(r) \/ HandshakeThrow(r) \/ Subscribe(r) \/ SetupThrow(r) \/ Finish(r)
           \/ ConversationCreated(r) \/ ListenerAdded(r) \/ TurnAccepted(r) \/ ListenerRemoved(r)
  <2>1. active' = active
    BY <1>2 DEF Refuse, HandshakeThrow, Subscribe, SetupThrow, Crash, Finish, ConversationCreated,
                ListenerAdded, TurnAccepted, ListenerRemoved, tableVars
  <2>2. UNCHANGED <<hsVars, child, hsOn>>
    BY <1>2 DEF Refuse, HandshakeThrow, Subscribe, SetupThrow, Finish, ConversationCreated,
                ListenerAdded, TurnAccepted, ListenerRemoved, workerVars
  <2>3. pc' = pc \/ \E x \in {"done", "convWait", "listenWait", "convOk", "listenOk"} :
                       pc' = [pc EXCEPT ![r] = x]
    BY <1>2 DEF Refuse, HandshakeThrow, Subscribe, SetupThrow, Crash, Finish, ConversationCreated,
                ListenerAdded, TurnAccepted, ListenerRemoved
  <2> QED BY <1>1, <2>1, <2>2, <2>3 DEF Calm
<1>3. CASE SendTurn(r)
  <2>1. active' \in Nat /\ active' <= active
    BY <1>1, <1>3 DEF SendTurn, Settle, tableVars
  <2>2. UNCHANGED <<hsVars, child, hsOn>>
    BY <1>3 DEF SendTurn, workerVars
  <2>3. pc' = [pc EXCEPT ![r] = "running"] \/ pc' = [pc EXCEPT ![r] = "done"]
    BY <1>3 DEF SendTurn
  <2> QED BY <1>1, <2>1, <2>2, <2>3 DEF Calm
<1>4. CASE Kill(r)
  <2>1. active' \in Nat /\ active' <= active
    BY <1>1, <1>4, CalmCancel DEF Kill, tableVars
  <2>2. UNCHANGED <<hsVars, child, hsOn>>
    BY <1>4 DEF Kill, workerVars
  <2>3. pc' = pc \/ pc' = [pc EXCEPT ![r] = "done"]
    BY <1>4 DEF Kill
  <2> QED BY <1>1, <2>1, <2>2, <2>3 DEF Calm
<1>5. CASE RequestTimeout(r)
  BY <1>5, CalmFail DEF RequestTimeout, workerVars
<1>6. CASE MessageAnswered(r)
  BY <1>6, CalmComplete DEF MessageAnswered, workerVars
<1>7. ASSUME NEW m \in Methods, RejectRpc(m, r) PROVE Calm
  <2>1. UNCHANGED <<hsVars, child, hsOn>>
    BY <1>7 DEF RejectRpc, workerVars
  <2>2. CASE m \in {"sendUserTurn", "sendUserMessage"}
    BY <1>7, <2>1, <2>2, CalmFail DEF RejectRpc
  <2>3. CASE m \in {"newConversation", "addConversationListener", "removeConversationListener"}
    <3>1. active' = active
      BY <1>7, <2>3 DEF RejectRpc, tableVars
    <3>2. pc' = pc \/ \E x \in {"convFail", "listenFail"} : pc' = [pc EXCEPT ![r] = x]
      BY <1>7, <2>3 DEF RejectRpc
    <3> QED BY <1>1, <2>1, <3>1, <3>2 DEF Calm
  <2> QED BY <2>2, <2>3 DEF Methods
<1>8. ASSUME NEW c \in Requests, Notification(c, r) PROVE Calm
  <2>1. UNCHANGED <<hsVars, child, hsOn>>
    BY <1>8 DEF Notification, Progress, WorkerTimeout, AuthRequired, Hear, workerVars
  <2>2. CASE AuthRequired(c, r)
    <3>1. active' \in Nat /\ active' <= active
      BY <2>2, CalmCancel DEF AuthRequired
    <3>2. \E x \in {"done", pc[r]} : pc' = [pc EXCEPT ![r] = x]
      BY <2>2 DEF AuthRequired
    <3> QED BY <1>1, <2>1, <3>1, <3>2 DEF Calm
  <2>3. CASE ~AuthRequired(c, r)
    BY <1>8, <2>1, <2>3, CalmFail, CalmComplete DEF Notification, Progress, WorkerTimeout
  <2> QED BY <2>2, <2>3
<1> QED
  BY <1>2, <1>3, <1>4, <1>5, <1>6, <1>7, <1>8 DEF Answer, Timer, RpcError, RpcTimeout

\* What a step can do to the handshake and to the admission of requests.
LEMMA AdmissionSteps ==
  TypeOK /\ [Next]_vars =>
    \/ Spawn \/ ReadyLine \/ Exit
    \/ \E n \in 1..MaxInits : InitializeOk(n) \/ (RejectInitialize(n) /\ n \in inits)
    \/ \E r \in Requests : Start(r) \/ OpenContext(r)
    \/ Calm
<1> SUFFICES ASSUME TypeOK, Next \/ UNCHANGED vars
             PROVE  \/ Spawn \/ ReadyLine \/ Exit
                    \/ \E n \in 1..MaxInits : InitializeOk(n) \/ (RejectInitialize(n) /\ n \in inits)
                    \/ \E r \in Requests : Start(r) \/ OpenContext(r)
                    \/ Calm
  OBVIOUS
<1>1. CASE UNCHANGED vars
  <2>1. active \in Nat
    BY DEF TypeOK
  <2> QED BY <1>1, <2>1 DEF vars, workerVars, tableVars, Calm
<1>2. CASE Next
  BY <1>2, CalmSteps DEF Next, Continuation, InitializeError, InitializeTimeout
<1> QED BY <1>1, <1>2

\* Handshakes end with their worker, and their end wakes who waits for them.
LEMMA HandshakeStep == TypeOK /\ HandshakeConsistent /\ [Next]_vars => HandshakeConsistent'
<1> SUFFICES ASSUME TypeOK, HandshakeConsistent, [Next]_vars PROVE HandshakeConsistent'
  OBVIOUS
<1>0. /\ spawns \in Nat /\ child \in Nat /\ initSeq \in Nat /\ hsPromise \in Nat
      /\ pc \in [Requests -> Pcs] /\ hsOn \in [Requests -> Nat]
  BY DEF TypeOK
<1> USE DEF HandshakeConsistent, ReadyMeansHandshake, WorkerReady
<1>1. CASE Spawn
  <2>1. /\ child' # 0 /\ readiness' = "pending" /\ UNCHANGED <<pc, hsOn>>
        /\ inits' = inits \cup {hsPromise'}
    BY <1>0, <1>1 DEF Spawn, NewInitialize
  <2> QED BY <2>1
<1>2. CASE ReadyLine
  <2>1. UNCHANGED <<child, pc, hsOn>>
    BY <1>2 DEF ReadyLine, workerVars
  <2>2. CASE child # 0
    BY <1>2, <2>1, <2>2 DEF ReadyLine, NewInitialize
  <2>3. CASE child = 0
    BY <1>2, <2>1, <2>3 DEF ReadyLine
  <2> QED BY <2>2, <2>3
<1>3. CASE Exit
  <2>1. CASE UNCHANGED <<workerVars, hsVars, pc, hsOn>>
    BY <2>1 DEF workerVars, hsVars
  <2>2. CASE ~ UNCHANGED <<workerVars, hsVars, pc, hsOn>>
    <3>1. /\ readiness' = "worker_exit" /\ inits' = {} /\ hsPromise' = 0
          /\ \A r \in Requests : pc'[r] # "hsWait"
      BY <1>3, <2>2 DEF Exit
    <3> QED BY <3>1
  <2> QED BY <2>1, <2>2
<1>4. ASSUME NEW n \in 1..MaxInits, InitializeOk(n) PROVE HandshakeConsistent'
  <2>1. child # 0
    BY <1>4 DEF InitializeOk
  <2>2. hsDone' = TRUE /\ hsPromise' = 0 /\ inits' = inits \ {n} /\ child' = child
    BY <1>4 DEF InitializeOk, workerVars
  <2>3. \A r \in Requests : pc'[r] = "hsWait" => pc[r] = "hsWait" /\ hsOn[r] # n /\ hsOn'[r] = hsOn[r]
    BY <1>0, <1>4 DEF InitializeOk, Awaken
  <2> QED BY <2>1, <2>2, <2>3
<1>5. ASSUME NEW n \in inits, RejectInitialize(n) PROVE HandshakeConsistent'
  <2>1. child # 0
    OBVIOUS
  <2>2. readiness' = "failed" /\ hsPromise' = 0 /\ inits' = inits \ {n} /\ child' = child
    BY <1>5 DEF RejectInitialize, workerVars
  <2>3. \A r \in Requests : pc'[r] = "hsWait" => pc[r] = "hsWait" /\ hsOn[r] # n /\ hsOn'[r] = hsOn[r]
    BY <1>0, <1>5 DEF RejectInitialize, Awaken
  <2> QED BY <2>1, <2>2, <2>3
<1>6. ASSUME NEW r \in Requests, Start(r) PROVE HandshakeConsistent'
  <2>1. child # 0 /\ child' = child
    BY <1>6 DEF Start, workerVars
  <2>2. CASE hsDone
    BY <1>0, <1>6, <2>1, <2>2 DEF Start, hsVars, NewInitialize
  <2>3. CASE ~hsDone /\ hsPromise # 0
    <3>1. /\ UNCHANGED hsVars
          /\ pc' = [pc EXCEPT ![r] = "hsWait"] /\ hsOn' = [hsOn EXCEPT ![r] = hsPromise]
      BY <1>6, <2>3 DEF Start, hsVars
    <3> QED BY <1>0, <2>1, <2>3, <3>1 DEF hsVars
  <2>4. CASE ~hsDone /\ hsPromise = 0
    <3>1. /\ NewInitialize
          /\ pc' = [pc EXCEPT ![r] = "hsWait"] /\ hsOn' = [hsOn EXCEPT ![r] = initSeq + 1]
      BY <1>6, <2>4 DEF Start
    <3> QED BY <1>0, <2>1, <3>1 DEF NewInitialize
  <2> QED BY <2>2, <2>3, <2>4
<1>7. ASSUME NEW r \in Requests, OpenContext(r) PROVE HandshakeConsistent'
  BY <1>0, <1>7 DEF OpenContext, workerVars, hsVars
<1>8. CASE Calm
  BY <1>8 DEF Calm, hsVars
<1> HIDE DEF HandshakeConsistent
<1> QED BY <1>1, <1>2, <1>3, <1>4, <1>5, <1>6, <1>7, <1>8, AdmissionSteps

LEMMA CapacityType == Capacity \in Nat /\ Capacity >= 1
BY DEF Capacity

\* Behind the gate a request never waits for a handshake, so the slot that the
\* capacity check saw free is still free when it is taken.
LEMMA AdmissionStep ==
  TypeOK /\ HandshakeConsistent /\ GatedAdmission /\ [Next]_vars => GatedAdmission'
<1> SUFFICES ASSUME TypeOK, HandshakeConsistent, GatedAdmission, [Next]_vars, Gated
             PROVE  GatedAdmission'
  BY DEF GatedAdmission
<1>0. active \in Nat /\ pc \in [Requests -> Pcs] /\ Capacity \in Nat /\ Capacity >= 1
  BY CapacityType DEF TypeOK
<1> USE DEF GatedAdmission
<1>1. CASE Spawn \/ ReadyLine
  BY <1>1 DEF Spawn, ReadyLine, tableVars
<1>2. CASE Exit
  <2>1. CASE UNCHANGED <<tableVars, pc>>
    BY <2>1 DEF tableVars
  <2>2. CASE ~ UNCHANGED <<tableVars, pc>>
    <3>1. \A r \in Requests : pc[r] # "hsOk"
      BY <1>2 DEF Exit, Drained, HasContinuation, ReadyPcs
    <3>2. active' = 0 /\ \A r \in Requests : pc'[r] # "hsOk" /\ pc'[r] # "hsWait"
      BY <1>2, <2>2, <3>1 DEF Exit
    <3> QED BY <1>0, <3>2
  <2> QED BY <2>1, <2>2
<1>3. ASSUME NEW n, InitializeOk(n) \/ RejectInitialize(n) PROVE GatedAdmission'
  <2>1. \A r \in Requests : pc'[r] = pc[r]
    BY <1>3 DEF InitializeOk, RejectInitialize, Awaken
  <2>2. active' = active
    BY <1>3 DEF InitializeOk, RejectInitialize, tableVars
  <2> QED BY <2>1, <2>2
<1>4. ASSUME NEW r \in Requests, Start(r) PROVE GatedAdmission'
  <2>1. \A q \in Requests : pc[q] # "hsOk"
    BY <1>4 DEF Start, Drained, HasContinuation, ReadyPcs
  <2>2. hsDone
    BY <1>4 DEF Start, HandshakeConsistent, ReadyMeansHandshake
  <2>3. active < Capacity /\ active' = active /\ pc' = [pc EXCEPT ![r] = "hsOk"]
    BY <1>4, <2>2 DEF Start, tableVars
  <2> QED BY <1>0, <2>1, <2>3
<1>5. ASSUME NEW r \in Requests, OpenContext(r) PROVE GatedAdmission'
  <2>1. pc[r] = "hsOk" /\ active' = active + 1 /\ pc' = [pc EXCEPT ![r] = "convWait"]
    BY <1>5 DEF OpenContext
  <2>2. active' <= Capacity
    BY <1>0, <2>1
  <2>3. \A q \in Requests : pc'[q] # "hsOk" /\ pc'[q] # "hsWait"
    BY <1>0, <2>1
  <2> QED BY <2>2, <2>3
<1>6. CASE Calm
  BY <1>0, <1>6 DEF Calm
<1> HIDE DEF GatedAdmission
<1> QED BY <1>1, <1>2, <1>3, <1>4, <1>5, <1>6, AdmissionSteps

-----------------------------------------------------------------------------
(* The conversations of live requests are known to the transport.           *)

\* A step in which a request neither moves on nor loses its conversation.
StillKnown(q) ==
  /\ pc'[q] = pc[q]
  /\ settled'[q] = "open" => settled[q] = "open"
  /\ q \in listening' => q \in listening
  /\ settled'[q] = "open" /\ <<"server", q>> \in byConv => <<"server", q>> \in byConv'

LEMMA KnownKeeps ==
  ASSUME NEW q \in Requests, ConversationKnown(q), StillKnown(q)
  PROVE  ConversationKnown(q)'
BY DEF ConversationKnown, StillKnown

\* A step of one request, which then ends or keeps what is known of it.
LEMMA OneConversation ==
  ASSUME ConversationsKnown, NEW r \in Requests, ConversationKnown(r)',
         \A q \in Requests \ {r} : StillKnown(q)
  PROVE  ConversationsKnown'
BY KnownKeeps DEF ConversationsKnown

LEMMA NoConversation ==
  ASSUME ConversationsKnown, \A q \in Requests : StillKnown(q)
  PROVE  ConversationsKnown'
BY KnownKeeps DEF ConversationsKnown

\* Settling a context forgets that request's keys and no other's.
LEMMA SettleKnown ==
  ASSUME TypeOK, NEW r \in Requests, NEW o \in {"resolved", "rejected"}, Settle(r, o)
  PROVE  /\ settled'[r] # "open"
         /\ \A q \in Requests \ {r} :
              /\ settled'[q] = settled[q]
              /\ <<"server", q>> \in byConv => <<"server", q>> \in byConv'
BY DEF TypeOK, Settle

LEMMA FailKnown ==
  ASSUME TypeOK, ConversationsKnown, NEW r \in Requests, NEW rest, Fail(r, rest),
         PhaseInv, UNCHANGED listening
  PROVE  ConversationsKnown'
<1>1. CASE FailWired(r, rest)
  <2>1. pc'[r] = "done" /\ \A q \in Requests \ {r} : pc'[q] = pc[q]
    BY <1>1 DEF FailWired, TypeOK
  <2>2. Settle(r, "rejected")
    BY <1>1 DEF FailWired
  <2> QED BY <2>1, <2>2, SettleKnown, OneConversation DEF ConversationKnown, StillKnown
<1>2. CASE UNCHANGED <<tableVars, settled, pc>>
  BY <1>2, NoConversation DEF StillKnown, tableVars
<1> QED BY <1>1, <1>2 DEF Fail, Crash

LEMMA CancelKnown ==
  ASSUME TypeOK, ConversationsKnown, NEW r \in Requests, wired[r], Cancel(r), PhaseInv,
         UNCHANGED listening,
         pc' = [pc EXCEPT ![r] = IF settled[r] = "open" THEN "done" ELSE @] \/ pc' = [pc EXCEPT ![r] = "done"]
  PROVE  ConversationsKnown'
<1>1. /\ pc'[r] = "done" \/ (settled[r] # "open" /\ pc'[r] = pc[r])
      /\ \A q \in Requests \ {r} : pc'[q] = pc[q]
  BY DEF TypeOK
<1>2. CASE Settle(r, "rejected")
  <2>1. ConversationKnown(r) /\ settled'[r] # "open"
    BY <1>2, SettleKnown DEF ConversationsKnown
  <2>2. \A q \in Requests \ {r} : StillKnown(q)
    BY <1>1, <1>2, SettleKnown DEF StillKnown
  <2> QED BY <1>1, <2>1, <2>2, OneConversation DEF ConversationKnown
<1>3. CASE settled[r] # "open" /\ UNCHANGED <<settled, tableVars>>
  <2>1. ConversationKnown(r)
    BY DEF ConversationsKnown
  <2>2. \A q \in Requests \ {r} : StillKnown(q)
    BY <1>1, <1>3 DEF StillKnown, tableVars
  <2> QED BY <1>1, <1>3, <2>1, <2>2, OneConversation DEF ConversationKnown
<1> QED BY <1>2, <1>3 DEF Cancel

LEMMA CompleteKnown ==
  ASSUME TypeOK, ConversationsKnown, NEW r \in Requests, NEW res, NEW fin, NEW rest,
         CompleteIfBoth(r, res, fin, rest), UNCHANGED listening
  PROVE  ConversationsKnown'
<1>1. UNCHANGED pc
  BY DEF CompleteIfBoth
<1>2. CASE Settle(r, "resolved")
  <2>1. \A q \in Requests : StillKnown(q)
    BY <1>1, <1>2, SettleKnown DEF StillKnown
  <2> QED BY <2>1, NoConversation
<1>3. CASE UNCHANGED <<settled, tableVars>>
  BY <1>1, <1>3, NoConversation DEF StillKnown, tableVars
<1> QED BY <1>2, <1>3 DEF CompleteIfBoth

\* Every step keeps the conversations known.
LEMMA ConversationStep ==
  TypeOK /\ SlotAccounting /\ PhaseInv /\ ConversationsKnown /\ [Next]_vars => ConversationsKnown'
<1> SUFFICES ASSUME TypeOK, SlotAccounting, PhaseInv, ConversationsKnown, [Next]_vars
             PROVE  ConversationsKnown'
  OBVIOUS
<1>0. pc \in [Requests -> Pcs] /\ settled \in [Requests -> {"none", "open", "resolved", "rejected"}]
  BY DEF TypeOK
<1>1. CASE Spawn \/ ReadyLine
  BY <1>1, NoConversation DEF Spawn, ReadyLine, StillKnown, workerVars, tableVars, contextVars
<1>2. CASE Exit
  <2>1. CASE UNCHANGED <<workerVars, tableVars, pc, contextVars>>
    BY <2>1, NoConversation DEF StillKnown, workerVars, tableVars, contextVars
  <2>2. CASE \A r \in byRequest : wired[r]
    <3>1. listening' = {}
      BY <1>2, <2>2 DEF Exit
    <3>2. \A q \in Requests : settled'[q] # "open"
      BY <1>0, <1>2, <2>2 DEF Exit, SlotAccounting
    <3> QED BY <3>1, <3>2 DEF ConversationsKnown, ConversationKnown
  <2> QED BY <1>2, <2>1, <2>2 DEF Exit
<1>3. ASSUME NEW n \in 1..MaxInits, InitializeOk(n) \/ InitializeError(n) \/ InitializeTimeout(n)
      PROVE ConversationsKnown'
  <2>1. SUFFICES ASSUME NEW q \in Requests PROVE ConversationKnown(q)'
    BY DEF ConversationsKnown
  <2>2. ConversationKnown(q)
    BY DEF ConversationsKnown
  <2>3. Awaken(n, "hsOk") \/ Awaken(n, "hsFail")
    BY <1>3 DEF InitializeOk, InitializeError, InitializeTimeout, RejectInitialize
  <2>4. pc'[q] = pc[q] \/ (pc[q] = "hsWait" /\ pc'[q] \in {"hsOk", "hsFail"})
    BY <2>3 DEF Awaken
  <2>5. UNCHANGED <<settled, listening, byConv>>
    BY <1>3 DEF InitializeOk, InitializeError, InitializeTimeout, RejectInitialize, workerVars,
                tableVars, contextVars
  <2> QED BY <2>2, <2>4, <2>5 DEF ConversationKnown
<1>4. ASSUME NEW r \in Requests,
             \/ Refuse(r) \/ Start(r) \/ HandshakeThrow(r) \/ OpenContext(r) \/ Subscribe(r)
             \/ SetupThrow(r) \/ Finish(r) \/ ConversationCreated(r) \/ ListenerAdded(r)
             \/ TurnAccepted(r) \/ ListenerRemoved(r)
      PROVE ConversationsKnown'
  <2>1. ConversationKnown(r) /\ PhaseOf(r)
    BY PhaseSplit DEF ConversationsKnown
  <2> USE DEF StillKnown, ConversationKnown, workerVars, tableVars, contextVars
  <2>2. CASE Refuse(r)
    BY <1>0, <2>1, <2>2, OneConversation DEF Refuse
  <2>3. CASE Start(r)
    BY <1>0, <2>1, <2>3, OneConversation DEF Start
  <2>4. CASE HandshakeThrow(r)
    BY <1>0, <2>1, <2>4, OneConversation DEF HandshakeThrow
  <2>5. CASE OpenContext(r)
    BY <1>0, <2>1, <2>5, OneConversation DEF OpenContext
  <2>6. CASE Subscribe(r)
    BY <1>0, <2>1, <2>6, OneConversation DEF Subscribe
  <2>7. CASE SetupThrow(r)
    BY <1>0, <2>1, <2>7, OneConversation DEF SetupThrow, Crash
  <2>8. CASE Finish(r)
    BY <1>0, <2>1, <2>8, OneConversation DEF Finish
  <2>9. CASE ConversationCreated(r)
    BY <1>0, <2>1, <2>9, OneConversation DEF ConversationCreated, PhaseOf
  <2>10. CASE ListenerAdded(r)
    BY <1>0, <2>1, <2>10, OneConversation DEF ListenerAdded, PhaseOf
  <2>11. CASE TurnAccepted(r)
    BY <1>0, <2>1, <2>11, NoConversation DEF TurnAccepted
  <2>12. CASE ListenerRemoved(r)
    BY <1>0, <2>1, <2>12, NoConversation DEF ListenerRemoved
  <2> QED BY <1>4, <2>2, <2>3, <2>4, <2>5, <2>6, <2>7, <2>8, <2>9, <2>10, <2>11, <2>12
<1>5. ASSUME NEW r \in Requests, SendTurn(r) PROVE ConversationsKnown'
  <2>1. ConversationKnown(r)
    BY DEF ConversationsKnown
  <2>2. /\ pc[r] = "listenOk" /\ pc'[r] \in {"running", "done"} /\ UNCHANGED listening
        /\ \A q \in Requests \ {r} : pc'[q] = pc[q]
    BY <1>0, <1>5 DEF SendTurn, workerVars
  <2>3. CASE UNCHANGED <<settled, tableVars>>
    BY <2>1, <2>2, <2>3, OneConversation DEF ConversationKnown, StillKnown, tableVars
  <2>4. CASE Settle(r, "rejected")
    BY <2>1, <2>2, <2>4, SettleKnown, OneConversation DEF ConversationKnown, StillKnown
  <2> QED BY <1>5, <2>3, <2>4 DEF SendTurn
<1>6. ASSUME NEW r \in Requests, Kill(r) PROVE ConversationsKnown'
  <2>1. CASE wired[r]
    BY <1>6, <2>1, CancelKnown DEF Kill, workerVars
  <2>2. CASE ~wired[r]
    BY <1>6, <2>2, NoConversation DEF Kill, StillKnown, workerVars, tableVars
  <2> QED BY <2>1, <2>2
<1>7. ASSUME NEW r \in Requests, RequestTimeout(r) PROVE ConversationsKnown'
  BY <1>7, FailKnown DEF RequestTimeout, workerVars
<1>8. ASSUME NEW r \in Requests, MessageAnswered(r) PROVE ConversationsKnown'
  BY <1>8, CompleteKnown DEF MessageAnswered, workerVars
<1>9. ASSUME NEW r \in Requests, NEW m \in Methods, RejectRpc(m, r) PROVE ConversationsKnown'
  <2>1. UNCHANGED listening /\ ConversationKnown(r) /\ PhaseOf(r)
    BY <1>9, PhaseSplit DEF RejectRpc, workerVars, ConversationsKnown
  <2>2. CASE m \in {"newConversation", "addConversationListener"}
    <3>1. /\ pc[r] \in {"convWait", "listenWait"} /\ pc'[r] \in {"convFail", "listenFail"}
          /\ pc[r] = "convWait" => pc'[r] = "convFail"
          /\ \A q \in Requests \ {r} : pc'[q] = pc[q]
          /\ UNCHANGED <<settled, tableVars>>
      BY <1>0, <1>9, <2>1, <2>2 DEF RejectRpc, PhaseOf
    <3> QED BY <2>1, <3>1, OneConversation DEF ConversationKnown, StillKnown, tableVars
  <2>3. CASE m \in {"sendUserTurn", "sendUserMessage"}
    BY <1>9, <2>1, <2>3, FailKnown DEF RejectRpc
  <2>4. CASE m = "removeConversationListener"
    BY <1>9, <2>1, <2>4, NoConversation DEF RejectRpc, StillKnown, tableVars
  <2> QED BY <2>2, <2>3, <2>4 DEF Methods
<1>10. ASSUME NEW c \in Requests, NEW r \in Requests, Notification(c, r) PROVE ConversationsKnown'
  <2>1. CASE WorkerTimeout(c, r)
    BY <2>1, FailKnown DEF WorkerTimeout, Hear, workerVars
  <2>2. CASE AuthRequired(c, r)
    BY <2>2, CancelKnown DEF AuthRequired, Hear, workerVars
  <2>3. ASSUME NEW res \in BOOLEAN, NEW fin \in BOOLEAN, Progress(c, r, res, fin)
        PROVE  ConversationsKnown'
    BY <2>3, CompleteKnown DEF Progress, Hear, workerVars
  <2> QED BY <1>10, <2>1, <2>2, <2>3 DEF Notification
<1>11. CASE UNCHANGED vars
  BY <1>11, NoConversation DEF vars, StillKnown, workerVars, tableVars, contextVars
<1> QED
  BY <1>1, <1>2, <1>3, <1>4, <1>5, <1>6, <1>7, <1>8, <1>9, <1>10, <1>11
     DEF Next, Continuation, Answer, Timer, RpcError, RpcTimeout

-----------------------------------------------------------------------------
(* The theorems.                                                            *)

\* The inductive invariant holds in every state the transport reaches.
THEOREM Invariant == Spec => []InductiveInvariant
<1>1. Init => InductiveInvariant
  <2> SUFFICES ASSUME Init PROVE InductiveInvariant
    OBVIOUS
  <2>1. TypeOK
    <3>1. pc \in [Requests -> Pcs]
      BY DEF Init, Pcs
    <3>2. settled \in [Requests -> {"none", "open", "resolved", "rejected"}]
      BY DEF Init
    <3> QED BY <3>1, <3>2 DEF Init, TypeOK
  <2>2. SlotAccounting
    BY FS_EmptySet DEF Init, SlotAccounting
  <2>3. PhaseConsistent /\ SetupCallsAwaited
    BY DEF Init, PhaseConsistent, SetupCallsAwaited
  <2>4. HandshakeConsistent
    BY DEF Init, HandshakeConsistent, ReadyMeansHandshake, WorkerReady
  <2>5. GatedAdmission
    BY CapacityType DEF Init, GatedAdmission
  <2>6. ConversationsKnown
    BY DEF Init, ConversationsKnown, ConversationKnown
  <2> QED BY <2>1, <2>2, <2>3, <2>4, <2>5, <2>6 DEF InductiveInvariant
<1>2. InductiveInvariant /\ [Next]_vars => InductiveInvariant'
  BY TypeStep, SlotAccountingStep, PhaseStep, HandshakeStep, ConversationStep,
     AdmissionStep DEF InductiveInvariant, PhaseInv
<1> QED BY <1>1, <1>2, PTL DEF Spec

\* A slot per live context, exactly, on every path that ends one.
THEOREM SlotsAreAccounted == Spec => []SlotAccounting
<1>1. InductiveInvariant => SlotAccounting
  BY DEF InductiveInvariant
<1> QED BY <1>1, Invariant, PTL

\* Behind the readiness gate the check-then-await of createChatRequest never
\* takes the worker over its limit.
THEOREM CapacityHolds == ASSUME Gated PROVE Spec => []CapacityRespected
<1>1. InductiveInvariant => CapacityRespected
  BY DEF InductiveInvariant, GatedAdmission, CapacityRespected
<1> QED BY <1>1, Invariant, PTL

\* An open gate stands for a completed handshake of the attached worker.
THEOREM ReadinessIsBacked == Spec => []ReadyMeansHandshake
<1>1. InductiveInvariant => ReadyMeansHandshake
  BY DEF InductiveInvariant, HandshakeConsistent
<1> QED BY <1>1, Invariant, PTL

\* Whoever waits, waits for a call the transport still tracks.
THEOREM NoRequestIsStranded == Spec => []NobodyStranded
<1>1. InductiveInvariant => NobodyStranded
  BY DEF InductiveInvariant, HandshakeConsistent, SetupCallsAwaited, NobodyStranded
<1> QED BY <1>1, Invariant, PTL

\* Only a request in its setup can hold a slot after it was killed.
THEOREM KilledSlots == Spec => []KilledSlotsAreSettingUp
<1>1. InductiveInvariant => KilledSlotsAreSettingUp
  BY DEF InductiveInvariant, SlotAccounting, PhaseConsistent, SettingUp, KilledSlotsAreSettingUp
<1> QED BY <1>1, Invariant, PTL

\* The outcome of a context is told once: what a late answer, timer, exit or
\* cancel finds settled it leaves settled that way.
THEOREM OutcomesAreFinal == Spec => OutcomeIsFinal
<1> DEFINE Kept == \A r \in Requests : settled[r] \in {"resolved", "rejected"} => settled'[r] = settled[r]
<1>1. InductiveInvariant /\ [Next]_vars => Kept
  <2> SUFFICES ASSUME InductiveInvariant, SlotStep,
                      NEW r \in Requests, settled[r] \in {"resolved", "rejected"}
               PROVE  settled'[r] = settled[r]
    BY SlotSteps
  <2>1. settled \in [Requests -> {"none", "open", "resolved", "rejected"}]
    BY DEF InductiveInvariant, TypeOK
  <2>2. CASE UNCHANGED <<settled, active, byRequest>>
    BY <2>2
  <2>3. ASSUME NEW q \in Requests, NEW o, settled[q] = "open", Settle(q, o)
        PROVE  settled'[r] = settled[r]
    BY <2>1, <2>3 DEF Settle
  <2>4. ASSUME NEW q \in Requests, OpenContext(q) PROVE settled'[r] = settled[r]
    BY <2>1, <2>4, PhaseSplit DEF InductiveInvariant, PhaseInv, PhaseOf, OpenContext
  <2>5. CASE settled' = [q \in Requests |-> IF q \in byRequest THEN "rejected" ELSE settled[q]]
    BY <2>5 DEF InductiveInvariant, SlotAccounting
  <2> QED BY <2>2, <2>3, <2>4, <2>5 DEF SlotStep
<1> QED BY <1>1, Invariant, PTL DEF Spec, OutcomeIsFinal

\* A live request is given the events of its own conversation by the key it has
\* registered, and by nobody's absence: however many requests are live.
THEOREM ConversationsAreHeard == Spec => []LiveHearsItself
<1>1. InductiveInvariant => LiveHearsItself
  <2> SUFFICES ASSUME InductiveInvariant, NEW r \in listening, settled[r] = "open"
               PROVE  Targets(r) = {r}
    BY DEF LiveHearsItself
  <2>1. r \in Requests
    BY DEF InductiveInvariant, TypeOK
  <2>2. pc[r] \in {"listenOk", "running"}
    BY <2>1 DEF InductiveInvariant, ConversationsKnown, ConversationKnown, PhaseConsistent, SettingUp
  <2>3. <<"server", r>> \in byConv
    BY <2>1, <2>2 DEF InductiveInvariant, ConversationsKnown, ConversationKnown
  <2> QED BY <2>3 DEF Targets
<1> QED BY <1>1, Invariant, PTL

-----------------------------------------------------------------------------
(* Behind the readiness gate every behaviour of the transport is one that   *)
(* RequestService allows: the safety part of ImplementsService.             *)

\* Stage looks at these two phases of the adapter only.
Seen == {"idle", "hsOk"}

\* A request the service sees no change of.
QuietAt(r) == /\ settled'[r] = settled[r]
              /\ pc'[r] = pc[r] \/ (pc[r] \notin Seen /\ pc'[r] \notin Seen)

\* The four ways a step moves the service, apart from admission and the exit.
Stutters == UNCHANGED crashed /\ \A r \in Requests : QuietAt(r)
GoesDown == ~crashed /\ crashed' /\ \A r \in Requests : QuietAt(r)
Ends(r)  == /\ ~crashed /\ UNCHANGED crashed
            /\ settled[r] = "open" /\ settled'[r] \in {"resolved", "rejected"}
            /\ \A q \in Requests \ {r} : QuietAt(q)
Moves    == Stutters \/ GoesDown \/ \E r \in Requests : Ends(r)

LEMMA QuietStage == ASSUME NEW r \in Requests, QuietAt(r) PROVE Stage(r)' = Stage(r)
  BY DEF QuietAt, Stage, Seen

\* A live context is active, and so is a request that has passed the check.
LEMMA ActiveStage ==
  ASSUME TypeOK, PhaseConsistent, NEW r \in Requests
  PROVE  /\ (Stage(r) = "active") <=> (settled[r] = "open" \/ pc[r] = "hsOk")
         /\ pc[r] = "idle" => Stage(r) = "new"
  BY DEF TypeOK, PhaseConsistent, Stage

-----------------------------------------------------------------------------
(* Steps that settle contexts.                                              *)

\* #failContext: nothing, the end of the process, or the end of one request.
LEMMA FailMoves ==
  ASSUME TypeOK, PhaseConsistent, ~crashed, NEW r \in Requests, NEW rest, Fail(r, rest)
  PROVE  Moves
<1>1. CASE settled[r] = "open" /\ wired[r]
  <2>1. FailWired(r, rest)
    BY <1>1 DEF Fail
  <2>2. Ends(r)
    BY <1>1, <2>1 DEF FailWired, Settle, Ends, QuietAt, TypeOK
  <2>3. QED BY <2>2 DEF Moves
<1>2. CASE settled[r] = "open" /\ ~wired[r]
  BY <1>2 DEF Fail, Crash, Moves, GoesDown, QuietAt
<1>3. CASE settled[r] # "open"
  BY <1>3 DEF Fail, Moves, Stutters, QuietAt
<1>4. QED BY <1>1, <1>2, <1>3

\* #completeContext: nothing, or the end of one request.
LEMMA CompleteMoves ==
  ASSUME TypeOK, ~crashed, NEW r \in Requests, NEW res, NEW fin, NEW rest,
         CompleteIfBoth(r, res, fin, rest)
  PROVE  Moves
<1>1. UNCHANGED <<crashed, pc>>
  BY DEF CompleteIfBoth
<1>2. CASE settled[r] = "open" /\ Settle(r, "resolved")
  <2>1. Ends(r)
    BY <1>1, <1>2 DEF Settle, Ends, QuietAt, TypeOK
  <2>2. QED BY <2>1 DEF Moves
<1>3. CASE UNCHANGED settled
  BY <1>1, <1>3 DEF Moves, Stutters, QuietAt
<1>4. QED BY <1>2, <1>3 DEF CompleteIfBoth

\* cancelContext of a wired context, which the adapter then ends.
LEMMA CancelMoves ==
  ASSUME TypeOK, PhaseConsistent, ~crashed, NEW r \in Requests, wired[r], Cancel(r),
         UNCHANGED crashed,
         \/ pc' = [pc EXCEPT ![r] = "done"]
         \/ pc' = [pc EXCEPT ![r] = IF settled[r] = "open" THEN "done" ELSE @]
  PROVE  Moves
<1>1. pc[r] \in {"running", "done"}
  BY DEF PhaseConsistent
<1>2. pc'[r] \in {"running", "done"} /\ \A q \in Requests \ {r} : pc'[q] = pc[q]
  BY <1>1 DEF TypeOK
<1>3. CASE settled[r] = "open"
  <2>1. Settle(r, "rejected")
    BY <1>3 DEF Cancel
  <2>2. Ends(r)
    BY <1>2, <1>3, <2>1 DEF Settle, Ends, QuietAt, TypeOK
  <2>3. QED BY <2>2 DEF Moves
<1>4. CASE settled[r] # "open"
  <2>1. UNCHANGED settled
    BY <1>4 DEF Cancel
  <2>2. QED BY <1>1, <1>2, <2>1 DEF Moves, Stutters, QuietAt, Seen
<1>5. QED BY <1>3, <1>4

-----------------------------------------------------------------------------
(* The actions.                                                             *)

\* The supervisor's events and the handshake: nobody waits for it.
LEMMA WorkerMoves ==
  ASSUME TypeOK, GatedAdmission, Gated,
         \/ Spawn \/ ReadyLine
         \/ \E n \in 1..MaxInits : InitializeOk(n) \/ InitializeError(n) \/ InitializeTimeout(n)
  PROVE  Stutters
<1>1. CASE Spawn \/ ReadyLine
  BY <1>1 DEF Spawn, ReadyLine, contextVars, Stutters, QuietAt
<1>2. ASSUME NEW n \in 1..MaxInits, InitializeOk(n) \/ RejectInitialize(n)
      PROVE  Stutters
  <2>1. \A r \in Requests : pc[r] # "hsWait"
    BY DEF GatedAdmission
  <2>2. UNCHANGED <<crashed, contextVars>> /\ (Awaken(n, "hsOk") \/ Awaken(n, "hsFail"))
    BY <1>2 DEF InitializeOk, RejectInitialize
  <2>3. \A r \in Requests : pc'[r] = pc[r]
    BY <2>1, <2>2 DEF Awaken
  <2>4. QED BY <2>2, <2>3 DEF contextVars, Stutters, QuietAt
<1>3. QED BY <1>1, <1>2 DEF InitializeError, InitializeTimeout

\* Steps of a request's setup.
LEMMA SetupMoves ==
  ASSUME TypeOK, PhaseConsistent, SetupCallsAwaited, NEW r \in Requests,
         \/ HandshakeThrow(r) \/ Subscribe(r) \/ SetupThrow(r) \/ Finish(r)
         \/ ConversationCreated(r) \/ ListenerAdded(r) \/ TurnAccepted(r) \/ ListenerRemoved(r)
  PROVE  Moves
<1>1. CASE HandshakeThrow(r) \/ Subscribe(r) \/ Finish(r)
  BY <1>1 DEF HandshakeThrow, Subscribe, Finish, contextVars, TypeOK, Moves, Stutters,
              QuietAt, Seen
<1>2. CASE ConversationCreated(r) \/ ListenerAdded(r)
  <2>1. pc[r] \in {"convWait", "listenWait"}
    BY <1>2 DEF ConversationCreated, ListenerAdded, SetupCallsAwaited
  <2>2. QED BY <1>2, <2>1 DEF ConversationCreated, ListenerAdded, contextVars, TypeOK, Moves,
                              Stutters, QuietAt, Seen
<1>3. CASE TurnAccepted(r) \/ ListenerRemoved(r)
  BY <1>3 DEF TurnAccepted, ListenerRemoved, contextVars, Moves, Stutters, QuietAt
<1>4. CASE SetupThrow(r)
  <2>1. CASE settled[r] = "open"
    BY <1>4, <2>1 DEF SetupThrow, Crash, Moves, GoesDown, QuietAt
  <2>2. CASE settled[r] # "open"
    BY <1>4, <2>2 DEF SetupThrow, TypeOK, Moves, Stutters, QuietAt, Seen
  <2>3. QED BY <2>1, <2>2
<1>5. QED BY <1>1, <1>2, <1>3, <1>4

\* The turn is sent, or the request was killed meanwhile and gives up its context.
LEMMA SendTurnMoves ==
  ASSUME TypeOK, PhaseConsistent, NEW r \in Requests, SendTurn(r)
  PROVE  Moves
<1>1. /\ ~crashed /\ UNCHANGED crashed /\ pc[r] = "listenOk"
      /\ pc'[r] \in {"running", "done"} /\ \A q \in Requests \ {r} : pc'[q] = pc[q]
  BY DEF SendTurn, TypeOK
<1>2. CASE settled[r] = "open" /\ Settle(r, "rejected")
  <2>1. Ends(r)
    BY <1>1, <1>2 DEF Settle, Ends, QuietAt, TypeOK
  <2>2. QED BY <2>1 DEF Moves
<1>3. CASE UNCHANGED settled
  BY <1>1, <1>3 DEF Moves, Stutters, QuietAt, Seen
<1>4. QED BY <1>2, <1>3 DEF SendTurn

\* A call is rejected.
LEMMA RejectMoves ==
  ASSUME TypeOK, PhaseConsistent, SetupCallsAwaited, ~crashed,
         NEW r \in Requests, NEW m \in Methods, RejectRpc(m, r)
  PROVE  Moves
<1>1. CASE m \in {"newConversation", "addConversationListener"}
  <2>1. pc[r] \in {"convWait", "listenWait"}
    BY <1>1 DEF RejectRpc, SetupCallsAwaited
  <2>2. QED BY <1>1, <2>1 DEF RejectRpc, TypeOK, Moves, Stutters, QuietAt, Seen
<1>2. CASE m \in {"sendUserTurn", "sendUserMessage"}
  BY <1>2, FailMoves DEF RejectRpc
<1>3. CASE m = "removeConversationListener"
  BY <1>3 DEF RejectRpc, Moves, Stutters, QuietAt
<1>4. QED BY <1>1, <1>2, <1>3 DEF Methods

\* A kill: of a wired context, or during the setup, when nothing is done yet.
LEMMA KillMoves ==
  ASSUME TypeOK, PhaseConsistent, NEW r \in Requests, Kill(r)
  PROVE  Moves
<1>1. CASE wired[r]
  BY <1>1, CancelMoves DEF Kill
<1>2. CASE ~wired[r]
  BY <1>2 DEF Kill, Moves, Stutters, QuietAt
<1>3. QED BY <1>1, <1>2

\* Timers, answers and notifications of a request.
LEMMA EventMoves ==
  ASSUME TypeOK, PhaseConsistent, SetupCallsAwaited, NEW r \in Requests,
         \/ Timer(r) \/ MessageAnswered(r) \/ (\E m \in Methods : RpcError(m, r))
         \/ \E c \in Requests : Notification(c, r)
  PROVE  Moves
<1>1. CASE Timer(r)
  BY <1>1, FailMoves, RejectMoves DEF Timer, RequestTimeout, RpcTimeout
<1>2. CASE MessageAnswered(r)
  BY <1>2, CompleteMoves DEF MessageAnswered
<1>3. CASE \E m \in Methods : RpcError(m, r)
  BY <1>3, RejectMoves DEF RpcError
<1>4. ASSUME NEW c \in Requests, Notification(c, r) PROVE Moves
  <2>1. ASSUME NEW res \in BOOLEAN, NEW fin \in BOOLEAN, Progress(c, r, res, fin) PROVE Moves
    BY <2>1, CompleteMoves DEF Progress, Hear
  <2>2. CASE WorkerTimeout(c, r)
    BY <2>2, FailMoves DEF WorkerTimeout, Hear
  <2>3. CASE AuthRequired(c, r)
    BY <2>3, CancelMoves DEF AuthRequired, Hear
  <2>4. QED BY <1>4, <2>1, <2>2, <2>3 DEF Notification
<1>5. QED BY <1>1, <1>2, <1>3, <1>4

-----------------------------------------------------------------------------
(* What the service makes of them.                                          *)

AbstractStep == [Service!Next]_(Service!vars)

StageFun == [r \in Requests |-> Stage(r)]

\* Nothing, the end of the process, or an answer or failure of one request.
LEMMA MovesAllowed == ASSUME TypeOK, PhaseConsistent, Moves PROVE AbstractStep
<1>1. CASE Stutters
  <2>1. StageFun' = StageFun
    BY <1>1, QuietStage DEF Stutters, StageFun
  <2>2. QED BY <1>1, <2>1 DEF Stutters, AbstractStep, Service!vars, StageFun
<1>2. CASE GoesDown
  <2>1. StageFun' = StageFun
    BY <1>2, QuietStage DEF GoesDown, StageFun
  <2>2. Service!GoDown
    BY <1>2, <2>1 DEF GoesDown, Service!GoDown, StageFun, TypeOK
  <2>3. QED BY <2>2 DEF AbstractStep, Service!Next
<1>3. ASSUME NEW r \in Requests, Ends(r) PROVE AbstractStep
  <2>1. Stage(r) = "active" /\ Stage(r)' \in {"answered", "failed"}
    <3>1. Stage(r) = "active"
      BY <1>3 DEF Ends, Stage
    <3>2. settled'[r] \in {"resolved", "rejected"}
      BY <1>3 DEF Ends
    <3>3. Stage(r)' \in {"answered", "failed"}
      BY <3>2 DEF Stage
    <3>4. QED BY <3>1, <3>3
  <2>2. \A q \in Requests \ {r} : Stage(q)' = Stage(q)
    BY <1>3, QuietStage DEF Ends
  <2>3. ~crashed /\ UNCHANGED crashed
    BY <1>3 DEF Ends
  <2>4. CASE Stage(r)' = "answered"
    <3>1. StageFun' = [StageFun EXCEPT ![r] = "answered"]
      BY <2>2, <2>4 DEF StageFun
    <3>2. Service!Answer(r)
      BY <2>1, <2>3, <3>1 DEF Service!Answer, StageFun
    <3>3. QED BY <3>2 DEF AbstractStep, Service!Next
  <2>5. CASE Stage(r)' = "failed"
    <3>1. StageFun' = [q \in Requests |-> IF q \in {r} THEN "failed" ELSE StageFun[q]]
      BY <2>2, <2>5 DEF StageFun
    <3>2. {r} \subseteq Service!Active
      BY <2>1 DEF Service!Active
    <3>3. Service!FailAll({r})
      BY <2>3, <3>1, <3>2 DEF Service!FailAll, StageFun
    <3>4. QED BY <3>2, <3>3 DEF AbstractStep, Service!Next
  <2>6. QED BY <2>1, <2>4, <2>5
<1>4. QED BY <1>1, <1>2, <1>3 DEF Moves

\* With nobody between the check and the increment, the active requests are the
\* live contexts.
LEMMA ActiveIsLive ==
  ASSUME TypeOK, PhaseConsistent, SlotAccounting, Drained
  PROVE  Service!Active = byRequest
<1>1. \A r \in Requests : pc[r] # "hsOk"
  BY DEF Drained, HasContinuation, ReadyPcs
<1>2. QED BY <1>1, ActiveStage DEF Service!Active, SlotAccounting

\* The capacity check admits a request to a slot that is free.
LEMMA StartAllowed ==
  ASSUME TypeOK, PhaseConsistent, SlotAccounting, HandshakeConsistent, Gated,
         NEW r \in Requests, Start(r)
  PROVE  AbstractStep
<1>1. /\ ~crashed /\ UNCHANGED <<crashed, settled>> /\ Drained /\ pc[r] = "idle"
      /\ active < Capacity
  BY DEF Start, contextVars
<1>2. pc' = [pc EXCEPT ![r] = "hsOk"]
  BY DEF Start, HandshakeConsistent, ReadyMeansHandshake
<1>3. Stage(r) = "new" /\ settled[r] = "none"
  BY <1>1, ActiveStage DEF PhaseConsistent
<1>4. Stage(r)' = "active"
  BY <1>1, <1>2, <1>3 DEF Stage, TypeOK
<1>5. \A q \in Requests \ {r} : Stage(q)' = Stage(q)
  BY <1>1, <1>2, QuietStage DEF QuietAt, TypeOK
<1>6. StageFun' = [StageFun EXCEPT ![r] = "active"]
  BY <1>4, <1>5 DEF StageFun
<1>7. Service!Cardinality(Service!Active) < Capacity
  <2>1. Cardinality(Service!Active) < Capacity
    BY <1>1, ActiveIsLive DEF SlotAccounting
  <2>2. QED BY <2>1 DEF Service!Cardinality, Cardinality
<1>8. Service!Admit(r)
  BY <1>1, <1>3, <1>6, <1>7 DEF Service!Admit, StageFun
<1>9. QED BY <1>8 DEF AbstractStep, Service!Next

\* A refusal.
LEMMA RefuseAllowed ==
  ASSUME TypeOK, PhaseConsistent, NEW r \in Requests, Refuse(r)
  PROVE  AbstractStep
<1>1. /\ ~crashed /\ UNCHANGED <<crashed, settled>> /\ pc[r] = "idle"
      /\ pc' = [pc EXCEPT ![r] = "done"]
  BY DEF Refuse, contextVars
<1>2. Stage(r) = "new" /\ settled[r] = "none"
  BY <1>1, ActiveStage DEF PhaseConsistent
<1>3. Stage(r)' = "failed"
  BY <1>1, <1>2 DEF Stage, TypeOK
<1>4. \A q \in Requests \ {r} : Stage(q)' = Stage(q)
  BY <1>1, QuietStage DEF QuietAt, TypeOK
<1>5. StageFun' = [StageFun EXCEPT ![r] = "failed"]
  BY <1>3, <1>4 DEF StageFun
<1>6. Service!Refuse(r)
  BY <1>1, <1>2, <1>5 DEF Service!Refuse, StageFun
<1>7. QED BY <1>6 DEF AbstractStep, Service!Next

\* The context is opened: the slot the check took is now counted.
LEMMA OpenAllowed ==
  ASSUME TypeOK, PhaseConsistent, NEW r \in Requests, OpenContext(r)
  PROVE  AbstractStep
<1>1. /\ UNCHANGED crashed /\ pc[r] = "hsOk"
      /\ pc' = [pc EXCEPT ![r] = "convWait"] /\ settled' = [settled EXCEPT ![r] = "open"]
  BY DEF OpenContext
<1>2. Stage(r) = "active"
  BY <1>1, ActiveStage
<1>3. Stage(r)' = "active"
  BY <1>1 DEF Stage, TypeOK
<1>4. \A q \in Requests \ {r} : Stage(q)' = Stage(q)
  BY <1>1, QuietStage DEF QuietAt, TypeOK
<1>5. StageFun' = StageFun
  BY <1>2, <1>3, <1>4 DEF StageFun
<1>6. QED BY <1>1, <1>5 DEF AbstractStep, Service!vars, StageFun

\* The worker's exit fails all live contexts together, or ends the process.
LEMMA ExitAllowed ==
  ASSUME TypeOK, PhaseConsistent, SlotAccounting, GatedAdmission, Gated, Exit
  PROVE  AbstractStep
<1>1. CASE \E r \in byRequest : ~wired[r]
  <2>1. GoesDown
    BY <1>1 DEF Exit, contextVars, GoesDown, QuietAt
  <2>2. QED BY <2>1, MovesAllowed DEF Moves
<1>2. CASE \A r \in byRequest : wired[r]
  <2>1. /\ ~crashed /\ UNCHANGED crashed /\ Drained
        /\ settled' = [r \in Requests |-> IF r \in byRequest THEN "rejected" ELSE settled[r]]
    BY <1>2 DEF Exit
  <2>2. \A r \in byRequest : Stage(r)' = "failed"
    <3>1. TAKE r \in byRequest
    <3>2. settled'[r] = "rejected"
      BY <2>1 DEF TypeOK
    <3>3. QED BY <3>2 DEF Stage
  <2>3. \A r \in Requests \ byRequest : QuietAt(r)
    <3>1. TAKE r \in Requests \ byRequest
    <3>2. pc[r] # "hsWait"
      BY DEF GatedAdmission
    <3>3. pc'[r] = CASE pc[r] = "convWait" -> "convFail"
                     [] pc[r] = "listenWait" -> "listenFail"
                     [] OTHER -> pc[r]
      BY <1>2, <3>2 DEF Exit
    <3>4. QED BY <2>1, <3>3 DEF QuietAt, Seen
  <2>4. StageFun' = [r \in Requests |-> IF r \in byRequest THEN "failed" ELSE StageFun[r]]
    BY <2>2, <2>3, QuietStage DEF StageFun
  <2>5. Service!Active = byRequest
    BY <2>1, ActiveIsLive
  <2>6. CASE byRequest = {}
    <3>1. StageFun' = StageFun
      BY <2>4, <2>6 DEF StageFun
    <3>2. QED BY <2>1, <3>1 DEF AbstractStep, Service!vars, StageFun
  <2>7. CASE byRequest # {}
    <3>1. Service!FailAll(byRequest)
      BY <2>1, <2>4, <2>5, <2>7 DEF Service!FailAll, StageFun
    <3>2. QED BY <2>5, <3>1 DEF AbstractStep, Service!Next
  <2>8. QED BY <2>6, <2>7
<1>3. QED BY <1>1, <1>2

-----------------------------------------------------------------------------
(* The theorem.                                                             *)

\* Every step of the transport is a step of the service or none.
LEMMA StepAllowed ==
  ASSUME InductiveInvariant, Gated, [Next]_vars
  PROVE  AbstractStep
<1> USE DEF InductiveInvariant
<1>1. CASE UNCHANGED vars
  <2>1. Stutters
    BY <1>1 DEF vars, contextVars, Stutters, QuietAt
  <2>2. QED BY <2>1, MovesAllowed DEF Moves
<1>2. CASE \/ Spawn \/ ReadyLine
           \/ \E n \in 1..MaxInits : InitializeOk(n) \/ InitializeError(n) \/ InitializeTimeout(n)
  BY <1>2, WorkerMoves, MovesAllowed DEF Moves
<1>3. CASE Exit
  BY <1>3, ExitAllowed
<1>4. ASSUME NEW r \in Requests, Refuse(r) \/ Start(r) \/ OpenContext(r)
      PROVE  AbstractStep
  BY <1>4, RefuseAllowed, StartAllowed, OpenAllowed
<1>5. ASSUME NEW r \in Requests,
             \/ HandshakeThrow(r) \/ Subscribe(r) \/ SetupThrow(r) \/ Finish(r)
             \/ ConversationCreated(r) \/ ListenerAdded(r) \/ TurnAccepted(r)
             \/ ListenerRemoved(r)
      PROVE  AbstractStep
  BY <1>5, SetupMoves, MovesAllowed
<1>6. ASSUME NEW r \in Requests,
             \/ SendTurn(r) \/ Kill(r) \/ Timer(r) \/ MessageAnswered(r)
             \/ (\E m \in Methods : RpcError(m, r))
             \/ \E c \in Requests : Notification(c, r)
      PROVE  AbstractStep
  BY <1>6, SendTurnMoves, KillMoves, EventMoves, MovesAllowed
<1>7. QED BY <1>1, <1>2, <1>3, <1>4, <1>5, <1>6 DEF Next, Continuation, Answer

\* Nothing is active at first.
LEMMA InitAllowed == Init => Service!Init
  BY DEF Init, Service!Init, Stage

\* Behind the gate, every behaviour of the transport is one of RequestService, for
\* any number of requests and slots: a request is admitted to a free slot or
\* refused, and is answered or failed once, or the process goes down.
THEOREM TransportServes == ASSUME Gated PROVE Spec => Service!SafeSpec
<1>1. InductiveInvariant /\ [Next]_vars => AbstractStep
  BY StepAllowed
<1>2. QED BY <1>1, InitAllowed, Invariant, PTL DEF Spec, Service!SafeSpec, AbstractStep
=============================================================================
