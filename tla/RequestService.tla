--------------------------- MODULE RequestService ---------------------------
(***************************************************************************)
(* What the transport promises to the HTTP handlers, without handshakes,   *)
(* calls, conversations or timers: a request is refused or takes one of    *)
(* Limit slots, and a request that holds a slot is answered or failed, once.*)
(* The worker's exit fails any number of them together.  The process may   *)
(* go down; then nothing is promised.                                      *)
(***************************************************************************)
EXTENDS Naturals, FiniteSets

CONSTANTS Requests, Limit

VARIABLES
  stage,  \* of each request: "new", "active", "answered", "failed"
  up      \* the process is alive

vars == <<stage, up>>

Active == {r \in Requests : stage[r] = "active"}

Init == /\ stage = [r \in Requests |-> "new"]
        /\ up = TRUE

Refuse(r) == /\ up /\ stage[r] = "new"
             /\ stage' = [stage EXCEPT ![r] = "failed"]
             /\ UNCHANGED up

Admit(r) == /\ up /\ stage[r] = "new"
            /\ Cardinality(Active) < Limit
            /\ stage' = [stage EXCEPT ![r] = "active"]
            /\ UNCHANGED up

Answer(r) == /\ up /\ stage[r] = "active"
             /\ stage' = [stage EXCEPT ![r] = "answered"]
             /\ UNCHANGED up

FailAll(S) == /\ up /\ S # {} /\ S \subseteq Active
              /\ stage' = [r \in Requests |-> IF r \in S THEN "failed" ELSE stage[r]]
              /\ UNCHANGED up

GoDown == /\ up /\ up' = FALSE
          /\ UNCHANGED stage

Next == \/ \E r \in Requests : Refuse(r) \/ Admit(r) \/ Answer(r)
        \/ \E S \in SUBSET Active : FailAll(S)
        \/ GoDown

\* What may happen, and what must.
SafeSpec == Init /\ [][Next]_vars

Spec == SafeSpec /\ \A r \in Requests : WF_vars(Answer(r) \/ FailAll({r}))

=============================================================================
