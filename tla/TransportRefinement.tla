------------------------- MODULE TransportRefinement -------------------------
(***************************************************************************)
(* Behind the readiness gate, the transport implements RequestService.     *)
(***************************************************************************)
EXTENDS Transport

\* A request is active from the moment it passes the capacity check: its
\* continuation is then ready (hsOk) or its context is open.
Stage(r) ==
  CASE settled[r] = "resolved" -> "answered"
    [] settled[r] = "rejected" -> "failed"
    [] settled[r] = "open" \/ (settled[r] = "none" /\ pc[r] = "hsOk") -> "active"
    [] settled[r] = "none" /\ pc[r] = "idle" -> "new"
    [] OTHER -> "failed"

Service == INSTANCE RequestService
             WITH Limit <- Capacity, stage <- [r \in Requests |-> Stage(r)], up <- ~crashed

\* Every behaviour of the transport, seen through Stage, is one the service
\* allows: slots are never oversubscribed, outcomes never change, and whoever
\* holds a slot is answered or failed while the process lives.
ImplementsService == Service!Spec

=============================================================================
