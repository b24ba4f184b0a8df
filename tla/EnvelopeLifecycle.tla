-------------------------- MODULE EnvelopeLifecycle --------------------------
(***************************************************************************)
(* What an envelope promises to the rest of the system: its status starts  *)
(* at DRAFT and only ever moves along ENVELOPE_TRANSITIONS.  A terminal    *)
(* status has no outgoing transition, so it is final.                      *)
(***************************************************************************)
EXTENDS EnvelopeState

VARIABLE status

Init == status = "DRAFT"

Move(to) ==
  /\ CanTransition(status, to)
  /\ status' = to

Next == \E to \in EnvelopeStatus : Move(to)

Spec == Init /\ [][Next]_status
=============================================================================
