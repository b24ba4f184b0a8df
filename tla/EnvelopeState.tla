---------------------------- MODULE EnvelopeState ----------------------------
(***************************************************************************)
(* The pure rules of modules/envelopes/envelope-state.ts: the legal moves  *)
(* of an envelope's status and the signing-order logic.  A roster is a     *)
(* function st from signers to signer statuses; ABSENT stands for a signer *)
(* who has no envelope_signers row.  An order is a function from signers   *)
(* to naturals, a mode is "SEQUENTIAL" or "PARALLEL".                      *)
(*                                                                         *)
(* Throughout the project an operator whose name starts with Mut is no     *)
(* part of the model: it is the definition that follows it with a planted  *)
(* bug, used to show that a property would notice that bug.                *)
(***************************************************************************)
EXTENDS Naturals

EnvelopeStatus == {"DRAFT", "SENT", "IN_PROGRESS", "COMPLETED", "DECLINED",
                   "VOIDED", "EXPIRED"}

TerminalStatuses == {"COMPLETED", "DECLINED", "VOIDED", "EXPIRED"}

\* ENVELOPE_TRANSITIONS, as the set of its pairs.
EnvelopeTransitions ==
  ({"DRAFT"} \X {"SENT", "VOIDED"})
    \cup ({"SENT"} \X ({"IN_PROGRESS"} \cup TerminalStatuses))
    \cup ({"IN_PROGRESS"} \X TerminalStatuses)

IsTerminal(status) == status \in TerminalStatuses

CanTransition(from, to) == <<from, to>> \in EnvelopeTransitions

-----------------------------------------------------------------------------

SigningModes == {"SEQUENTIAL", "PARALLEL"}

SignerStatus == {"PENDING", "NOTIFIED", "VIEWED", "CONSENTED", "SIGNED",
                 "DECLINED"}

ABSENT == "ABSENT"

Roster(st) == {s \in DOMAIN st : st[s] # ABSENT}

IsSignerComplete(status) == status \in {"SIGNED", "DECLINED"}

Incomplete(st) == {s \in Roster(st) : ~IsSignerComplete(st[s])}

\* Under SEQUENTIAL the incomplete signers of the lowest incomplete order.
ActionableSigners(st, order, mode) ==
  {s \in Incomplete(st) :
     mode = "SEQUENTIAL" => \A t \in Incomplete(st) : order[s] <= order[t]}

\* Planted bug: any incomplete signer may act.
MutAnyTurn(st, order, mode, s) == s \in Incomplete(st)

IsSignerActionable(st, order, mode, s) == s \in ActionableSigners(st, order, mode)

\* Planted bug: a signer who declined counts as done.
MutAllComplete(st) == Roster(st) # {} /\ Incomplete(st) = {}

AllSignersSigned(st) ==
  /\ Roster(st) # {}
  /\ \A s \in Roster(st) : st[s] = "SIGNED"
=============================================================================
