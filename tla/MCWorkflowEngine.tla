--------------------------- MODULE MCWorkflowEngine ---------------------------
(***************************************************************************)
(* WorkflowEngine on small instances.                                      *)
(***************************************************************************)
EXTENDS WorkflowEngine, FiniteSets

\* Bound: a behaviour is followed up to its second kind of mishap.
OneMishap == Cardinality(mishaps) <= 1

\* Bound: a condition looks at the output of the step right before its own.
ShortConditions == \A i \in Steps : condition[i].on \in {0, i - 1}
=============================================================================
