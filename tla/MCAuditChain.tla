---------------------------- MODULE MCAuditChain ----------------------------
(***************************************************************************)
(* AuditChain on small instances.                                          *)
(***************************************************************************)
EXTENDS AuditChain, TLC

\* Events and chains differ only in name.
Symmetry == Permutations(Events) \cup Permutations(Chains)

\* Bound: behaviours are followed as long as at most one append has failed
\* and at most one chain was altered, as often as may be.
FewFaults ==
  /\ Cardinality({e \in Events : task[e].at = "failed"}) <= 1
  /\ Cardinality(altered) <= 1
=============================================================================
