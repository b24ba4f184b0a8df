-------------------------- MODULE MCEnvelopeSigning --------------------------
(***************************************************************************)
(* EnvelopeSigning on small instances.                                     *)
(***************************************************************************)
EXTENDS EnvelopeSigning, TLC

\* Neither signers nor workers are told apart except by the variables they
\* index, so any renaming of them maps behaviours to behaviours.
Symmetry == Permutations(Signers) \cup Permutations(Workers)

\* ActionableSigners only compares orders, and only under SEQUENTIAL: it is
\* enough to run orders that start at 1, and under PARALLEL the default, 1.
CanonicalOrder ==
  /\ \E s \in Signers : order[s] = 1
  /\ mode = "PARALLEL" => \A s \in Signers : order[s] = 1

\* No guard and no property of the racing run reads the jobs ever enqueued.
AllButEnqueued == <<mode, order, deadline, status, signerStatus, viewedAt,
                    declinedAt, hasSignature, expiryJob, req, late>>

\* The counterexamples should not be the one of two overlapping sends.
OneSend == Cardinality({w \in Workers : req[w].op = "send"}) <= 1
=============================================================================
