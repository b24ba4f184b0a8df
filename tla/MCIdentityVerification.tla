------------------------ MODULE MCIdentityVerification ------------------------
(***************************************************************************)
(* IdentityVerification on a small instance.                               *)
(***************************************************************************)
EXTENDS IdentityVerification, TLC

\* One score that fails a check and one that outweighs it in the mean.
MCScores == {4, 9}
=============================================================================
