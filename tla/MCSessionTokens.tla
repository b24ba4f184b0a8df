--------------------------- MODULE MCSessionTokens ---------------------------
(***************************************************************************)
(* SessionTokens on small instances.                                       *)
(***************************************************************************)
EXTENDS SessionTokens, TLC

Symmetry ==
  Permutations(Sessions) \cup Permutations(Tokens) \cup Permutations(Passwords)
    \cup Permutations(Workers)
=============================================================================
