---------------------------- MODULE MCMemberships ----------------------------
(***************************************************************************)
(* Memberships on small instances.                                         *)
(***************************************************************************)
EXTENDS Memberships, TLC

Symmetry ==
  Permutations(Users \ {Founder}) \cup Permutations(Rows \ {FirstRow})
    \cup Permutations(Workers)
=============================================================================
