------------------------ MODULE MCCertificateAuthority ------------------------
(***************************************************************************)
(* CertificateAuthority on a small instance.                               *)
(***************************************************************************)
EXTENDS CertificateAuthority, TLC

MCSymmetry == Permutations(Instances) \cup Permutations(Generations)
=============================================================================
