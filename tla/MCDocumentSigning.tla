-------------------------- MODULE MCDocumentSigning --------------------------
EXTENDS DocumentSigning, TLC

MCSymmetry ==
  UNION {Permutations(S) : S \in {Docs, Keys, Contents, Certs, Workers}}
=============================================================================
