--------------------------- MODULE MCUsageMetering ---------------------------
EXTENDS UsageMetering, TLC

\* A limit of two, one of three and none.
MCPlans == {"FREE", "PRO", "ENTERPRISE"}
MCAllowance == ("FREE" :> 2) @@ ("PRO" :> 3) @@ ("ENTERPRISE" :> UNLIMITED)

\* Bound: usage without a limit is followed to the first value no limit allows.
MCBound == lifted => used <= 8

MCSymmetry == Permutations(Workers)
=============================================================================
