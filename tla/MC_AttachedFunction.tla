------------------------- MODULE MC_AttachedFunction -------------------------
(* Model values for the runs of AttachedFunction.                          *)
EXTENDS AttachedFunction, TLC

CONSTANTS f1, f2, w1, w2

MCBuckets == 1..2

WorkersSymmetry == Permutations(Workers)

=============================================================================
