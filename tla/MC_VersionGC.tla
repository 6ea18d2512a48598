---------------------------- MODULE MC_VersionGC ----------------------------
(* Small fork trees for TLC: collection a is the root. *)
EXTENDS VersionGC, TLC

CONSTANTS a, b, c

(* The forks are interchangeable. *)
Symmetry == Permutations({b, c})
=============================================================================
