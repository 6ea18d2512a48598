----------------------------- MODULE MC_DirtyLog -----------------------------
(* Values for the constants of DirtyLog. *)
EXTENDS DirtyLog

CONSTANT c1

MCMaxRecords == [c \in {c1} |-> 3]

=============================================================================
