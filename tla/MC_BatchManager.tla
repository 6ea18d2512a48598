--------------------------- MODULE MC_BatchManager ---------------------------
(* Values for the constants of BatchManager. *)
EXTENDS BatchManager

MCNumBytes == [c \in Callers |-> IF c = 3 THEN 3 ELSE 2]
MCNumMessages == [c \in Callers |-> IF c = 2 THEN 2 ELSE 1]

(* Callers are numbered in the order in which they call. *)
InOrder == \A c, d \in Callers : c < d /\ call[d] # "none" => call[c] # "none"

=============================================================================
