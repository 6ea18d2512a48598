------------------------ MODULE MC_GarbageCollection ------------------------
(* Values for the constants of GarbageCollection. *)
EXTENDS GarbageCollection

MCNumRecords == [b \in Batches |-> IF b = 2 THEN 2 ELSE 1]

(* Far enough apart for sums over different batches never to coincide. *)
MCWeight == [b \in Batches |-> 16^(b - 1)]

(* Batches are interchangeable, so it is enough to append them in order. *)
InOrder ==
    \A b, c \in Batches :
        b < c /\ result[c].status # "none" => result[b].status # "none"

=============================================================================
