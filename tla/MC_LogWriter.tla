---------------------------- MODULE MC_LogWriter ----------------------------
(* Values for the constants of LogWriter. *)
EXTENDS LogWriter

MCNumRecords == [b \in Batches |-> IF b = 1 THEN 2 ELSE 1]

(* Far enough apart for sums over different batches never to coincide. *)
MCWeight == [b \in Batches |-> 16^(b - 1)]

(* Batches are interchangeable, so it is enough to append them in order. *)
InOrder ==
    \A b, c \in Batches :
        b < c /\ result[c].status # "none" => result[b].status # "none"

=============================================================================
