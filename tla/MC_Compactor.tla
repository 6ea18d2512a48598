---------------------------- MODULE MC_Compactor ----------------------------
(* Values for the constants of Compactor. *)
EXTENDS Compactor, TLC

CONSTANTS c1, c2

(* All collections are assigned alike. *)
MCRank == [c \in Collections |-> SetToSeq(Nodes)]

MCMaxRecords == [c \in Collections |-> IF c = c1 THEN 2 ELSE 1]

=============================================================================
