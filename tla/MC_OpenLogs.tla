----------------------------- MODULE MC_OpenLogs -----------------------------
(* Instances of OpenLogs. *)
EXTENDS OpenLogs

CONSTANTS c1, c2, c3

=============================================================================
