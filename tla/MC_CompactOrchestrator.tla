----------------------- MODULE MC_CompactOrchestrator -----------------------
(* Instances of CompactOrchestrator. *)
EXTENDS CompactOrchestrator

=============================================================================
