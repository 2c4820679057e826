--------------------------- MODULE MCRecordFiles ---------------------------
(* RecordFiles for TLC: WebUI processes, process IDs and chosen IDs are
   interchangeable. *)
EXTENDS RecordFiles, TLC

Symmetry == Permutations(Uis) \cup Permutations(Pids) \cup Permutations(ChosenIds)

=============================================================================
