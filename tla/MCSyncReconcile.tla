-------------------------- MODULE MCSyncReconcile --------------------------
(* Two paths, two served contents, two processes. *)
EXTENDS SyncReconcile, TLC

Symmetry == Permutations(Paths) \cup Permutations(Contents) \cup Permutations(Runs)
=============================================================================
