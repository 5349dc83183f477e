----------------------------- MODULE MCSeatCap -----------------------------
(* Three subjects, two seats, two concurrent requests. *)
EXTENDS SeatCap, TLC

Symmetry == Permutations(Subjects) \cup Permutations(Requests)
=============================================================================
