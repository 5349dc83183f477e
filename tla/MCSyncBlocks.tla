---------------------------- MODULE MCSyncBlocks ----------------------------
EXTENDS SyncBlocks, TLC

CONSTANTS p1, b1, b2, r1, r2

(* A rule and a seed for the project; or a global rule and the same seed at *)
(* user scope. Each takes away what the other serves.                       *)
MCEntitlements ==
    {[rule |-> b1, targets |-> Projects, global |-> None, seed |-> b1, scope |-> "project"],
     [rule |-> None, targets |-> {}, global |-> b1, seed |-> b1, scope |-> "user"]}

Symm == Permutations(Procs)
=============================================================================
