--------------------------- MODULE MCSessionCache ---------------------------
(* TLC instances of SessionCache. *)
EXTENDS SessionCache, TLC

OneTenant == [k \in Keys |-> "tenant"]
TwoTenants == [k \in Keys |-> k]

Symmetry == Permutations(Requests) \cup Permutations(Sessions)
            \cup Permutations(Ids) \cup Permutations(Keys)
=============================================================================
