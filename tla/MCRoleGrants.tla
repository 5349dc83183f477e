---------------------------- MODULE MCRoleGrants ----------------------------
(* Two roles, a server and two artifacts, under concurrent admin requests.  *)
EXTENDS RoleGrants, TLC

CONSTANTS r1, r2, s1, a1, a2, n1, n2, t1, t2

Symmetry == Permutations({r1, r2}) \cup Permutations({n1, n2})
                \cup Permutations({t1, t2}) \cup Permutations({a1, a2})

=============================================================================
