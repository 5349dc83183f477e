--------------------------- MODULE MCDistribution ---------------------------
(* An artifact, two editors and a caller who syncs. Artifacts share no row, *)
(* so every property is about one of them at a time.                        *)
EXTENDS Distribution, TLC

CONSTANTS a1, c1, c2, bad, d1, d2

Symmetry == Permutations({c1, c2}) \cup Permutations({d1, d2})

=============================================================================
