----------------------------- MODULE MCHashTable -----------------------------
(* Instances of HashTable for TLC.                                          *)
EXTENDS HashTable, TLC

CONSTANTS k1, k2, k3, k4, v1, v2

\* Three sizes with the load limits 1, 2 and 4: the second and the third entry
\* make the table grow.
MCPrimes == <<1, 2, 5>>

Symmetry == Permutations({k1, k2, k3, k4}) \union Permutations({v1, v2})
=============================================================================
