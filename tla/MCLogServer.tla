----------------------------- MODULE MCLogServer -----------------------------
(* Instances of LogServer for TLC.                                          *)
EXTENDS LogServer, TLC

CONSTANTS a, b, c, stat

MCNames == {a, b, c, stat}

\* The lognames of clients are alike; the one of the statistics is not.
Symmetry == Permutations({a, b, c})
=============================================================================
