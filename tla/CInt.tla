-------------------------------- MODULE CInt --------------------------------
(***************************************************************************)
(* The type int of C: what a larger number becomes when it is stored in    *)
(* one.                                                                    *)
(***************************************************************************)
EXTENDS Integers

CONSTANT IntMax     \* INT_MAX

ASSUME IntAssumption == IntMax \in Nat

\* Its lowest bits, in two's complement.
ToInt(n) ==
    IF n \in (-IntMax - 1)..IntMax THEN n
    ELSE ((n + IntMax + 1) % (2 * (IntMax + 1))) - IntMax - 1
=============================================================================
