------------------------------ MODULE MCCallTree ------------------------------
(* Instances of CallTree for TLC: some methods, one of them in a library, and *)
(* two of them declared at one place of the source.                          *)
EXTENDS CallTree

CONSTANTS a, b, c, d, x

Places == [i \in Items |-> IF i \in {b, c} THEN {b, c} ELSE {i}]

\* What a caller may ask for, and what one may not have meant.
Depths == {-1, 0, 3}

\* The two methods of one place are alike.
Symmetry == Permutations({b, c})
===============================================================================
