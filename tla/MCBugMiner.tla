----------------------------- MODULE MCBugMiner -----------------------------
(***************************************************************************)
(* Two components, one with a single bug and one with two.                 *)
(***************************************************************************)
EXTENDS BugMiner

CONSTANTS calc, chart, b1, b2, b3, u1, u2, P1, P3

Catalog == <<chart, calc>>
BugLists == [c \in {calc, chart} |-> IF c = calc THEN <<b1, b2>> ELSE <<b3>>]
Symmetry == Permutations({u1, u2}) \cup Permutations({P1, P3})
=============================================================================
