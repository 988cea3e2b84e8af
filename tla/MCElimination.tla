--------------------------- MODULE MCElimination ---------------------------
(***************************************************************************)
(* All games of two players with the given payoffs.                        *)
(***************************************************************************)
EXTENDS Elimination

ThreeByTwo == <<3, 2>>
AllGames == [Profiles -> [Players -> {0, 1}]]
=============================================================================
