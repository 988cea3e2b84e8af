----------------------------- MODULE MCGameTree -----------------------------
(***************************************************************************)
(* Small trees to start from: an empty one; one in which player 2 moves    *)
(* without knowing what player 1 and chance did; and one in which he moves *)
(* without knowing what player 1 did, and then, in one case, again without *)
(* knowing whether player 1 moved at all.                                  *)
(***************************************************************************)
EXTENDS GameTree

Hidden ==
  LET t1 == AppendNewMove(AppendNewMove(NewTree, 1, 1, 2), 2, Chance, 2)
      t2 == AppendNewMove(t1, 4, 2, 1)
  IN AppendMove(AppendMove(t2, 5, 3), 3, 3)

Unknown ==
  LET t1 == AppendNewMove(AppendNewMove(NewTree, 1, Chance, 2), 2, 1, 2)
      t2 == AppendMove(AppendNewMove(t1, 4, 2, 1), 5, 3)
      t3 == AppendNewMove(t2, 6, 2, 1)
  IN AppendMove(t3, 3, 4)

Trees == {NewTree, Hidden, Unknown}
=============================================================================
