--------------------------- MODULE MCGameDocument ---------------------------
(***************************************************************************)
(* Values for the constants of GameDocument that a .cfg cannot write.      *)
(***************************************************************************)
EXTENDS GameDocument

Opened == {<<2, 2>>, <<1, 2>>}
=============================================================================
