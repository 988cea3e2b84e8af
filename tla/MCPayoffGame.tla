---------------------------- MODULE MCPayoffGame ----------------------------
(***************************************************************************)
(* Values for the constants of PayoffGame that a .cfg cannot write.        *)
(***************************************************************************)
EXTENDS PayoffGame

CONSTANTS honest, inflate

OneStrategy == <<honest>>
HonestInflate == <<honest, inflate>>
Configs == UNION {[1..n -> Strategies] : n \in PlayerCounts}
=============================================================================
