-------------------------- MODULE MCFitnessSearch ---------------------------
(***************************************************************************)
(* Two candidates that differ in the number of testers only.               *)
(***************************************************************************)
EXTENDS FitnessSearch

TwoCandidates == <<[devs |-> 2, testers |-> 2, defects |-> 5],
                   [devs |-> 2, testers |-> 3, defects |-> 5]>>
=============================================================================
