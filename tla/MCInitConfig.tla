---------------------------- MODULE MCInitConfig ----------------------------
(***************************************************************************)
(* Two shguard init and a user; the two are interchangeable.               *)
(***************************************************************************)
EXTENDS InitConfig, TLC

InitSymmetry == Permutations(InitProc)
=============================================================================
