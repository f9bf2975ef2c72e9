---------------------------- MODULE MCMoveLength ----------------------------
(***************************************************************************)
(* Instances of MoveLength for TLC, with the values of MCSMC.              *)
(***************************************************************************)
EXTENDS MoveLength, MCSMC
=============================================================================
