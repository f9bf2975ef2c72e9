-------------------------- MODULE MCHighSideLatency --------------------------
(***************************************************************************)
(* Instances of HighSideLatency for TLC, with the values of MCSMC.         *)
(***************************************************************************)
EXTENDS HighSideLatency, MCSMC
=============================================================================
