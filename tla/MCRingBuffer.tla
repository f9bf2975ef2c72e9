---------------------------- MODULE MCRingBuffer ----------------------------
(***************************************************************************)
(* A ring of four slots: wraps at each slot, with each number of elements. *)
(* 0 is among the values, since the pool is cleared with it.  The indices  *)
(* pass the size, and the largest wraps to 0 when it is counted up.        *)
(***************************************************************************)
EXTENDS RingBuffer

MCData == {0, 1, 2}
=============================================================================
