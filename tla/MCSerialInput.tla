---------------------------- MODULE MCSerialInput ---------------------------
(***************************************************************************)
(* Buffers of three and four slots and packets of two bytes in the place   *)
(* of 64 and 16.  All the bytes of a host that streams are the same.       *)
(***************************************************************************)
EXTENDS SerialInput

OneByte == {1}
TwoBytes == {1, 2}
AllTheSame == {[i \in 1..Packet |-> 1]}
=============================================================================
