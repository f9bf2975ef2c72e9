----------------------------- MODULE SerialLink -----------------------------
(***************************************************************************)
(* What the serial input promises a host that waits for replies: each      *)
(* packet reaches the dispatcher once, whole and in order, unless the host *)
(* gives up in the middle of it.                                           *)
(***************************************************************************)
EXTENDS Sequences

CONSTANT Packets

VARIABLES inflight,   \* the packet being sent, or << >>
          got         \* what the dispatcher was last given

linkVars == <<inflight, got>>

LinkInit == inflight = << >> /\ got = << >>

Offer == inflight = << >> /\ inflight' \in Packets /\ UNCHANGED got

Deliver == inflight # << >> /\ inflight' = << >> /\ got' = inflight

GiveUp == inflight # << >> /\ inflight' = << >> /\ UNCHANGED got

LinkSpec == LinkInit /\ [][Offer \/ Deliver \/ GiveUp]_linkVars
=============================================================================
