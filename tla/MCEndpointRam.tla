---------------------------- MODULE MCEndpointRam ----------------------------
(***************************************************************************)
(* Instances of EndpointRam for TLC: the RAM of the board, the layout of   *)
(* USBHID, and layouts of packet sizes that do not fill their alignment.   *)
(***************************************************************************)
EXTENDS EndpointRam

MCRamSize == 2048

\* Five entries of 16 bytes, rounded up to 64, and 64 + 64 + 8 bytes behind them.
MCReserved == 128 + 136
MCAlign == 64
MCEndpoint == {"EPINT_IN", "EPINT_OUT"}

Add(x, p, s) == [ep |-> x, maxPacket |-> p, single |-> s]
MCLayouts == {<<Add("EPINT_IN", p, s), Add("EPINT_OUT", q, t)>> :
                 p \in {64, 8, 200}, q \in {64, 40}, s \in BOOLEAN, t \in BOOLEAN}
=============================================================================
