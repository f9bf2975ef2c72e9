----------------------------- MODULE EndpointRam -----------------------------
(***************************************************************************)
(* The USB RAM of the LPC11U24: what the constructor of USBHAL reserves    *)
(* for the endpoint list and endpoint 0, and behind it the buffers of the  *)
(* other endpoints.  realiseEndpoint takes them from a pointer that only   *)
(* grows until the next bus reset, and a host may select the configuration *)
(* again and again (src/USBDevice/USBDevice/USBHAL_LPC11U.cpp).            *)
(***************************************************************************)
EXTENDS Integers, Sequences

CONSTANTS RamSize,   \* USB_RAM_SIZE; addresses count from USB_RAM_START
          Reserved,  \* where the constructor leaves usbRamPtr
          Align,     \* of a buffer
          Endpoint,
          Layouts    \* of a class: the endpoints it adds, with their packet sizes

AddEndpoint == [ep : Endpoint, maxPacket : Nat, single : BOOLEAN]

ASSUME RamAssumption ==
    /\ RamSize \in Nat /\ Reserved \in 0..RamSize /\ Align \in Nat \ {0}
    /\ Layouts \subseteq Seq(AddEndpoint)

\* A class adds an endpoint once.
ASSUME LayoutAssumption ==
    \A l \in Layouts : \A i, j \in DOMAIN l : l[i].ep = l[j].ep => i = j

\* The RAM has room for the endpoints of a class, each with two buffers and what
\* their alignment leaves free: two endpoints with packets of 64 bytes in 2048.
PacketsFit(l, m) ==
    /\ \A i \in DOMAIN l : l[i].maxPacket <= m
    /\ Reserved + Len(l) * (2 * (m + Align)) <= RamSize

ASSUME RoomAssumption == \A l \in Layouts : \E m \in 0..RamSize : PacketsFit(l, m)

VARIABLES layout,         \* the class, chosen once
          epRamPtr,       \* end of the RAM that is taken
          endpointState,
          enabled,        \* the endpoints that are enabled
          adding,         \* what USBCallback_setConfiguration still has to add
          configured

vars == <<layout, epRamPtr, endpointState, enabled, adding, configured>>

Slots == {0, 1}
EP_STATE == [buffer : [Slots -> Nat], maxPacket : Nat, single : BOOLEAN]

\* After the bus reset with which a host takes note of a device.
Init ==
    /\ layout \in Layouts
    /\ epRamPtr = Reserved /\ enabled = {} /\ adding = <<>> /\ configured = FALSE
    /\ endpointState = [e \in Endpoint |->
          [buffer |-> [s \in Slots |-> 0], maxPacket |-> 0, single |-> FALSE]]

-----------------------------------------------------------------------------
(* realiseEndpoint, for the next endpoint of the class.                    *)

ROUND_UP_TO_MULTIPLE(x, m) == ((x + (m - 1)) \div m) * m

Added == Head(adding)
Packet == Added.maxPacket

First == ROUND_UP_TO_MULTIPLE(epRamPtr, Align)

\* Mutant: in the place of the first buffer.
SecondSame(b) == b
Second(b) == ROUND_UP_TO_MULTIPLE(b + Packet, Align)

\* Mutant: a buffer may begin where the RAM ends.
FitsStart(b) == b <= RamSize
Fits(b) == b + Packet <= RamSize

Buffers(b0, b1) == [s \in Slots |-> IF s = 0 THEN b0 ELSE b1]

\* "Commit to this USB RAM allocation".
Commit(buffer, end) ==
    /\ epRamPtr' = end
    /\ endpointState' = [endpointState EXCEPT
          ![Added.ep] = [buffer |-> buffer, maxPacket |-> Packet, single |-> Added.single]]
    /\ enabled' = enabled \cup {Added.ep}

\* "Out of memory": the caller does not look at the result, and the address of
\* the first buffer has been stored if only the second does not fit.
OutOfMemory(buffer) ==
    /\ endpointState' = [endpointState EXCEPT
          ![Added.ep] = [buffer |-> buffer, maxPacket |-> @.maxPacket, single |-> @.single]]
    /\ UNCHANGED <<epRamPtr, enabled>>

realiseEndpoint ==
    LET old == endpointState[Added.ep].buffer IN
    \/ ~Fits(First) /\ OutOfMemory(old)
    \/ /\ Fits(First) /\ Added.single
       /\ Commit(Buffers(First, old[1]), First + Packet)
    \/ /\ Fits(First) /\ ~Added.single /\ ~Fits(Second(First))
       /\ OutOfMemory(Buffers(First, old[1]))
    \/ /\ Fits(First) /\ ~Added.single /\ Fits(Second(First))
       /\ Commit(Buffers(First, Second(First)), Second(First) + Packet)

\* An endpoint of USBCallback_setConfiguration, and the last one.
addEndpoint ==
    /\ adding # <<>> /\ adding' = Tail(adding)
    /\ realiseEndpoint
    /\ configured' = (adding' = <<>>)
    /\ UNCHANGED layout

-----------------------------------------------------------------------------
(* What the host does.                                                     *)

\* Mutant: the buffers stay taken.
AllTaken == epRamPtr
NoneTaken == Reserved

\* disableEndpoints.
BusReset ==
    /\ adding = <<>>
    /\ epRamPtr' = NoneTaken /\ enabled' = {} /\ configured' = FALSE
    /\ UNCHANGED <<layout, endpointState, adding>>

SetConfiguration ==
    /\ adding = <<>> /\ layout # <<>>
    /\ adding' = layout /\ configured' = FALSE
    /\ UNCHANGED <<layout, epRamPtr, endpointState, enabled>>

Next == addEndpoint \/ BusReset \/ SetConfiguration

Spec == Init /\ [][Next]_vars

-----------------------------------------------------------------------------
(* Properties.                                                             *)

TypeOK ==
    /\ layout \in Layouts /\ adding \in Seq(AddEndpoint) /\ configured \in BOOLEAN
    /\ epRamPtr \in 0..RamSize
    /\ endpointState \in [Endpoint -> EP_STATE]
    /\ enabled \subseteq Endpoint

Used(x) == IF endpointState[x].single THEN {0} ELSE Slots
Begins(x, s) == endpointState[x].buffer[s]
Ends(x, s) == Begins(x, s) + endpointState[x].maxPacket

\* An enabled endpoint never has a buffer in the endpoint list, in the data of
\* endpoint 0 or behind the RAM, however often the host selects the
\* configuration and whatever addEndpoint returned.
BuffersInRam ==
    \A x \in enabled : \A s \in Used(x) : Begins(x, s) >= Reserved /\ Ends(x, s) <= RamSize

\* The two buffers of an endpoint never overlap, also when the RAM ran out
\* between them and one of them is of an earlier configuration: main copies a
\* report to one while the controller sends the other.
BuffersApart ==
    \A x \in enabled : ~endpointState[x].single =>
        Ends(x, 0) <= Begins(x, 1) \/ Ends(x, 1) <= Begins(x, 0)

\* A configured device has all endpoints of its class, after any number of
\* resets and configurations.
AllEnabled == configured => \A i \in DOMAIN layout : layout[i].ep \in enabled
=============================================================================
