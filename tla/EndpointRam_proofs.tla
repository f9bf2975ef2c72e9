-------------------------- MODULE EndpointRam_proofs --------------------------
(***************************************************************************)
(* Theorems about the USB RAM of the endpoints, for every size of the RAM, *)
(* every alignment and every class.                                        *)
(***************************************************************************)
EXTENDS EndpointRam, TLAPS, SequenceTheorems

LEMMA RoundUpBound ==
    ASSUME NEW x \in Nat
    PROVE  /\ ROUND_UP_TO_MULTIPLE(x, Align) \in Nat
           /\ ROUND_UP_TO_MULTIPLE(x, Align) >= x
<1> DEFINE a == x + (Align - 1)
           q == a \div Align
<1>1. a \in Nat /\ Align \in Nat /\ Align > 0
  BY RamAssumption
<1>2. q \in Int /\ a % Align \in 0..(Align - 1) /\ a = Align * q + (a % Align)
  BY <1>1
<1>3. q \in Nat
  BY <1>1
<1>4. q * Align \in Nat
  BY <1>1, <1>3
<1>5. q * Align = a - (a % Align)
  BY <1>1, <1>2
<1>6. QED
  BY <1>1, <1>2, <1>4, <1>5 DEF ROUND_UP_TO_MULTIPLE

-----------------------------------------------------------------------------
(* The inductive invariant.                                                *)

\* What is still to add is what the class adds, and its endpoints have the
\* packet size and the option they were realised with.
AddingOfLayout == \A i \in DOMAIN adding : \E j \in DOMAIN layout : adding[i] = layout[j]

StateOfLayout ==
    \A x \in enabled : \A j \in DOMAIN layout :
        layout[j].ep = x => /\ endpointState[x].maxPacket = layout[j].maxPacket
                            /\ endpointState[x].single = layout[j].single

\* What an enabled endpoint has: its buffers lie in the RAM behind what is
\* reserved, do not overlap, and the last one ends before the pointer.
Placed(r, ptr) ==
    /\ r.buffer[0] >= Reserved /\ r.buffer[0] + r.maxPacket <= RamSize
    /\ ~r.single =>
          /\ r.buffer[1] >= Reserved /\ r.buffer[1] + r.maxPacket <= RamSize
          /\ r.buffer[1] + r.maxPacket <= ptr
          /\ \/ r.buffer[0] + r.maxPacket <= r.buffer[1]
             \/ r.buffer[1] + r.maxPacket <= r.buffer[0]

AllPlaced == \A x \in enabled : Placed(endpointState[x], epRamPtr)

IInv == TypeOK /\ AddingOfLayout /\ StateOfLayout /\ epRamPtr >= Reserved /\ AllPlaced

LEMMA PlacedIsSafe == AllPlaced => BuffersInRam /\ BuffersApart
BY DEF AllPlaced, Placed, BuffersInRam, BuffersApart, Used, Begins, Ends, Slots

LEMMA InitEstablishes == Init => IInv
<1> SUFFICES ASSUME Init PROVE IInv
  OBVIOUS
<1>1. [s \in Slots |-> 0] \in [Slots -> Nat]
  OBVIOUS
<1>2. endpointState \in [Endpoint -> EP_STATE]
  BY <1>1 DEF Init, EP_STATE
<1>3. adding \in Seq(AddEndpoint) /\ adding = <<>> /\ Len(<<>>) = 0
  BY DEF Init
<1>4. epRamPtr \in 0..RamSize /\ epRamPtr >= Reserved
  BY RamAssumption DEF Init
<1>5. layout \in Layouts /\ configured \in BOOLEAN /\ enabled = {}
  BY DEF Init
<1>6. TypeOK
  BY <1>2, <1>3, <1>4, <1>5 DEF TypeOK
<1>7. StateOfLayout /\ AllPlaced
  BY <1>5 DEF StateOfLayout, AllPlaced
<1>8. AddingOfLayout
  BY <1>3 DEF AddingOfLayout
<1>9. QED
  BY <1>4, <1>6, <1>7, <1>8 DEF IInv

\* The endpoint that is added is one of the class.
LEMMA AddedOfLayout ==
    ASSUME IInv, adding # <<>>
    PROVE  /\ Added \in AddEndpoint /\ Tail(adding) \in Seq(AddEndpoint)
           /\ \E j \in DOMAIN layout : Added = layout[j]
           /\ \A i \in DOMAIN Tail(adding) : \E j \in DOMAIN layout : Tail(adding)[i] = layout[j]
<1>1. adding \in Seq(AddEndpoint) /\ Len(adding) \in Nat \ {0}
  BY DEF IInv, TypeOK
<1>2. Added = adding[1] /\ 1 \in DOMAIN adding
  BY <1>1 DEF Added
<1>3. \A i \in DOMAIN Tail(adding) : Tail(adding)[i] = adding[i + 1] /\ i + 1 \in DOMAIN adding
  BY <1>1
<1>4. QED
  BY <1>1, <1>2, <1>3 DEF IInv, AddingOfLayout

\* Where realiseEndpoint puts the buffers.
LEMMA BuffersBehind ==
    ASSUME IInv, Added \in AddEndpoint
    PROVE  /\ Packet \in Nat
           /\ First \in Nat /\ First >= epRamPtr
           /\ Second(First) \in Nat /\ Second(First) >= First + Packet
<1>1. Packet \in Nat
  BY DEF Packet, AddEndpoint
<1>2. epRamPtr \in Nat
  BY RamAssumption DEF IInv, TypeOK
<1>3. First \in Nat /\ First >= epRamPtr
  BY <1>2, RoundUpBound DEF First
<1>4. First + Packet \in Nat
  BY <1>1, <1>3
<1>5. Second(First) \in Nat /\ Second(First) >= First + Packet
  BY <1>4, RoundUpBound DEF Second
<1>6. QED
  BY <1>1, <1>3, <1>5

\* Facts that do not depend on where the buffers are.
LEMMA AddKeepsLayout ==
    ASSUME IInv, addEndpoint
    PROVE  /\ AddingOfLayout' /\ layout' = layout /\ layout \in Layouts
           /\ adding' \in Seq(AddEndpoint) /\ configured' \in BOOLEAN
           /\ Added \in AddEndpoint
BY AddedOfLayout DEF addEndpoint, AddingOfLayout, IInv, TypeOK

\* What the class says of the endpoint that is added.
LEMMA AddedInLayout ==
    ASSUME IInv, addEndpoint, NEW k \in DOMAIN layout, layout[k].ep = Added.ep
    PROVE  Added = layout[k]
<1>1. PICK j \in DOMAIN layout : Added = layout[j]
  BY AddedOfLayout DEF addEndpoint
<1>2. k = j
  BY <1>1, LayoutAssumption DEF IInv, TypeOK
<1>3. QED
  BY <1>1, <1>2

\* The invariant is kept by a step that gives the added endpoint a new state,
\* if that state fits the class and lies well once the endpoint is enabled.
LEMMA OneChanged ==
    ASSUME IInv, addEndpoint, NEW new \in EP_STATE,
           endpointState' = [endpointState EXCEPT ![Added.ep] = new],
           enabled' \subseteq enabled \cup {Added.ep},
           epRamPtr' \in 0..RamSize, epRamPtr' >= epRamPtr,
           Added.ep \in enabled' => /\ new.maxPacket = Packet /\ new.single = Added.single
                                    /\ Placed(new, epRamPtr')
    PROVE  IInv'
<1> DEFINE z == Added.ep
<1>1. /\ z \in Endpoint /\ endpointState \in [Endpoint -> EP_STATE] /\ enabled \subseteq Endpoint
      /\ epRamPtr \in 0..RamSize /\ RamSize \in Nat /\ Reserved \in Nat /\ epRamPtr >= Reserved
  BY AddKeepsLayout, RamAssumption DEF IInv, TypeOK, AddEndpoint
<1>2. endpointState'[z] = new /\ \A x \in Endpoint \ {z} : endpointState'[x] = endpointState[x]
  BY <1>1
<1>3. \A x \in enabled' : x = z \/ (x \in enabled /\ endpointState'[x] = endpointState[x])
  BY <1>1, <1>2
<1>4. TypeOK'
  BY <1>1, AddKeepsLayout DEF TypeOK
<1>5. StateOfLayout'
  <2>1. SUFFICES ASSUME NEW x \in enabled', NEW j \in DOMAIN layout, layout[j].ep = x
                 PROVE  /\ endpointState'[x].maxPacket = layout[j].maxPacket
                        /\ endpointState'[x].single = layout[j].single
    BY AddKeepsLayout DEF StateOfLayout
  <2>2. CASE x = z
    BY <1>2, <2>1, <2>2, AddedInLayout DEF Packet
  <2>3. CASE x # z
    BY <1>3, <2>1, <2>3 DEF IInv, StateOfLayout
  <2>4. QED
    BY <2>2, <2>3
<1>6. AllPlaced'
  <2>1. SUFFICES ASSUME NEW x \in enabled' PROVE Placed(endpointState'[x], epRamPtr')
    BY DEF AllPlaced
  <2>2. CASE x = z
    BY <1>2, <2>1, <2>2
  <2>3. CASE x # z
    <3>1. x \in enabled /\ endpointState'[x] = endpointState[x] /\ endpointState[x] \in EP_STATE
      BY <1>1, <1>3, <2>3
    <3>2. Placed(endpointState[x], epRamPtr)
      BY <3>1 DEF IInv, AllPlaced
    <3>3. QED
      BY <1>1, <3>1, <3>2 DEF Placed, EP_STATE, Slots
  <2>4. QED
    BY <2>2, <2>3
<1>7. QED
  BY <1>1, <1>4, <1>5, <1>6, AddKeepsLayout DEF IInv

\* realiseEndpoint: in each case the new state lies well.  When only the first
\* buffer fits, an endpoint that was enabled before has it in free RAM, behind
\* its second one.
LEMMA AddPreserves == IInv /\ addEndpoint => IInv'
<1> SUFFICES ASSUME IInv, addEndpoint PROVE IInv'
  OBVIOUS
<1> DEFINE z == Added.ep
           was == endpointState[z]
<1>1. /\ z \in Endpoint /\ Added.single \in BOOLEAN /\ was \in EP_STATE
      /\ epRamPtr \in 0..RamSize /\ RamSize \in Nat /\ Reserved \in Nat /\ epRamPtr >= Reserved
  BY AddKeepsLayout, RamAssumption DEF IInv, TypeOK, AddEndpoint
<1>2. /\ was.buffer \in [Slots -> Nat] /\ was.buffer[0] \in Nat /\ was.buffer[1] \in Nat
      /\ was.maxPacket \in Nat /\ was.single \in BOOLEAN
  BY <1>1 DEF EP_STATE, Slots
<1>3. /\ Packet \in Nat /\ First \in Nat /\ First >= epRamPtr
      /\ Second(First) \in Nat /\ Second(First) >= First + Packet
  BY AddKeepsLayout, BuffersBehind
<1>4. z \in enabled => /\ was.maxPacket = Packet /\ was.single = Added.single
                       /\ Placed(was, epRamPtr)
  <2>1. PICK j \in DOMAIN layout : Added = layout[j]
    BY AddedOfLayout DEF addEndpoint
  <2>2. QED
    BY <2>1 DEF IInv, StateOfLayout, AllPlaced, Packet
<1>5. ASSUME NEW b0 \in Nat, NEW b1 \in Nat
      PROVE  /\ Buffers(b0, b1) \in [Slots -> Nat]
             /\ Buffers(b0, b1)[0] = b0 /\ Buffers(b0, b1)[1] = b1
  BY DEF Buffers, Slots
<1>6. CASE OutOfMemory(was.buffer)
  <2> DEFINE new == [buffer |-> was.buffer, maxPacket |-> was.maxPacket, single |-> was.single]
  <2>1. new \in EP_STATE
    BY <1>2 DEF EP_STATE
  <2>2. endpointState' = [endpointState EXCEPT ![z] = new] /\ UNCHANGED <<epRamPtr, enabled>>
    BY <1>1, <1>6 DEF OutOfMemory, IInv, TypeOK
  <2>3. z \in enabled => Placed(new, epRamPtr)
    BY <1>4 DEF Placed
  <2>4. /\ enabled' \subseteq enabled \cup {z} /\ epRamPtr' \in 0..RamSize
        /\ epRamPtr' >= epRamPtr
    BY <1>1, <2>2
  <2>5. z \in enabled' => /\ new.maxPacket = Packet /\ new.single = Added.single
                          /\ Placed(new, epRamPtr')
    BY <1>4, <2>2, <2>3
  <2> HIDE DEF new
  <2>6. QED
    BY <2>1, <2>2, <2>4, <2>5, OneChanged
<1>7. CASE Fits(First) /\ Added.single /\ Commit(Buffers(First, was.buffer[1]), First + Packet)
  <2> DEFINE new == [buffer |-> Buffers(First, was.buffer[1]), maxPacket |-> Packet,
                     single |-> Added.single]
  <2>1. new \in EP_STATE
    BY <1>1, <1>2, <1>3, <1>5 DEF EP_STATE
  <2>2. /\ endpointState' = [endpointState EXCEPT ![z] = new]
        /\ enabled' = enabled \cup {z} /\ epRamPtr' = First + Packet
    BY <1>7 DEF Commit
  <2>3. First + Packet \in 0..RamSize /\ First + Packet >= epRamPtr
    BY <1>1, <1>3, <1>7 DEF Fits
  <2>4. Placed(new, First + Packet)
    <3>1. /\ new.buffer[0] = First /\ new.maxPacket = Packet /\ new.single = Added.single
          /\ First >= Reserved
      BY <1>1, <1>2, <1>3, <1>5
    <3> HIDE DEF new
    <3>2. QED
      BY <1>1, <1>3, <1>7, <2>3, <3>1 DEF Placed
  <2>5. QED
    BY <2>1, <2>2, <2>3, <2>4, OneChanged
<1>8. CASE Fits(First) /\ ~Added.single /\ OutOfMemory(Buffers(First, was.buffer[1]))
  <2> DEFINE new == [buffer |-> Buffers(First, was.buffer[1]), maxPacket |-> was.maxPacket,
                     single |-> was.single]
  <2>1. new \in EP_STATE
    BY <1>2, <1>3, <1>5 DEF EP_STATE
  <2>2. endpointState' = [endpointState EXCEPT ![z] = new] /\ UNCHANGED <<epRamPtr, enabled>>
    BY <1>1, <1>8 DEF OutOfMemory, IInv, TypeOK
  <2>3. ASSUME z \in enabled PROVE Placed(new, epRamPtr)
    <3>1. /\ new.buffer[0] = First /\ new.buffer[1] = was.buffer[1]
          /\ new.maxPacket = was.maxPacket /\ new.single = was.single
      BY <1>2, <1>3, <1>5
    <3>2. was.maxPacket = Packet /\ ~was.single /\ Placed(was, epRamPtr)
      BY <1>4, <1>8, <2>3
    <3>3. First >= Reserved /\ First + Packet <= RamSize /\ was.buffer[1] + Packet <= First
      BY <1>1, <1>2, <1>3, <1>8, <3>2 DEF Placed, Fits
    <3> HIDE DEF new, was
    <3>4. QED
      BY <3>1, <3>2, <3>3 DEF Placed
  <2>4. /\ enabled' \subseteq enabled \cup {z} /\ epRamPtr' \in 0..RamSize
        /\ epRamPtr' >= epRamPtr
    BY <1>1, <2>2
  <2>5. z \in enabled' => /\ new.maxPacket = Packet /\ new.single = Added.single
                          /\ Placed(new, epRamPtr')
    BY <1>4, <2>2, <2>3
  <2> HIDE DEF new
  <2>6. QED
    BY <2>1, <2>2, <2>4, <2>5, OneChanged
<1>9. CASE /\ Fits(First) /\ ~Added.single /\ Fits(Second(First))
           /\ Commit(Buffers(First, Second(First)), Second(First) + Packet)
  <2> DEFINE new == [buffer |-> Buffers(First, Second(First)), maxPacket |-> Packet,
                     single |-> Added.single]
  <2>1. new \in EP_STATE
    BY <1>1, <1>3, <1>5 DEF EP_STATE
  <2>2. /\ endpointState' = [endpointState EXCEPT ![z] = new]
        /\ enabled' = enabled \cup {z} /\ epRamPtr' = Second(First) + Packet
    BY <1>9 DEF Commit
  <2>3. Second(First) + Packet \in 0..RamSize /\ Second(First) + Packet >= epRamPtr
    BY <1>1, <1>3, <1>9 DEF Fits
  <2>4. Placed(new, Second(First) + Packet)
    BY <1>1, <1>3, <1>5, <1>9, <2>3 DEF Placed, Fits
  <2>5. QED
    BY <2>1, <2>2, <2>3, <2>4, OneChanged
<1>10. QED
  BY <1>6, <1>7, <1>8, <1>9 DEF addEndpoint, realiseEndpoint

LEMMA ResetPreserves == IInv /\ BusReset => IInv'
<1> SUFFICES ASSUME IInv, BusReset PROVE IInv'
  OBVIOUS
<1>1. /\ epRamPtr' = Reserved /\ enabled' = {} /\ configured' = FALSE
      /\ UNCHANGED <<layout, endpointState, adding>>
  BY DEF BusReset, NoneTaken
<1>2. epRamPtr' \in 0..RamSize /\ epRamPtr' >= Reserved /\ enabled' \subseteq Endpoint
  BY <1>1, RamAssumption
<1>3. TypeOK'
  BY <1>1, <1>2 DEF IInv, TypeOK
<1>4. AddingOfLayout' /\ StateOfLayout' /\ AllPlaced'
  BY <1>1 DEF IInv, AddingOfLayout, StateOfLayout, AllPlaced
<1>5. QED
  BY <1>2, <1>3, <1>4 DEF IInv

LEMMA ConfigurationPreserves == IInv /\ SetConfiguration => IInv'
<1> SUFFICES ASSUME IInv, SetConfiguration PROVE IInv'
  OBVIOUS
<1>1. /\ adding' = layout /\ configured' = FALSE
      /\ UNCHANGED <<layout, epRamPtr, endpointState, enabled>>
  BY DEF SetConfiguration
<1>2. TypeOK'
  BY <1>1, RamAssumption DEF IInv, TypeOK
<1>3. AddingOfLayout' /\ StateOfLayout' /\ AllPlaced' /\ epRamPtr' >= Reserved
  BY <1>1 DEF IInv, AddingOfLayout, StateOfLayout, AllPlaced
<1>4. QED
  BY <1>2, <1>3 DEF IInv

LEMMA StutterPreserves == IInv /\ UNCHANGED vars => IInv'
BY DEF vars, IInv, TypeOK, AddingOfLayout, StateOfLayout, AllPlaced

LEMMA Inductive == Spec => []IInv
<1>1. IInv /\ [Next]_vars => IInv'
  BY AddPreserves, ResetPreserves, ConfigurationPreserves, StutterPreserves DEF Next
<1>2. QED
  BY InitEstablishes, <1>1, PTL DEF Spec

-----------------------------------------------------------------------------
(* All endpoints of the class are enabled.                                 *)

\* How the class comes to be enabled.  After a bus reset the RAM is free, and
\* each endpoint takes no more than its share; what was enabled stays enabled.
AllOfLayout == \A i \in DOMAIN layout : layout[i].ep \in enabled
Done == Len(layout) - Len(adding)
Share(m) == 2 * (m + Align)

Fresh == adding = <<>> /\ ~configured /\ epRamPtr = Reserved
Filling ==
    /\ adding # <<>> /\ ~configured /\ Done \in Nat
    /\ \A i \in DOMAIN adding : adding[i] = layout[Done + i]
    /\ \A i \in 1..Done : layout[i].ep \in enabled
    /\ \A m \in 0..RamSize : PacketsFit(layout, m) => epRamPtr <= Reserved + Done * Share(m)

Complete == AllOfLayout \/ Fresh \/ Filling

LEMMA RoundUpLimit ==
    ASSUME NEW x \in Nat
    PROVE  ROUND_UP_TO_MULTIPLE(x, Align) <= x + (Align - 1)
<1> DEFINE a == x + (Align - 1)
           q == a \div Align
<1>1. a \in Nat /\ Align \in Nat /\ Align > 0
  BY RamAssumption
<1>2. q \in Int /\ a % Align \in 0..(Align - 1) /\ a = Align * q + (a % Align)
  BY <1>1
<1>3. q * Align = a - (a % Align)
  BY <1>1, <1>2
<1>4. QED
  BY <1>1, <1>2, <1>3 DEF ROUND_UP_TO_MULTIPLE

LEMMA ShareTaken ==
    ASSUME NEW m \in Nat, NEW k \in Nat, NEW n \in Nat, k < n
    PROVE  (k + 1) * Share(m) = k * Share(m) + Share(m) /\ (k + 1) * Share(m) <= n * Share(m)
<1>1. Share(m) \in Nat
  BY RamAssumption DEF Share
<1> HIDE DEF Share
<1>2. QED
  BY <1>1

\* While an endpoint takes no more than its share, realiseEndpoint succeeds.
LEMMA ShareSuffices ==
    ASSUME IInv, Filling, Added \in AddEndpoint,
           NEW m \in 0..RamSize, PacketsFit(layout, m)
    PROVE  /\ Fits(First) /\ Fits(Second(First))
           /\ Second(First) + Packet <= epRamPtr + Share(m)
           /\ First + Packet <= epRamPtr + Share(m)
           /\ epRamPtr + Share(m) <= Reserved + (Done + 1) * Share(m)
<1>1. /\ epRamPtr \in Nat /\ Reserved \in Nat /\ Align \in Nat \ {0} /\ RamSize \in Nat
      /\ m \in Nat /\ Len(adding) \in Nat \ {0} /\ adding \in Seq(AddEndpoint)
      /\ layout \in Seq(AddEndpoint) /\ Len(layout) \in Nat
  BY RamAssumption DEF IInv, TypeOK, Filling
<1>2. Done \in Nat /\ Done < Len(layout) /\ Done + 1 \in DOMAIN layout
  BY <1>1 DEF Filling, Done
<1>3. Added = layout[Done + 1]
  BY <1>1 DEF Filling, Added
<1>4. Packet \in Nat /\ Packet <= m
  BY <1>2, <1>3 DEF PacketsFit, Packet, AddEndpoint
<1>5. /\ epRamPtr <= Reserved + Done * Share(m)
      /\ Reserved + Len(layout) * Share(m) <= RamSize
  BY DEF Filling, PacketsFit, Share
<1>6. First \in Nat /\ First <= epRamPtr + (Align - 1)
  BY <1>1, RoundUpLimit, RoundUpBound DEF First
<1>7. First + Packet \in Nat
  BY <1>4, <1>6
<1>8. Second(First) \in Nat /\ Second(First) <= First + Packet + (Align - 1)
  BY <1>7, RoundUpLimit, RoundUpBound DEF Second
<1>9. Share(m) = 2 * (m + Align) /\ Share(m) \in Nat
  BY <1>1 DEF Share
<1>10. /\ Second(First) + Packet <= epRamPtr + Share(m)
       /\ First + Packet <= epRamPtr + Share(m)
  BY <1>1, <1>4, <1>6, <1>8, <1>9
<1>11. /\ (Done + 1) * Share(m) = Done * Share(m) + Share(m)
       /\ (Done + 1) * Share(m) <= Len(layout) * Share(m)
  BY <1>1, <1>2, ShareTaken
<1>12. /\ Done * Share(m) \in Nat /\ (Done + 1) * Share(m) \in Nat
       /\ Len(layout) * Share(m) \in Nat
  BY <1>1, <1>2, <1>9
<1>13. epRamPtr + Share(m) <= Reserved + (Done + 1) * Share(m)
  BY <1>1, <1>5, <1>9, <1>11, <1>12
<1>14. epRamPtr + Share(m) <= RamSize
  BY <1>1, <1>5, <1>9, <1>11, <1>12, <1>13
<1>15. QED
  BY <1>1, <1>4, <1>6, <1>8, <1>9, <1>10, <1>13, <1>14 DEF Fits

LEMMA AddCompletes == IInv /\ Complete /\ addEndpoint => Complete'
<1> SUFFICES ASSUME IInv, Complete, addEndpoint PROVE Complete'
  OBVIOUS
<1>1. /\ adding # <<>> /\ adding' = Tail(adding) /\ configured' = (adding' = <<>>)
      /\ layout' = layout /\ realiseEndpoint /\ Added \in AddEndpoint
  BY AddKeepsLayout DEF addEndpoint
<1>2. enabled \subseteq enabled'
  BY <1>1 DEF realiseEndpoint, OutOfMemory, Commit
<1>3. CASE AllOfLayout
  BY <1>1, <1>2, <1>3 DEF Complete, AllOfLayout
<1>4. CASE Filling
  <2>1. PICK m \in 0..RamSize : PacketsFit(layout, m)
    BY RoomAssumption DEF IInv, TypeOK
  <2>2. Fits(First) /\ Fits(Second(First))
    BY <1>1, <1>4, <2>1, ShareSuffices
  <2>3. /\ enabled' = enabled \cup {Added.ep}
        /\ epRamPtr' = First + Packet \/ epRamPtr' = Second(First) + Packet
    BY <1>1, <2>2 DEF realiseEndpoint, Commit
  <2>4. /\ adding \in Seq(AddEndpoint) /\ Len(adding) \in Nat \ {0}
        /\ layout \in Seq(AddEndpoint) /\ Len(layout) \in Nat /\ Done \in Nat
    BY <1>1, <1>4, RamAssumption DEF IInv, TypeOK, Filling
  <2>5. /\ adding' \in Seq(AddEndpoint)
        /\ Len(adding') = Len(adding) - 1 /\ Done' = Done + 1
        /\ \A i \in DOMAIN adding' : adding'[i] = adding[i + 1] /\ i + 1 \in DOMAIN adding
    BY <1>1, <2>4 DEF Done
  <2>6. Added = layout[Done + 1]
    BY <1>4, <2>4 DEF Filling, Added
  <2>7. \A i \in 1..Done' : layout'[i].ep \in enabled'
    <3>1. SUFFICES ASSUME NEW i \in 1..(Done + 1) PROVE layout[i].ep \in enabled'
      BY <1>1, <2>5, Zenon
    <3>2. CASE i = Done + 1
      BY <2>3, <2>6, <3>2
    <3>3. CASE i # Done + 1
      <4>1. i \in 1..Done
        BY <2>4, <3>3
      <4>2. QED
        BY <1>2, <1>4, <4>1 DEF Filling
    <3>4. QED
      BY <3>2, <3>3
  <2>8. CASE adding' = <<>>
    <3>1. Done' = Len(layout)
      <4>1. Len(adding') = 0 /\ Len(adding) \in Nat /\ Len(layout) \in Nat
        BY <2>4, <2>8
      <4>2. Len(adding') = Len(adding) - 1 /\ Done' = Done + 1
        BY <2>5
      <4>3. Len(adding) = 1
        BY <4>1, <4>2
      <4>4. QED
        BY <4>1, <4>2, <4>3 DEF Done
    <3>2. DOMAIN layout = 1..Len(layout)
      BY <2>4
    <3>3. QED
      BY <1>1, <2>7, <3>1, <3>2 DEF Complete, AllOfLayout
  <2>9. CASE adding' # <<>>
    <3>1. \A i \in DOMAIN adding' : adding'[i] = layout'[Done' + i]
      <4>1. \A i \in DOMAIN adding' : i \in Nat /\ Done' + i = Done + (i + 1)
        <5>1. DOMAIN adding' = 1..Len(adding') /\ Len(adding') \in Nat
          BY <2>5
        <5>2. Done' = Done + 1 /\ Done \in Nat
          BY <2>4, <2>5
        <5>3. QED
          BY <5>1, <5>2
      <4>2. QED
        BY <1>1, <1>4, <2>5, <4>1 DEF Filling
    <3>2. ASSUME NEW k \in 0..RamSize, PacketsFit(layout', k)
          PROVE  epRamPtr' <= Reserved + Done' * Share(k)
      <4>1. PacketsFit(layout, k) /\ k \in Nat
        BY <1>1, <3>2, RamAssumption
      <4>2. /\ Second(First) + Packet <= epRamPtr + Share(k)
            /\ First + Packet <= epRamPtr + Share(k)
            /\ epRamPtr + Share(k) <= Reserved + (Done + 1) * Share(k)
        BY <1>1, <1>4, <4>1, ShareSuffices
      <4>3. /\ First + Packet \in Nat /\ Second(First) + Packet \in Nat /\ epRamPtr \in Nat
            /\ Share(k) \in Nat /\ (Done + 1) * Share(k) \in Nat /\ Reserved \in Nat
        <5>1. Share(k) \in Nat
          BY <4>1, RamAssumption DEF Share
        <5>2. Packet \in Nat /\ First \in Nat /\ Second(First) \in Nat
          BY <1>1, BuffersBehind
        <5>3. epRamPtr \in Nat /\ Reserved \in Nat
          BY RamAssumption DEF IInv, TypeOK
        <5>4. QED
          BY <2>4, <5>1, <5>2, <5>3
      <4>4. QED
        BY <2>3, <2>5, <4>2, <4>3
    <3>3. ~configured'
      BY <1>1, <2>9, Zenon
    <3>4. Done' \in Nat
      BY <2>4, <2>5
    <3>5. QED
      BY <2>7, <2>9, <3>1, <3>2, <3>3, <3>4 DEF Complete, Filling
  <2>10. QED
    BY <2>8, <2>9
<1>5. QED
  BY <1>1, <1>3, <1>4 DEF Complete, Fresh

LEMMA StepCompletes == IInv /\ Complete /\ [Next]_vars => Complete'
<1> SUFFICES ASSUME IInv, Complete, [Next]_vars PROVE Complete'
  OBVIOUS
<1>1. CASE addEndpoint
  BY <1>1, AddCompletes
<1>2. CASE BusReset
  BY <1>2 DEF BusReset, NoneTaken, Complete, Fresh
<1>3. CASE SetConfiguration
  <2>1. /\ adding' = layout /\ layout # <<>> /\ configured' = FALSE /\ adding = <<>>
        /\ UNCHANGED <<layout, epRamPtr, enabled>>
    BY <1>3 DEF SetConfiguration
  <2>2. CASE AllOfLayout
    BY <2>1, <2>2 DEF Complete, AllOfLayout
  <2>3. CASE Fresh
    <3>1. layout \in Seq(AddEndpoint) /\ Len(layout) \in Nat
      BY RamAssumption DEF IInv, TypeOK
    <3>2. Done' = 0 /\ epRamPtr' = Reserved
      BY <2>1, <2>3, <3>1 DEF Done, Fresh
    <3>3. \A m \in 0..RamSize : epRamPtr' <= Reserved + Done' * Share(m)
      <4>1. \A m \in 0..RamSize : Share(m) \in Nat
        BY RamAssumption DEF Share
      <4>2. QED
        BY <3>2, <4>1, RamAssumption
    <3>4. \A i \in DOMAIN adding' : adding'[i] = layout'[Done' + i]
      BY <2>1, <3>1, <3>2
    <3>5. Filling'
      BY <2>1, <3>2, <3>3, <3>4 DEF Filling
    <3>6. QED
      BY <3>5 DEF Complete
  <2>4. QED
    BY <2>1, <2>2, <2>3 DEF Complete, Filling
<1>4. CASE UNCHANGED vars
  BY <1>4 DEF vars, Complete, AllOfLayout, Fresh, Filling, Done
<1>5. QED
  BY <1>1, <1>2, <1>3, <1>4 DEF Next

-----------------------------------------------------------------------------
(* The theorems.                                                           *)

\* The pointer stays in the USB RAM and every endpoint has a state, whatever
\* realiseEndpoint could not place.
THEOREM TypeCorrect == Spec => []TypeOK
<1>1. IInv => TypeOK
  BY DEF IInv
<1>2. QED
  BY Inductive, <1>1, PTL

\* However often a host selects the configuration, no enabled endpoint has a
\* buffer outside the RAM behind what the constructor of USBHAL reserved.
THEOREM RamSafe == Spec => []BuffersInRam
<1>1. IInv => BuffersInRam
  BY PlacedIsSafe DEF IInv
<1>2. QED
  BY Inductive, <1>1, PTL

\* The two buffers of an endpoint never overlap, also when the RAM runs out
\* between them: realiseEndpoint stores the first one before it checks the
\* second.
THEOREM NeverOverlap == Spec => []BuffersApart
<1>1. IInv => BuffersApart
  BY PlacedIsSafe DEF IInv
<1>2. QED
  BY Inductive, <1>1, PTL

\* A configured device has all endpoints of its class, although nobody looks at
\* what realiseEndpoint returns: when the RAM has run out, because the host
\* selected the configuration again and again, they are enabled already.
THEOREM ClassEnabled == Spec => []AllEnabled
<1>1. Init => Complete
  BY DEF Init, Complete, Fresh
<1>2. Complete => AllEnabled
  BY DEF Complete, AllEnabled, AllOfLayout, Fresh, Filling
<1>3. QED
  BY Inductive, StepCompletes, <1>1, <1>2, PTL DEF Spec
=============================================================================
