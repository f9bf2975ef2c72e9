------------------------- MODULE SerialInput_proofs -------------------------
(***************************************************************************)
(* Theorems about the serial input, for every size of the buffer, length   *)
(* of a packet, timeout and set of bytes: main drains the buffer a         *)
(* statement at a time while the interrupt writes to it, and never leaves  *)
(* the pool.                                                               *)
(***************************************************************************)
EXTENDS SerialInput, TLAPS, SequenceTheorems

-----------------------------------------------------------------------------
(* The inductive invariant.                                                *)

\* What main has loaded or computed is what the bytes that arrive meanwhile
\* leave good: they only add to the count, and no handler takes from the buffer
\* while main is at it.
Labels == {"check", "take", "taken", "initFull", "initCount", "initRead",
           "initWrite", "clear", "clearing", "parse"} \cup Draining

Popping == {"find", "subtract", "read", "zero", "temp", "load", "store"}

PopOK ==
    /\ pc \in Popping => uartbuf.count >= 1
    /\ pc \in {"find", "subtract", "store"} => reg \in 1..Size
    /\ pc \in {"zero", "temp"} => reg \in Byte
    /\ pc \in {"read", "zero"} => ptemp \in Slot
    /\ pc = "clearing" => ptemp \in 0..Size

Host == [state : {"ready", "sending", "silent"}, packet : Packets \cup {<<>>},
         sent : 0..Packet, streams : BOOLEAN]

HostOK == host \in Host /\ (host.state = "sending" => host.packet \in Packets)

Report == {r \in Seq(Byte) : Len(r) <= Packet}

IInv ==
    /\ uartbuf \in Xifo /\ ready \in 0..(ReadyWord - 1) /\ age \in 0..MaxAge
    /\ ptemp \in -Size..Size /\ temp \in Byte
    /\ pc \in Labels /\ reg \in Nat /\ base \in Slot
    /\ report \in Report /\ parsed \in Report /\ stored \in 0..(Room + 1)
    /\ Len(report) = (IF stored < Packet THEN stored ELSE Packet)
    /\ PopOK /\ HostOK

-----------------------------------------------------------------------------
(* The buffer: each store main and the interrupt make keeps its pointers   *)
(* in the pool.                                                            *)

LEMMA LinkSizes ==
    /\ Packet \in Nat \ {0} /\ Size \in Nat \ {0} /\ Packet <= Size
    /\ ReadyWord \in Nat \ {0} /\ MaxReady \in 0..(ReadyWord - 1)
    /\ Timeout \in Nat /\ MaxAge = Timeout + 2 /\ Room \in Nat /\ Packet <= Room
BY SerialAssumption, XIFOAssumption DEF MaxAge

LEMMA ClearedIsXifo == Cleared \in Xifo
BY XIFOAssumption DEF Cleared, Xifo, Slot

LEMMA WriteIsXifo ==
    ASSUME NEW q \in Xifo, NEW v \in Byte
    PROVE  xifo_write(q, v) \in Xifo /\ xifo_write(q, v).count >= 1
<1>1. Size \in Nat \ {0}
  BY XIFOAssumption
<1>2. q.write \in Slot /\ q.count \in 0..Size /\ q.pool \in [Slot -> Byte] /\ q.full \in {0, 1}
  BY DEF Xifo, Byte
<1>3. [q.pool EXCEPT ![q.write] = v] \in [Slot -> Byte]
  BY <1>2
<1>4. NextSlot(q.write) \in Slot
  BY <1>1, <1>2 DEF NextSlot, Slot
<1>5. FullAfterWrite(q) \in {0, 1}
  BY <1>2 DEF FullAfterWrite
<1> QED
  BY <1>1, <1>2, <1>3, <1>4, <1>5 DEF xifo_write, Xifo, Byte

LEMMA WrittenIsXifo ==
    ASSUME NEW q \in Xifo, NEW s \in Seq(Byte), Len(s) \in {1, 2}
    PROVE  Written(q, s) \in Xifo /\ Written(q, s).count >= 1
<1>1. s[1] \in Byte /\ (Len(s) # 1 => s[2] \in Byte)
  BY ElementOfSeq
<1> QED
  BY <1>1, WriteIsXifo DEF Written

LEMMA SlotZeroed ==
    ASSUME NEW q \in Xifo, NEW s \in Slot
    PROVE  /\ [q EXCEPT !.pool[s] = 0] \in Xifo
           /\ [q EXCEPT !.pool[s] = 0].count = q.count
BY DEF Xifo

LEMMA CountStored ==
    ASSUME NEW q \in Xifo, NEW n \in 0..Size
    PROVE  [q EXCEPT !.count = n] \in Xifo /\ [q EXCEPT !.count = n].count = n
BY DEF Xifo

LEMMA FlagStored ==
    ASSUME NEW q \in Xifo
    PROVE  [q EXCEPT !.full = 0] \in Xifo /\ [q EXCEPT !.full = 0].count = q.count
BY DEF Xifo

LEMMA PointersStored ==
    ASSUME NEW q \in Xifo
    PROVE  /\ [q EXCEPT !.read = 0] \in Xifo /\ [q EXCEPT !.read = 0].count = q.count
           /\ [q EXCEPT !.write = 0] \in Xifo /\ [q EXCEPT !.write = 0].count = q.count
BY XIFOAssumption DEF Xifo, Slot

\* The slot of the oldest element, also when the count is not the one that the
\* read pointer belongs to.
LEMMA OldestInPool ==
    ASSUME NEW r \in Slot, NEW n \in 1..Size
    PROVE  OldestOf(r, n) \in Slot
BY XIFOAssumption DEF OldestOf, Wrapped, Slot

LEMMA ReadyInWord ==
    ASSUME NEW n \in Nat
    PROVE  n % ReadyWord \in 0..(ReadyWord - 1)
BY LinkSizes

\* Decrementing a count that is not 0 does not wrap.
LEMMA Decremented ==
    ASSUME NEW n \in 1..Size
    PROVE  (n + CountWord - 1) % CountWord = n - 1
<1>1. /\ CountWord \in Nat /\ CountWord > Size /\ Size \in Nat
      /\ n - 1 \in 0..(CountWord - 1) /\ n + CountWord - 1 \in Nat
  BY SerialAssumption, XIFOAssumption
<1> QED
  BY <1>1

LEMMA StoredIsReport ==
    ASSUME IInv, NEW b \in Byte, Stored(b)
    PROVE  /\ report' \in Report /\ stored' \in 0..(Room + 1)
           /\ Len(report') = (IF stored' < Packet THEN stored' ELSE Packet)
<1>1. /\ report \in Seq(Byte) /\ Len(report) <= Packet /\ stored \in 0..(Room + 1)
      /\ Len(report) = (IF stored < Packet THEN stored ELSE Packet)
      /\ Packet \in Nat /\ Room \in Nat /\ Packet <= Room
  BY SerialAssumption, XIFOAssumption DEF IInv, Report
<1>2. CASE stored < Packet
  <2>1. report' = Append(report, b) /\ stored' = stored + 1 /\ Len(report) = stored
    BY <1>1, <1>2 DEF Stored
  <2>2. Append(report, b) \in Seq(Byte) /\ Len(Append(report, b)) = stored + 1
    BY <1>1, <2>1
  <2> QED
    BY <1>1, <1>2, <2>1, <2>2 DEF Report
<1>3. CASE ~(stored < Packet)
  <2>1. report' = report /\ stored' \in 0..(Room + 1) /\ ~(stored' < Packet)
    BY <1>1, <1>3 DEF Stored
  <2> QED
    BY <1>1, <1>3, <2>1 DEF Report
<1> QED
  BY <1>2, <1>3

-----------------------------------------------------------------------------
(* The steps.                                                              *)

LEMMA InitEstablishes == Init => IInv
<1> SUFFICES ASSUME Init PROVE IInv
  OBVIOUS
<1>1. <<>> \in Report
  BY SerialAssumption, XIFOAssumption DEF Report
<1>2. 0 \in 0..Packet /\ 0 \in 0..(ReadyWord - 1) /\ 0 \in 0..MaxAge
  BY SerialAssumption, XIFOAssumption DEF MaxAge
<1>3. Size \in -Size..Size /\ 0 \in Slot /\ 0 \in 0..(Room + 1) /\ 0 < Packet /\ Len(<<>>) = 0
  BY XIFOAssumption, SerialAssumption DEF Slot
<1> QED
  BY <1>1, <1>2, <1>3, ClearedIsXifo
  DEF Init, IInv, PopOK, Popping, HostOK, Host, Labels, Byte

LEMMA HostStep == IInv /\ (NextPacket \/ Abandon \/ Restart) => IInv'
<1> SUFFICES ASSUME IInv, NextPacket \/ Abandon \/ Restart PROVE IInv'
  OBVIOUS
<1>1. UNCHANGED <<uartbuf, ready, age, ptemp, temp, pc, reg, base, report, stored, parsed>>
  BY DEF NextPacket, Abandon, Restart, mainVars
<1>2. 0 \in 0..Packet
  BY SerialAssumption, XIFOAssumption
<1>3. HostOK'
  <2>1. CASE NextPacket
    <3>1. PICK p \in Packets : host' = [host EXCEPT !.state = "sending", !.packet = p, !.sent = 0]
      BY <2>1, SerialAssumption DEF NextPacket
    <3> QED
      BY <1>2, <3>1 DEF IInv, HostOK, Host
  <2>2. CASE Abandon \/ Restart
    BY <2>2 DEF Abandon, Restart, IInv, HostOK, Host
  <2> QED
    BY <2>1, <2>2
<1> QED
  BY <1>1, <1>3 DEF IInv, PopOK

\* The bytes the handler takes are bytes of the packet.
LEMMA BytesOfPacket ==
    ASSUME HostOK, host.state = "sending", NEW n \in 1..2, host.sent + n <= Packet
    PROVE  LET s == SubSeq(host.packet, host.sent + 1, host.sent + n) IN
           s \in Seq(Byte) /\ Len(s) = n
<1>1. host.packet \in Packets /\ host.sent \in 0..Packet /\ Packet \in Nat
  BY SerialAssumption, XIFOAssumption DEF HostOK, Host
<1>2. \A i \in (host.sent + 1)..(host.sent + n) : host.packet[i] \in Byte
  BY <1>1 DEF Packets, Byte
<1>3. host.sent + 1 \in Int /\ host.sent + n \in Int /\ host.sent + 1 <= host.sent + n
  BY <1>1
<1> QED
  BY <1>1, <1>2, <1>3, SubSeqProperties

LEMMA ReceiveStep == IInv /\ Receive => IInv'
<1> SUFFICES ASSUME IInv, Receive PROVE IInv'
  OBVIOUS
<1>1. PICK n \in 1..2 :
         /\ host.state = "sending" /\ host.sent + n <= Packet
         /\ serialHandler(SubSeq(host.packet, host.sent + 1, host.sent + n))
         /\ host' = [host EXCEPT !.sent = @ + n]
  BY DEF Receive
<1>2. uartbuf' \in Xifo /\ uartbuf'.count >= 1
  <2>1. /\ SubSeq(host.packet, host.sent + 1, host.sent + n) \in Seq(Byte)
        /\ Len(SubSeq(host.packet, host.sent + 1, host.sent + n)) \in {1, 2}
    BY <1>1, BytesOfPacket DEF IInv
  <2> QED
    BY <1>1, <2>1, WrittenIsXifo DEF serialHandler, IInv
<1>3. ready' \in 0..(ReadyWord - 1) /\ age' \in 0..MaxAge
  <2>1. ready + 1 \in Nat /\ 0 \in 0..MaxAge
    BY LinkSizes DEF IInv
  <2> QED
    BY <1>1, <2>1, ReadyInWord DEF serialHandler, IInv
<1>4. HostOK'
  <2>1. host.sent + n \in 0..Packet /\ host \in Host /\ host.packet \in Packets
    BY <1>1, LinkSizes DEF IInv, HostOK, Host
  <2>2. host' \in Host /\ host'.packet = host.packet
    BY <1>1, <2>1 DEF Host
  <2> QED
    BY <2>1, <2>2 DEF HostOK
<1>5. UNCHANGED <<ptemp, temp, pc, reg, base, report, stored, parsed>>
  BY DEF Receive, mainVars
<1> QED
  BY <1>2, <1>3, <1>4, <1>5 DEF IInv, PopOK

\* The ticker clears the buffer only while main is not draining it.
LEMMA AgingStep == IInv /\ serialBufferAgingHandler => IInv'
<1> SUFFICES ASSUME IInv, serialBufferAgingHandler PROVE IInv'
  OBVIOUS
<1>1. age' \in 0..MaxAge /\ UNCHANGED <<pc, reg, base, report, stored, parsed, host>>
  BY SerialAssumption DEF serialBufferAgingHandler, IInv, MaxAge, mainVars
<1>2. CASE Aged(age)
  <2>1. /\ pc \in {"check", "parse"} /\ uartbuf' = Cleared /\ ready' = 0 /\ ptemp' = Size
        /\ temp' \in Byte
    BY <1>2 DEF serialBufferAgingHandler, Byte
  <2>2. Size \in -Size..Size /\ 0 \in 0..(ReadyWord - 1)
    BY XIFOAssumption, SerialAssumption
  <2> QED
    BY <1>1, <2>1, <2>2, ClearedIsXifo DEF IInv, PopOK, HostOK, Popping
<1>3. CASE ~Aged(age)
  BY <1>1, <1>3 DEF serialBufferAgingHandler, IInv, PopOK, HostOK
<1> QED
  BY <1>2, <1>3

\* The statements of main outside xifo_pop_lr and xifo_init.
LEMMA LoopStep == IInv /\ (Check \/ Take \/ Taken \/ Drain \/ Parse) => IInv'
<1> SUFFICES ASSUME IInv, Check \/ Take \/ Taken \/ Drain \/ Parse PROVE IInv'
  OBVIOUS
<1>1. /\ UNCHANGED <<uartbuf, age, ptemp, temp, base>>
      /\ pc' \in Labels \ (Popping \cup {"clearing"})
  BY DEF Check, Take, Taken, Drain, Parse, Go, Elsewhere, Reported, Labels, Draining, Popping
<1>2. ready' \in 0..(ReadyWord - 1) /\ reg' \in Nat
  <2>1. CASE Taken
    <3>1. reg + ReadyWord - 1 \in Nat
      BY LinkSizes DEF IInv
    <3> QED
      BY <2>1, <3>1, ReadyInWord DEF Taken
  <2>2. CASE ~Taken
    <3>1. ready \in 0..(ReadyWord - 1) /\ ready \in Nat /\ reg \in Nat
      BY LinkSizes DEF IInv
    <3> QED
      BY <2>2, <3>1 DEF Check, Take, Drain, Parse
  <2> QED
    BY <2>1, <2>2
<1>3. /\ report' \in Report /\ parsed' \in Report /\ stored' \in 0..(Room + 1)
      /\ Len(report') = (IF stored' < Packet THEN stored' ELSE Packet)
  <2>1. <<>> \in Report /\ Len(<<>>) = 0 /\ 0 < Packet /\ 0 \in 0..(Room + 1)
    BY SerialAssumption, XIFOAssumption DEF Report
  <2> QED
    BY <2>1 DEF Check, Take, Taken, Drain, Parse, Reported, IInv
<1>4. HostOK'
  BY DEF Check, Take, Taken, Drain, Parse, Elsewhere, IInv, HostOK, Host
<1> QED
  BY <1>1, <1>2, <1>3, <1>4 DEF IInv, PopOK, Popping

\* xifo_pop_lr.
LEMMA PopStep ==
    IInv /\ (PopTest \/ PopBase \/ PopCount \/ PopFind \/ PopRead \/ PopZero \/ PopTemp \/ PopLoad \/ PopStore
             \/ PopFlag \/ PopReturn) => IInv'
<1> SUFFICES ASSUME IInv,
                    PopTest \/ PopBase \/ PopCount \/ PopFind \/ PopRead \/ PopZero \/ PopTemp \/ PopLoad
                    \/ PopStore \/ PopFlag \/ PopReturn
             PROVE  IInv'
  OBVIOUS
<1> USE DEF Go, Elsewhere, Reported, IInv, PopOK, HostOK, Popping, Labels, Draining
<1>1. uartbuf.count \in 0..Size /\ Size \in Nat \ {0} /\ 0 \in Byte /\ Byte \subseteq Nat
      /\ uartbuf.pool \in [Slot -> Byte]
  BY XIFOAssumption DEF Xifo, Byte
<1>2. CASE PopTest
  <2>1. CASE uartbuf.count = 0
    <3>1. /\ report' \in Report /\ stored' \in 0..(Room + 1)
          /\ Len(report') = (IF stored' < Packet THEN stored' ELSE Packet)
      <4>1. Stored(0)
        BY <1>2, <2>1 DEF PopTest
      <4> QED
        BY <1>1, <4>1, StoredIsReport
    <3> QED
      BY <1>1, <1>2, <2>1, <3>1 DEF PopTest
  <2>2. CASE uartbuf.count # 0
    BY <1>1, <1>2, <2>2 DEF PopTest
  <2> QED
    BY <2>1, <2>2
<1>11. CASE PopBase
  BY <1>1, <1>11 DEF PopBase, Xifo
<1>12. CASE PopCount
  BY <1>1, <1>12 DEF PopCount
<1>3. CASE PopFind
  <2>1. ptemp' \in Slot
    BY <1>1, <1>3, OldestInPool DEF PopFind
  <2>2. ptemp' \in -Size..Size /\ 0 \in Slot
    BY <1>1, <2>1 DEF Slot
  <2> QED
    BY <1>3, <2>1, <2>2 DEF PopFind
<1>4. CASE PopRead
  BY <1>1, <1>4 DEF PopRead
<1>5. CASE PopZero
  <2>1. uartbuf' \in Xifo /\ uartbuf'.count = uartbuf.count
    BY <1>5, SlotZeroed DEF PopZero
  <2> QED
    BY <1>5, <2>1 DEF PopZero
<1>6. CASE PopTemp
  BY <1>6 DEF PopTemp
<1>7. CASE PopLoad
  BY <1>1, <1>7 DEF PopLoad
<1>8. CASE PopStore
  <2>1. (reg + CountWord - 1) % CountWord \in 0..Size
    <3>1. reg \in 1..Size
      BY <1>8 DEF PopStore
    <3> QED
      BY <1>1, <3>1, Decremented
  <2>2. uartbuf' \in Xifo
    BY <1>8, <2>1, CountStored DEF PopStore
  <2> QED
    BY <1>8, <2>2 DEF PopStore
<1>9. CASE PopFlag
  <2>1. uartbuf' \in Xifo
    BY <1>9, FlagStored DEF PopFlag
  <2> QED
    BY <1>9, <2>1 DEF PopFlag
<1>10. CASE PopReturn
  <2>1. /\ report' \in Report /\ stored' \in 0..(Room + 1)
        /\ Len(report') = (IF stored' < Packet THEN stored' ELSE Packet)
    <3>1. Stored(temp)
      BY <1>10 DEF PopReturn
    <3> QED
      BY <3>1, StoredIsReport
  <2> QED
    BY <1>10, <2>1 DEF PopReturn
<1> QED
  BY <1>2, <1>3, <1>4, <1>5, <1>6, <1>7, <1>8, <1>9, <1>10, <1>11, <1>12

\* xifo_init and xifo_clear.
LEMMA InitStep == IInv /\ (InitBuffer \/ ClearStart \/ ClearSlot \/ ClearEnd) => IInv'
<1> SUFFICES ASSUME IInv, InitBuffer \/ ClearStart \/ ClearSlot \/ ClearEnd PROVE IInv'
  OBVIOUS
<1> USE DEF Go, Elsewhere, Reported, IInv, PopOK, HostOK, Popping, Labels, Draining
<1>1. CASE InitBuffer
  <2>1. 0 \in 0..Size
    BY XIFOAssumption
  <2>2. uartbuf' \in Xifo
    BY <1>1, <2>1, FlagStored, CountStored, PointersStored DEF InitBuffer, InitStore
  <2>3. /\ pc' \in {"initCount", "initRead", "initWrite", "clear"}
        /\ UNCHANGED <<ready, age, ptemp, temp, reg, base, report, stored, parsed, host>>
    BY <1>1 DEF InitBuffer, InitStore
  <2> QED
    BY <2>2, <2>3
<1>2. CASE ClearStart
  <2>1. 0 \in 0..Size /\ 0 \in -Size..Size
    BY XIFOAssumption
  <2> QED
    BY <1>2, <2>1 DEF ClearStart
<1>3. CASE ClearSlot
  <2>1. ptemp \in Slot /\ ptemp + 1 \in 0..Size /\ ptemp + 1 \in -Size..Size
    BY <1>3, XIFOAssumption DEF ClearSlot, ClearedAll, Slot
  <2>2. uartbuf' \in Xifo
    BY <1>3, <2>1, SlotZeroed DEF ClearSlot
  <2> QED
    BY <1>3, <2>1, <2>2 DEF ClearSlot
<1>4. CASE ClearEnd
  BY <1>4 DEF ClearEnd
<1> QED
  BY <1>1, <1>2, <1>3, <1>4

LEMMA StepPreserves == IInv /\ [Next]_vars => IInv'
<1> SUFFICES ASSUME IInv, [Next]_vars PROVE IInv'
  OBVIOUS
<1>1. CASE UNCHANGED vars
  BY <1>1 DEF vars, IInv, PopOK, HostOK
<1> QED
  BY <1>1, HostStep, ReceiveStep, AgingStep, LoopStep, PopStep, InitStep DEF Next, Main

LEMMA Inductive == Spec => []IInv
BY InitEstablishes, StepPreserves, PTL DEF Spec

-----------------------------------------------------------------------------
(* The theorems.                                                           *)

\* The statics of src/main.cpp, what main has loaded and the report it fills
\* keep their ranges, whatever bytes arrive between any two statements.
THEOREM TypeCorrect == Spec => []TypeOK
<1>1. IInv => TypeOK
  <2> SUFFICES ASSUME IInv PROVE TypeOK
    OBVIOUS
  <2>1. [uartbuf EXCEPT !.count = 0] \in Xifo
    BY CountStored, XIFOAssumption DEF IInv
  <2>2. uartbuf.count \in 0..(CountWord - 1)
    BY SerialAssumption, XIFOAssumption DEF IInv, Xifo
  <2>3. host.state \in {"ready", "sending", "silent"} /\ host.sent \in 0..Packet
    BY DEF IInv, HostOK, Host
  <2> QED
    BY <2>1, <2>2, <2>3 DEF IInv, TypeOK, Labels, Report
<1> QED
  BY <1>1, Inductive, PTL

\* A buffer that holds a packet is drained, although serialPacketReady-- is a
\* load and a store with bytes in between; the host holds back before the count
\* of ready packets wraps.
THEOREM NotForgotten == Spec => []PacketNotForgotten
<1>1. Init => PacketNotForgotten
  BY SerialAssumption, XIFOAssumption DEF Init, Cleared, PacketNotForgotten
<1>2. IInv /\ PacketNotForgotten /\ [Next]_vars => PacketNotForgotten'
  <2> SUFFICES ASSUME IInv, PacketNotForgotten, [Next]_vars PROVE PacketNotForgotten'
    OBVIOUS
  <2>1. CASE Receive
    <3>1. ready < MaxReady /\ pc' = pc
          /\ ready' = IF Enough(uartbuf'.count) THEN (ready + 1) % ReadyWord ELSE ready
      BY <2>1 DEF Receive, serialHandler, mainVars
    <3>2. (ready + 1) % ReadyWord # 0
      BY <3>1, SerialAssumption DEF IInv
    <3> QED
      BY <3>1, <3>2 DEF PacketNotForgotten, Enough
  <2>2. CASE serialBufferAgingHandler
    BY <2>2, SerialAssumption
    DEF serialBufferAgingHandler, mainVars, Cleared, PacketNotForgotten
  <2>3. CASE NextPacket \/ Abandon \/ Restart
    BY <2>3 DEF NextPacket, Abandon, Restart, mainVars, PacketNotForgotten
  <2>4. CASE Check \/ Take \/ Taken \/ Drain \/ PopTest \/ PopBase \/ PopCount \/ PopFind \/ PopRead \/ PopZero
             \/ PopTemp \/ PopLoad \/ PopStore \/ PopFlag \/ PopReturn
    <3>1. CASE Check
      BY <3>1 DEF Check, Go, PacketNotForgotten
    <3>2. CASE ~Check
      <4>1. pc' \in {"taken", "initFull"} \cup Draining
        BY <2>4, <3>2 DEF Take, Taken, Drain, PopTest, PopBase, PopCount, PopFind, PopRead, PopZero, PopTemp,
           PopLoad, PopStore, PopFlag, PopReturn, Go, Draining
      <4> QED
        BY <4>1 DEF PacketNotForgotten
    <3> QED
      BY <3>1, <3>2
  <2>5. CASE InitBuffer
    <3>1. uartbuf \in Xifo
      BY DEF IInv
    <3>2. \/ pc' = "initCount"
          \/ pc' = "initRead" /\ uartbuf' = [uartbuf EXCEPT !.count = 0]
          \/ /\ pc \in {"initRead", "initWrite"} /\ uartbuf'.count = uartbuf.count
             /\ ready' = ready
      BY <2>5, <3>1, PointersStored DEF InitBuffer, InitStore, Go
    <3>3. [uartbuf EXCEPT !.count = 0].count = 0
      BY <3>1, CountStored, XIFOAssumption
    <3>4. CASE pc' = "initRead" /\ uartbuf' = [uartbuf EXCEPT !.count = 0]
      BY <3>3, <3>4, SerialAssumption, XIFOAssumption DEF PacketNotForgotten
    <3> QED
      BY <3>2, <3>4 DEF PacketNotForgotten, Draining
  <2>6. CASE ClearStart \/ ClearSlot \/ ClearEnd \/ Parse
    <3>1. uartbuf'.count = uartbuf.count
      <4>1. CASE ClearSlot
        <5>1. ptemp \in Slot
          BY <4>1, XIFOAssumption DEF ClearSlot, ClearedAll, Go, IInv, PopOK, Slot
        <5> QED
          BY <4>1, <5>1, SlotZeroed DEF ClearSlot, IInv
      <4> QED
        BY <2>6, <4>1 DEF ClearStart, ClearEnd, Parse
    <3>2. pc \in {"clear", "clearing", "parse"} /\ ready' = ready
      BY <2>6 DEF ClearStart, ClearSlot, ClearEnd, Parse, Go
    <3> QED
      BY <3>1, <3>2 DEF PacketNotForgotten, Draining
  <2>7. CASE UNCHANGED vars
    BY <2>7 DEF vars, PacketNotForgotten
  <2> QED
    BY <2>1, <2>2, <2>3, <2>4, <2>5, <2>6, <2>7 DEF Next, Main
<1> QED
  BY <1>1, <1>2, Inductive, PTL DEF Spec

-----------------------------------------------------------------------------
(* The link: what a host that waits for replies sends is what main moves   *)
(* to the report.                                                          *)

\* The buffer of a host that waits for replies: initialised, or with the first k
\* bytes of a packet from the start of the pool on.
Empty == uartbuf.count = 0 /\ uartbuf.read = 0 /\ uartbuf.write = 0
BytesFrom(i) == \A j \in i..Packet : uartbuf.pool[j - 1] = host.packet[j]
Holds(k) ==
    /\ uartbuf.count = k /\ uartbuf.read = k - 1 /\ uartbuf.write = NextSlot(k - 1)
    /\ \A j \in 1..k : uartbuf.pool[j - 1] = host.packet[j]

\* Until a packet is sent main has nothing to do.  A buffer that is too old is
\* cleared before the host starts again.
Gathering ==
    /\ pc = "check" /\ ready = 0
    /\ host.state = "ready" \/ age = MaxAge => Empty
    /\ host.state = "sending" =>
          IF host.sent = 0 THEN Empty ELSE Holds(host.sent) \/ (Empty /\ Aged(age))

\* Then main moves it to the report, byte after byte.
Moved == Len(report)
Left == Packet - Moved
Taking == pc \in {"check", "take", "taken"} => ready = 1 /\ Holds(Packet) /\ age # MaxAge
Moving ==
    pc \in Draining =>
        /\ uartbuf.read = Packet - 1 /\ Moved <= Packet
        /\ \A j \in 1..Moved : report[j] = host.packet[j]
        /\ BytesFrom(Moved + (IF pc \in {"drain", "pop", "find", "subtract", "read", "zero"} THEN 1 ELSE 2))
        /\ uartbuf.count = IF pc \in {"flag", "return"} THEN Left - 1 ELSE Left
        /\ pc # "drain" => Left >= 1
        /\ pc \in {"find", "subtract", "store"} => reg = Left
        /\ pc = "subtract" => base = Packet - 1
        /\ pc \in {"read", "zero"} => ptemp = Moved
        /\ pc \in {"zero", "temp"} => reg = host.packet[Moved + 1]
        /\ pc \in {"load", "store", "flag", "return"} => temp = host.packet[Moved + 1]
Ending ==
    pc \notin {"check", "take", "taken"} \cup Draining =>
        /\ report = host.packet
        /\ pc \in {"initRead", "initWrite"} => uartbuf.count = 0
        /\ pc = "initWrite" => uartbuf.read = 0
        /\ pc \in {"clear", "clearing", "parse"} => Empty
Serving ==
    /\ pc = "taken" => reg = 1
    /\ pc \notin {"check", "take", "taken"} => ready = 0
    /\ Taking /\ Moving /\ Ending

\* Or it has waited for main until the ticker cleared it.
Lost == pc = "check" /\ ready = 0 /\ Empty /\ Aged(age)

PoliteOK == IF Sent THEN Serving \/ Lost ELSE Gathering

LEMMA BytesWritten ==
    ASSUME NEW q \in Xifo, NEW v \in Byte
    PROVE  LET u == xifo_write(q, v) IN
           /\ u.read = q.write /\ u.write = NextSlot(q.write)
           /\ u.count = IF q.count + 1 >= Size THEN Size ELSE q.count + 1
           /\ u.pool[q.write] = v
           /\ \A s \in Slot \ {q.write} : u.pool[s] = q.pool[s]
BY DEF xifo_write, Xifo

LEMMA ByteZeroed ==
    ASSUME NEW q \in Xifo, NEW s \in Slot
    PROVE  LET u == [q EXCEPT !.pool[s] = 0] IN
           /\ u.count = q.count /\ u.read = q.read /\ u.write = q.write
           /\ \A p \in Slot \ {s} : u.pool[p] = q.pool[p]
BY DEF Xifo

LEMMA FieldsStored ==
    ASSUME NEW q \in Xifo, NEW n \in Nat
    PROVE  /\ LET u == [q EXCEPT !.count = n] IN
              u.count = n /\ u.pool = q.pool /\ u.read = q.read /\ u.write = q.write
           /\ LET u == [q EXCEPT !.full = 0] IN
              u.count = q.count /\ u.pool = q.pool /\ u.read = q.read /\ u.write = q.write
           /\ LET u == [q EXCEPT !.read = 0] IN
              u.count = q.count /\ u.read = 0 /\ u.write = q.write
           /\ LET u == [q EXCEPT !.write = 0] IN
              u.count = q.count /\ u.read = q.read /\ u.write = 0
BY DEF Xifo

LEMMA ClearedIsEmpty == ASSUME uartbuf' = Cleared PROVE Empty'
BY DEF Cleared, Empty

LEMMA HostFields ==
    ASSUME IInv
    PROVE  /\ host.sent \in 0..Packet /\ uartbuf \in Xifo /\ age \in 0..MaxAge
           /\ host.state \in {"ready", "sending", "silent"}
           /\ host.state = "sending" => host.packet \in [1..Packet -> Data]
BY DEF IInv, HostOK, Host, Packets

-----------------------------------------------------------------------------

LEMMA PoliteInit == Init => PoliteOK
<1> SUFFICES ASSUME Init PROVE PoliteOK
  OBVIOUS
<1>1. Empty /\ host.state = "ready" /\ pc = "check" /\ ready = 0
  BY DEF Init, Cleared, Empty
<1> QED
  BY <1>1 DEF PoliteOK, Sent, Gathering

\* A host that waits for replies starts a packet on an empty buffer.
LEMMA HostPolite ==
    ~host.streams /\ IInv /\ PoliteOK /\ (NextPacket \/ Abandon \/ Restart) => PoliteOK'
<1> SUFFICES ASSUME ~host.streams, IInv, PoliteOK, NextPacket \/ Abandon \/ Restart
             PROVE  PoliteOK'
  OBVIOUS
<1>1. UNCHANGED <<uartbuf, ready, age, pc>>
  BY DEF NextPacket, Abandon, Restart, mainVars
<1>2. Empty' = Empty
  BY <1>1 DEF Empty
<1>3. CASE NextPacket
  <2>1. host.state = "ready" /\ host'.state = "sending" /\ host'.sent = 0
    BY <1>3 DEF NextPacket, IInv, HostOK, Host
  <2>2. Gathering /\ ~Sent'
    BY <2>1, LinkSizes DEF PoliteOK, Sent
  <2> QED
    BY <1>1, <1>2, <2>1, <2>2 DEF PoliteOK, Gathering
<1>4. CASE Abandon
  <2>1. host.state = "sending" /\ host.sent # Packet /\ host'.state = "silent"
    BY <1>4, HostFields, LinkSizes DEF Abandon, IInv, HostOK, Host
  <2> QED
    BY <1>1, <1>2, <2>1 DEF PoliteOK, Gathering, Sent
<1>5. CASE Restart
  <2>1. age = MaxAge /\ host'.state = "ready" /\ (host.state = "silent" \/ (Sent /\ pc = "check"))
    BY <1>5 DEF Restart, IInv, HostOK, Host
  <2>2. Gathering \/ Lost
    BY <2>1 DEF PoliteOK, Sent, Serving, Taking
  <2>3. Empty /\ pc = "check" /\ ready = 0
    BY <2>1, <2>2 DEF Gathering, Lost
  <2> QED
    BY <1>1, <1>2, <2>1, <2>3 DEF PoliteOK, Gathering, Sent
<1> QED
  BY <1>3, <1>4, <1>5

\* One more byte of the packet.
LEMMA OneMore ==
    ASSUME NEW q \in Xifo, NEW k \in 0..(Packet - 1), NEW d \in [1..Packet -> Data],
           q.count = k, q.write = (IF k = 0 THEN 0 ELSE NextSlot(k - 1)),
           \A j \in 1..k : q.pool[j - 1] = d[j]
    PROVE  LET u == xifo_write(q, d[k + 1]) IN
           /\ u \in Xifo /\ u.count = k + 1 /\ u.read = k /\ u.write = NextSlot(k)
           /\ \A j \in 1..(k + 1) : u.pool[j - 1] = d[j]
<1> DEFINE u == xifo_write(q, d[k + 1])
<1>1. d[k + 1] \in Byte
  BY LinkSizes DEF Byte
<1>2. q.write = k /\ k \in Slot
  BY LinkSizes DEF NextSlot, Slot
<1>3. /\ u.read = k /\ u.write = NextSlot(k) /\ u.pool[k] = d[k + 1]
      /\ u.count = IF k + 1 >= Size THEN Size ELSE k + 1
      /\ \A s \in Slot \ {k} : u.pool[s] = q.pool[s]
  BY <1>1, <1>2, BytesWritten
<1>4. u.count = k + 1
  BY <1>3, LinkSizes
<1>5. u \in Xifo
  BY <1>1, WriteIsXifo
<1> HIDE DEF u
<1>6. ASSUME NEW j \in 1..(k + 1) PROVE u.pool[j - 1] = d[j]
  <2>1. CASE j = k + 1
    BY <1>3, <2>1
  <2>2. CASE j # k + 1
    <3>1. j \in 1..k /\ j - 1 \in Slot \ {k}
      BY <2>2, LinkSizes DEF Slot
    <3> QED
      BY <1>3, <3>1
  <2> QED
    BY <2>1, <2>2
<1> QED
  BY <1>3, <1>4, <1>5, <1>6 DEF u

LEMMA PartOfPacket ==
    ASSUME NEW d \in [1..Packet -> Data], NEW k \in 0..(Packet - 1), NEW n \in 1..2,
           k + n <= Packet
    PROVE  LET s == SubSeq(d, k + 1, k + n) IN
           Len(s) = n /\ s[1] = d[k + 1] /\ (n = 2 => s[2] = d[k + 2])
<1> DEFINE s == SubSeq(d, k + 1, k + n)
<1>1. k + 1 \in Int /\ k + n \in Int /\ k + 1 <= k + n /\ (k + n) - (k + 1) + 1 = n
  BY LinkSizes
<1>2. \A i \in (k + 1)..(k + n) : d[i] \in Data
  BY LinkSizes
<1>3. Len(s) = (k + n) - (k + 1) + 1
  BY <1>1, <1>2, SubSeqProperties
<1>4. \A i \in 1..((k + n) - (k + 1) + 1) : s[i] = d[(k + 1) + i - 1]
  BY <1>1, <1>2, SubSeqProperties
<1> HIDE DEF s
<1>5. s[1] = d[(k + 1) + 1 - 1] /\ (n = 2 => s[2] = d[(k + 1) + 2 - 1])
  BY <1>1, <1>4
<1>6. (k + 1) + 1 - 1 = k + 1 /\ (k + 1) + 2 - 1 = k + 2
  BY LinkSizes
<1> QED
  BY <1>1, <1>3, <1>5, <1>6 DEF s

LEMMA ReceivePolite == IInv /\ PoliteOK /\ Receive => PoliteOK'
<1> SUFFICES ASSUME IInv, PoliteOK, Receive PROVE PoliteOK'
  OBVIOUS
<1> DEFINE k == host.sent
           d == host.packet
<1>1. PICK n \in 1..2 :
         /\ k + n <= Packet
         /\ serialHandler(SubSeq(d, k + 1, k + n))
         /\ host' = [host EXCEPT !.sent = @ + n]
  BY DEF Receive
<1>2. /\ host.state = "sending" /\ ready < MaxReady /\ (k > 0 => ~Aged(age)) /\ pc' = pc
  BY DEF Receive, mainVars
<1>3. /\ k \in 0..(Packet - 1) /\ k + n <= Packet /\ d \in [1..Packet -> Data]
      /\ uartbuf \in Xifo /\ ~Sent
  BY <1>1, <1>2, HostFields, LinkSizes DEF Sent
<1>4. Gathering
  BY <1>3 DEF PoliteOK
<1>5. /\ uartbuf.count = k /\ uartbuf.write = (IF k = 0 THEN 0 ELSE NextSlot(k - 1))
      /\ \A j \in 1..k : uartbuf.pool[j - 1] = d[j]
  <2>1. CASE k = 0
    BY <1>2, <1>4, <2>1 DEF Gathering, Empty
  <2>2. CASE k # 0
    <3>1. Holds(k)
      BY <1>2, <1>3, <1>4, <2>2 DEF Gathering
    <3> QED
      BY <2>2, <3>1 DEF Holds
  <2> QED
    BY <2>1, <2>2
<1>6. host'.state = "sending" /\ host'.sent = k + n /\ host'.packet = d
  BY <1>1, <1>2 DEF IInv, HostOK, Host
<1> DEFINE s == SubSeq(d, k + 1, k + n)
           u == xifo_write(uartbuf, d[k + 1])
<1>7. Len(s) = n /\ s[1] = d[k + 1] /\ (n = 2 => s[2] = d[k + 2])
  BY <1>3, PartOfPacket
<1>8. uartbuf' = IF n = 1 THEN u ELSE xifo_write(u, d[k + 2])
  <2>1. uartbuf' = Written(uartbuf, s)
    BY <1>1 DEF serialHandler
  <2> HIDE DEF s
  <2> QED
    BY <1>7, <2>1 DEF Written
<1>9. /\ u \in Xifo /\ u.count = k + 1 /\ u.read = k /\ u.write = NextSlot(k)
      /\ \A j \in 1..(k + 1) : u.pool[j - 1] = d[j]
  BY <1>3, <1>5, OneMore
<1> HIDE DEF u
<1>10. Holds(host.sent)'
  <2>1. CASE n = 1
    BY <1>3, <1>6, <1>8, <1>9, <2>1 DEF Holds
  <2>2. CASE n = 2
    <3>1. /\ k + 1 \in 0..(Packet - 1) /\ k + 1 # 0 /\ (k + 1) - 1 = k /\ (k + 1) + 1 = k + 2
          /\ (k + 2) - 1 = k + 1
      BY <1>3, <2>2, LinkSizes
    <3> DEFINE v == xifo_write(u, d[(k + 1) + 1])
    <3>2. /\ v \in Xifo /\ v.count = (k + 1) + 1 /\ v.read = k + 1 /\ v.write = NextSlot(k + 1)
          /\ \A j \in 1..((k + 1) + 1) : v.pool[j - 1] = d[j]
      <4>1. u.count = k + 1 /\ u.write = (IF k + 1 = 0 THEN 0 ELSE NextSlot((k + 1) - 1))
        BY <1>9, <3>1
      <4>2. \A j \in 1..(k + 1) : u.pool[j - 1] = d[j]
        BY <1>9
      <4> HIDE DEF k, d
      <4> QED
        BY <1>3, <1>9, <3>1, <4>1, <4>2, OneMore
    <3>3. uartbuf' = v
      BY <1>8, <2>2, <3>1
    <3> HIDE DEF v
    <3> QED
      BY <1>6, <2>2, <3>1, <3>2, <3>3 DEF Holds
  <2> QED
    BY <2>1, <2>2
<1>11. uartbuf'.count = k + n
  BY <1>6, <1>10 DEF Holds
<1>12. ready = 0 /\ pc = "check" /\ age' = 0 /\ ready' = IF Enough(k + n) THEN (ready + 1) % ReadyWord ELSE ready
  BY <1>1, <1>4, <1>11 DEF Gathering, serialHandler
<1>13. CASE k + n = Packet
  <2>1. ready' = 1
    BY <1>2, <1>12, <1>13, LinkSizes DEF Enough
  <2>2. Sent' /\ Holds(Packet)' /\ age' # MaxAge
    BY <1>6, <1>10, <1>12, <1>13, LinkSizes DEF Sent
  <2> QED
    BY <1>2, <1>12, <2>1, <2>2 DEF PoliteOK, Serving, Taking, Moving, Ending, Draining
<1>14. CASE k + n # Packet
  <2>1. ready' = 0 /\ ~Sent' /\ k + n # 0 /\ age' # MaxAge
    BY <1>1, <1>3, <1>6, <1>12, <1>14, LinkSizes DEF Enough, Sent
  <2> QED
    BY <1>2, <1>6, <1>10, <1>12, <2>1 DEF PoliteOK, Gathering
<1> QED
  BY <1>13, <1>14

\* The ticker clears what the host abandoned and what waits too long, and not a
\* packet that is served.
LEMMA AgingPolite == IInv /\ PoliteOK /\ serialBufferAgingHandler => PoliteOK'
<1> SUFFICES ASSUME IInv, PoliteOK, serialBufferAgingHandler PROVE PoliteOK'
  OBVIOUS
<1>1. /\ UNCHANGED <<pc, reg, base, report, host>> /\ Sent' = Sent
      /\ age' = IF age < MaxAge THEN age + 1 ELSE age
      /\ age \in 0..MaxAge
  BY HostFields DEF serialBufferAgingHandler, mainVars, Sent
<1>2. CASE Aged(age)
  <2>1. uartbuf' = Cleared /\ ready' = 0 /\ pc \in {"check", "parse"} /\ Aged(age')
    BY <1>1, <1>2, LinkSizes DEF serialBufferAgingHandler, Aged
  <2>2. Empty'
    BY <2>1, ClearedIsEmpty
  <2>3. CASE Sent /\ pc = "check"
    BY <1>1, <2>1, <2>2, <2>3 DEF PoliteOK, Lost, Aged
  <2>4. CASE Sent /\ pc = "parse"
    <3>1. report = host.packet
      BY <2>4 DEF PoliteOK, Lost, Serving, Ending, Draining
    <3> QED
      BY <1>1, <2>1, <2>2, <2>4, <3>1 DEF PoliteOK, Serving, Taking, Moving, Ending, Draining
  <2>5. CASE ~Sent
    BY <1>1, <2>1, <2>2, <2>5 DEF PoliteOK, Gathering, Aged
  <2> QED
    BY <2>1, <2>3, <2>4, <2>5
<1>3. CASE ~Aged(age)
  <2>1. /\ UNCHANGED <<uartbuf, ready, ptemp, temp>> /\ age' # MaxAge /\ age # MaxAge
    BY <1>1, <1>3, LinkSizes DEF serialBufferAgingHandler, Aged
  <2>2. CASE Sent
    <3>1. Serving
      BY <1>3, <2>2 DEF PoliteOK, Lost
    <3>2. Serving'
      BY <1>1, <2>1, <3>1 DEF Serving, Taking, Moving, Ending, Holds, Empty, BytesFrom, Moved, Left
    <3> QED
      BY <1>1, <2>2, <3>2 DEF PoliteOK
  <2>3. CASE ~Sent
    BY <1>1, <1>3, <2>1, <2>3 DEF PoliteOK, Gathering, Holds, Empty
  <2> QED
    BY <2>2, <2>3
<1> QED
  BY <1>2, <1>3

\* Main is at work only when a packet has been sent.
LEMMA MainServes ==
    ASSUME IInv, PoliteOK, Main
    PROVE  /\ Sent /\ Serving /\ host.state = "sending" /\ host.packet \in [1..Packet -> Data]
           /\ uartbuf \in Xifo /\ Moved \in Nat /\ report \in Seq(Byte) /\ Moved <= Packet
<1>1. Main => ready # 0 \/ pc # "check"
  BY DEF Main, Check, Take, Taken, Drain, PopTest, PopBase, PopCount, PopFind, PopRead, PopZero, PopTemp, PopLoad,
     PopStore, PopFlag, PopReturn, InitBuffer, InitStore, ClearStart, ClearSlot, ClearEnd, Parse,
     Go
<1>2. Sent /\ Serving
  BY <1>1 DEF PoliteOK, Gathering, Lost
<1>3. report \in Seq(Byte) /\ Moved \in Nat /\ Moved <= Packet
  BY LinkSizes DEF IInv, Report, Moved
<1> QED
  BY <1>2, <1>3, HostFields DEF Sent

LEMMA LoopPolite == IInv /\ PoliteOK /\ (Check \/ Take \/ Taken \/ Drain) => PoliteOK'
<1> SUFFICES ASSUME IInv, PoliteOK, Check \/ Take \/ Taken \/ Drain PROVE PoliteOK'
  OBVIOUS
<1>1. /\ Sent /\ Serving /\ host.packet \in [1..Packet -> Data] /\ uartbuf \in Xifo
      /\ Moved \in Nat /\ report \in Seq(Byte) /\ Moved <= Packet
  BY MainServes DEF Main
<1>2. UNCHANGED <<uartbuf, age, ptemp, temp, host>> /\ Sent'
  BY <1>1 DEF Check, Take, Taken, Drain, Elsewhere, Sent
<1>3. CASE Check \/ Take
  <2>1. /\ pc \in {"check", "take"} /\ pc' \in {"take", "taken"} /\ ready' = ready
        /\ (pc' = "taken" => reg' = ready)
    BY <1>3 DEF Check, Take, Go
  <2>2. ready = 1 /\ Holds(Packet) /\ Holds(Packet)' /\ age' # MaxAge
    BY <1>1, <1>2, <2>1 DEF Serving, Taking, Holds
  <2> QED
    BY <1>2, <2>1, <2>2 DEF PoliteOK, Serving, Taking, Moving, Ending, Draining
<1>4. CASE Taken
  <2>1. pc = "taken" /\ pc' = "drain" /\ report' = <<>> /\ ready' = (reg + ReadyWord - 1) % ReadyWord
    BY <1>4 DEF Taken, Go
  <2>2. Holds(Packet) /\ reg = 1
    BY <1>1, <2>1 DEF Serving, Taking
  <2>3. ready' = 0
    BY <2>1, <2>2, LinkSizes
  <2>4. Moved' = 0 /\ Left' = Packet
    BY <2>1, LinkSizes DEF Moved, Left
  <2>5. Moving'
    BY <1>2, <2>1, <2>2, <2>4, LinkSizes DEF Moving, BytesFrom, Holds
  <2> QED
    BY <1>2, <2>1, <2>3, <2>5 DEF PoliteOK, Serving, Taking, Ending, Draining
<1>5. CASE Drain
  <2>1. /\ pc = "drain" /\ pc' = IF uartbuf.count # 0 THEN "pop" ELSE "initFull"
        /\ UNCHANGED <<ready, reg, base, report>>
    BY <1>5 DEF Drain, Go, Reported
  <2>2. Moving /\ ready = 0 /\ uartbuf.count = Left
    BY <1>1, <2>1 DEF Serving, Moving, Draining
  <2>3. Moved' = Moved /\ Left' = Left /\ Left \in Nat /\ Left = Packet - Moved
    BY <1>1, <2>1, LinkSizes DEF Moved, Left
  <2>4. CASE Left # 0
    <3>1. pc' = "pop" /\ Left >= 1
      BY <2>1, <2>2, <2>3, <2>4
    <3>2. Moving'
      BY <1>2, <2>1, <2>2, <2>3, <3>1 DEF Moving, BytesFrom, Draining
    <3> QED
      BY <1>2, <2>1, <2>2, <3>1, <3>2 DEF PoliteOK, Serving, Taking, Ending, Draining
  <2>5. CASE Left = 0
    <3>1. pc' = "initFull"
      BY <2>1, <2>2, <2>5
    <3>2. Moved = Packet /\ \A j \in 1..Packet : report[j] = host.packet[j]
      BY <1>1, <2>1, <2>2, <2>3, <2>5, LinkSizes DEF Moving, Draining
    <3>3. report = host.packet
      BY <1>1, <3>2 DEF Moved
    <3> QED
      BY <1>2, <2>1, <2>2, <3>1, <3>3 DEF PoliteOK, Serving, Taking, Moving, Ending, Draining
  <2> QED
    BY <2>4, <2>5
<1> QED
  BY <1>3, <1>4, <1>5

LEMMA PopPolite ==
    IInv /\ PoliteOK /\ (PopTest \/ PopBase \/ PopCount \/ PopFind \/ PopRead \/ PopZero \/ PopTemp \/ PopLoad \/ PopStore
                         \/ PopFlag \/ PopReturn) => PoliteOK'
<1> SUFFICES ASSUME IInv, PoliteOK,
                    PopTest \/ PopBase \/ PopCount \/ PopFind \/ PopRead \/ PopZero \/ PopTemp \/ PopLoad
                    \/ PopStore \/ PopFlag \/ PopReturn
             PROVE  PoliteOK'
  OBVIOUS
<1>1. /\ Sent /\ Serving /\ host.packet \in [1..Packet -> Data] /\ uartbuf \in Xifo
      /\ Moved \in Nat /\ report \in Seq(Byte) /\ Moved <= Packet
  BY MainServes DEF Main
<1>2. /\ pc \in {"pop", "find", "subtract", "read", "zero", "temp", "load", "store", "flag", "return"}
      /\ UNCHANGED <<ready, age, host>> /\ Sent'
  BY <1>1 DEF PopTest, PopBase, PopCount, PopFind, PopRead, PopZero, PopTemp, PopLoad, PopStore, PopFlag, PopReturn,
     Go, Elsewhere, Reported, Sent
<1>3. ready = 0 /\ Moving
  BY <1>1, <1>2 DEF Serving
\* What holds throughout, and what the next statement needs.
<1>4. /\ uartbuf.read = Packet - 1 /\ Left \in 1..Packet /\ Left = Packet - Moved
      /\ Moved \in Slot /\ Moved + 1 \in 1..Packet
      /\ \A j \in 1..Moved : report[j] = host.packet[j]
      /\ \A j \in (Moved + 2)..Packet : uartbuf.pool[j - 1] = host.packet[j]
      /\ pc \in {"pop", "find", "subtract", "read", "zero"} => uartbuf.pool[Moved] = host.packet[Moved + 1]
      /\ uartbuf.count = IF pc \in {"flag", "return"} THEN Left - 1 ELSE Left
  <2>1. /\ uartbuf.read = Packet - 1 /\ Left >= 1
        /\ \A j \in 1..Moved : report[j] = host.packet[j]
        /\ BytesFrom(Moved + (IF pc \in {"drain", "pop", "find", "subtract", "read", "zero"} THEN 1 ELSE 2))
        /\ uartbuf.count = IF pc \in {"flag", "return"} THEN Left - 1 ELSE Left
    BY <1>2, <1>3 DEF Moving, Draining
  <2>2. /\ Left = Packet - Moved /\ Left \in 1..Packet
        /\ Moved \in Slot /\ Moved + 1 \in 1..Packet
    BY <1>1, <2>1, LinkSizes DEF Left, Slot
  <2>3. \A j \in (Moved + 2)..Packet : uartbuf.pool[j - 1] = host.packet[j]
    <3>1. \A j \in (Moved + 2)..Packet : j \in (Moved + 1)..Packet
      BY <1>1, LinkSizes
    <3> QED
      BY <2>1, <3>1 DEF BytesFrom
  <2>4. ASSUME pc \in {"pop", "find", "subtract", "read", "zero"} PROVE uartbuf.pool[Moved] = host.packet[Moved + 1]
    <3>1. Moved + 1 \in (Moved + 1)..Packet /\ (Moved + 1) - 1 = Moved
      BY <1>1, <2>2, LinkSizes
    <3>2. BytesFrom(Moved + 1)
      BY <2>1, <2>4
    <3> QED
      BY <3>1, <3>2 DEF BytesFrom
  <2> QED
    BY <2>1, <2>2, <2>3, <2>4
<1>5. /\ pc \in {"find", "subtract", "store"} => reg = Left
      /\ pc = "subtract" => base = Packet - 1
      /\ pc \in {"read", "zero"} => ptemp = Moved
      /\ pc \in {"zero", "temp"} => reg = host.packet[Moved + 1]
      /\ pc \in {"load", "store", "flag", "return"} => temp = host.packet[Moved + 1]
  BY <1>2, <1>3 DEF Moving, Draining
\* All but the last statement leave the report as it is.
<1>6. SUFFICES ASSUME ~PopReturn
               PROVE  /\ pc' \in Draining \ {"drain", "pop"} /\ UNCHANGED report
                      /\ uartbuf'.read = Packet - 1
                      /\ \A j \in (Moved + 2)..Packet : uartbuf'.pool[j - 1] = host.packet[j]
                      /\ pc' \in {"find", "subtract", "read", "zero"} => uartbuf'.pool[Moved] = host.packet[Moved + 1]
                      /\ uartbuf'.count = IF pc' \in {"flag", "return"} THEN Left - 1 ELSE Left
                      /\ pc' \in {"find", "subtract", "store"} => reg' = Left
                      /\ pc' = "subtract" => base' = Packet - 1
                      /\ pc' \in {"read", "zero"} => ptemp' = Moved
                      /\ pc' \in {"zero", "temp"} => reg' = host.packet[Moved + 1]
                      /\ pc' \in {"load", "store", "flag", "return"} => temp' = host.packet[Moved + 1]
  <2>1. CASE PopReturn
    <3>1. pc = "return" /\ pc' = "drain" /\ UNCHANGED <<uartbuf, reg, ptemp, temp>>
          /\ report' = Append(report, temp)
      <4>1. stored < Packet
        <5>1. Moved < Packet /\ stored \in Nat
          BY <1>1, <1>4, LinkSizes DEF IInv
        <5>2. Moved = (IF stored < Packet THEN stored ELSE Packet)
          BY DEF IInv, Moved
        <5> QED
          BY <5>1, <5>2, LinkSizes
      <4> QED
        BY <2>1, <4>1 DEF PopReturn, Go, Stored
    <3>2. temp \in Byte
      BY DEF IInv
    <3>3. /\ Moved' = Moved + 1 /\ report'[Moved + 1] = temp
          /\ \A j \in 1..Moved : report'[j] = report[j]
      BY <1>1, <3>1, <3>2 DEF Moved
    <3>4. \A j \in 1..(Moved + 1) : report'[j] = host'.packet[j]
      <4>1. temp = host.packet[Moved + 1]
        BY <1>5, <3>1
      <4>2. \A j \in 1..(Moved + 1) : j = Moved + 1 \/ j \in 1..Moved
        BY <1>1
      <4> QED
        BY <1>2, <1>4, <3>3, <4>1, <4>2
    <3>5. Left' = Left - 1 /\ Moved' + 1 = Moved + 2
      BY <1>1, <1>4, <3>3, LinkSizes DEF Left
    <3>6. Moving'
      <4>1. \A j \in 1..Moved' : report'[j] = host'.packet[j]
        BY <3>3, <3>4
      <4>2. \A j \in (Moved' + 1)..Packet : uartbuf'.pool[j - 1] = host'.packet[j]
        BY <1>2, <1>4, <3>1, <3>5
      <4>3. uartbuf'.count = Left' /\ uartbuf'.read = Packet - 1
        BY <1>4, <3>1, <3>5
      <4>4. Moved' <= Packet
        BY <1>4, <3>3, LinkSizes
      <4> QED
        BY <3>1, <4>1, <4>2, <4>3, <4>4 DEF Moving, BytesFrom
    <3> QED
      BY <1>2, <1>3, <3>1, <3>6 DEF PoliteOK, Serving, Taking, Ending, Draining
  <2>2. CASE ~PopReturn
    <3>1. /\ pc' \in Draining \ {"drain", "pop"} /\ UNCHANGED report
          /\ uartbuf'.read = Packet - 1
          /\ \A j \in (Moved + 2)..Packet : uartbuf'.pool[j - 1] = host.packet[j]
          /\ pc' \in {"find", "subtract", "read", "zero"} => uartbuf'.pool[Moved] = host.packet[Moved + 1]
          /\ uartbuf'.count = IF pc' \in {"flag", "return"} THEN Left - 1 ELSE Left
          /\ pc' \in {"find", "subtract", "store"} => reg' = Left
          /\ pc' = "subtract" => base' = Packet - 1
          /\ pc' \in {"read", "zero"} => ptemp' = Moved
          /\ pc' \in {"zero", "temp"} => reg' = host.packet[Moved + 1]
          /\ pc' \in {"load", "store", "flag", "return"} => temp' = host.packet[Moved + 1]
      BY <1>6, <2>2
    <3>2. Moved' = Moved /\ Left' = Left
      BY <3>1 DEF Moved, Left
    <3>3. BytesFrom(Moved + (IF pc \in {"drain", "pop", "find", "subtract", "read", "zero"} THEN 1 ELSE 2))'
      <4>1. CASE pc' \in {"find", "subtract", "read", "zero"}
        <5>1. \A j \in (Moved + 1)..Packet : j = Moved + 1 \/ j \in (Moved + 2)..Packet
          BY <1>1, LinkSizes
        <5>2. (Moved + 1) - 1 = Moved
          BY <1>1
        <5>3. \A j \in (Moved + 1)..Packet : uartbuf'.pool[j - 1] = host'.packet[j]
          BY <1>2, <3>1, <4>1, <5>1, <5>2
        <5> QED
          BY <3>2, <4>1, <5>3 DEF BytesFrom
      <4>2. CASE pc' \notin {"find", "subtract", "read", "zero"}
        BY <1>2, <3>1, <3>2, <4>2 DEF BytesFrom
      <4> QED
        BY <4>1, <4>2
    <3>4. Moving'
      BY <1>1, <1>2, <1>4, <3>1, <3>2, <3>3 DEF Moving
    <3> QED
      BY <1>2, <1>3, <3>1, <3>4 DEF PoliteOK, Serving, Taking, Ending, Draining
  <2> QED
    BY <2>1, <2>2
<1> USE DEF Go, Reported, Draining
<1>7. CASE PopTest
  BY <1>4, <1>5, <1>7 DEF PopTest
<1>15. CASE PopBase
  BY <1>4, <1>5, <1>15 DEF PopBase
<1>16. CASE PopCount
  BY <1>4, <1>5, <1>16 DEF PopCount
<1>8. CASE PopFind
  <2>1. ptemp' = OldestOf(Packet - 1, Left) /\ pc = "subtract" /\ pc' = "read"
        /\ UNCHANGED <<uartbuf, temp, reg, report>>
    BY <1>4, <1>5, <1>8 DEF PopFind
  <2>2. OldestOf(Packet - 1, Left) = Moved
    BY <1>1, <1>4, LinkSizes DEF OldestOf, Wrapped
  <2> QED
    BY <1>4, <2>1, <2>2
<1>9. CASE PopRead
  BY <1>4, <1>5, <1>9 DEF PopRead
<1>10. CASE PopZero
  <2>1. /\ pc = "zero" /\ pc' = "temp" /\ uartbuf' = [uartbuf EXCEPT !.pool[Moved] = 0]
        /\ UNCHANGED <<ptemp, temp, reg, report>>
    BY <1>4, <1>5, <1>10 DEF PopZero
  <2>2. /\ uartbuf'.count = uartbuf.count /\ uartbuf'.read = uartbuf.read
        /\ \A p \in Slot \ {Moved} : uartbuf'.pool[p] = uartbuf.pool[p]
    BY <1>1, <1>4, <2>1, ByteZeroed
  <2>3. \A j \in (Moved + 2)..Packet : j - 1 \in Slot \ {Moved}
    BY <1>1, LinkSizes DEF Slot
  <2> QED
    BY <1>4, <1>5, <2>1, <2>2, <2>3
<1>11. CASE PopTemp
  BY <1>4, <1>5, <1>11 DEF PopTemp
<1>12. CASE PopLoad
  BY <1>4, <1>5, <1>12 DEF PopLoad
<1>13. CASE PopStore
  <2>1. /\ pc = "store" /\ pc' = "flag" /\ UNCHANGED <<ptemp, temp, report>>
        /\ uartbuf' = [uartbuf EXCEPT !.count = (reg + CountWord - 1) % CountWord]
    BY <1>13 DEF PopStore
  <2>2. (reg + CountWord - 1) % CountWord = Left - 1
    BY <1>4, <1>5, <2>1, Decremented, LinkSizes
  <2>3. /\ uartbuf'.count = Left - 1 /\ uartbuf'.pool = uartbuf.pool
        /\ uartbuf'.read = uartbuf.read
    BY <1>1, <1>4, <2>1, <2>2, FieldsStored
  <2> QED
    BY <1>4, <1>5, <2>1, <2>3
<1>14. CASE PopFlag
  <2>1. /\ pc = "flag" /\ pc' = "return" /\ UNCHANGED <<ptemp, temp, reg, report>>
        /\ uartbuf' = uartbuf \/ uartbuf' = [uartbuf EXCEPT !.full = 0]
    BY <1>14 DEF PopFlag
  <2>2. /\ uartbuf'.count = uartbuf.count /\ uartbuf'.pool = uartbuf.pool
        /\ uartbuf'.read = uartbuf.read
    BY <1>1, <2>1, FieldsStored
  <2> QED
    BY <1>4, <1>5, <2>1, <2>2
<1> QED
  BY <1>6, <1>7, <1>8, <1>9, <1>10, <1>11, <1>12, <1>13, <1>14, <1>15, <1>16

LEMMA InitPolite == IInv /\ PoliteOK /\ (InitBuffer \/ ClearStart \/ ClearSlot \/ ClearEnd) => PoliteOK'
<1> SUFFICES ASSUME IInv, PoliteOK, InitBuffer \/ ClearStart \/ ClearSlot \/ ClearEnd PROVE PoliteOK'
  OBVIOUS
<1>1. Sent /\ Serving /\ uartbuf \in Xifo
  BY MainServes DEF Main
<1>2. /\ pc \in {"initFull", "initCount", "initRead", "initWrite", "clear", "clearing"}
      /\ pc' \in {"initCount", "initRead", "initWrite", "clear", "clearing", "parse"}
      /\ UNCHANGED <<ready, reg, report, host>> /\ Sent'
  BY <1>1 DEF InitBuffer, InitStore, ClearStart, ClearSlot, ClearEnd, Go, Elsewhere, Reported, Sent
<1>3. /\ ready = 0 /\ report = host.packet
      /\ pc \in {"initRead", "initWrite"} => uartbuf.count = 0
      /\ pc = "initWrite" => uartbuf.read = 0
      /\ pc \in {"clear", "clearing"} => Empty
  BY <1>1, <1>2 DEF Serving, Ending, Draining
<1>4. /\ pc' \in {"initRead", "initWrite"} => uartbuf'.count = 0
      /\ pc' = "initWrite" => uartbuf'.read = 0
      /\ pc' \in {"clear", "clearing", "parse"} => Empty'
  <2>1. CASE InitStore("initFull", "initCount", [uartbuf EXCEPT !.full = 0])
    BY <2>1 DEF InitStore, Go
  <2>2. CASE InitStore("initCount", "initRead", [uartbuf EXCEPT !.count = 0])
    BY <1>1, <2>2, FieldsStored DEF InitStore, Go
  <2>3. CASE InitStore("initRead", "initWrite", [uartbuf EXCEPT !.read = 0])
    BY <1>1, <1>3, <2>3, FieldsStored DEF InitStore, Go
  <2>4. CASE InitStore("initWrite", "clear", [uartbuf EXCEPT !.write = 0])
    BY <1>1, <1>3, <2>4, FieldsStored DEF InitStore, Go, Empty
  <2>5. CASE ClearStart \/ ClearEnd
    BY <1>3, <2>5 DEF ClearStart, ClearEnd, Go, Empty
  <2>6. CASE ClearSlot
    <3>1. ptemp \in Slot
      BY <2>6, XIFOAssumption DEF ClearSlot, ClearedAll, Go, IInv, PopOK, Slot
    <3>2. /\ uartbuf'.count = uartbuf.count /\ uartbuf'.read = uartbuf.read
          /\ uartbuf'.write = uartbuf.write
      BY <1>1, <2>6, <3>1, ByteZeroed DEF ClearSlot
    <3> QED
      BY <1>3, <2>6, <3>2 DEF ClearSlot, Go, Empty
  <2> QED
    BY <2>1, <2>2, <2>3, <2>4, <2>5, <2>6 DEF InitBuffer
<1> QED
  BY <1>2, <1>3, <1>4 DEF PoliteOK, Serving, Taking, Moving, Ending, Draining

\* The reply makes the host ready for the next packet.
LEMMA ParsePolite == ~host.streams /\ IInv /\ PoliteOK /\ Parse => PoliteOK' /\ Link!Deliver
<1> SUFFICES ASSUME ~host.streams, IInv, PoliteOK, Parse PROVE PoliteOK' /\ Link!Deliver
  OBVIOUS
<1>1. Sent /\ Serving /\ host.state = "sending" /\ host.packet \in [1..Packet -> Data]
  BY MainServes DEF Main
<1>2. /\ pc = "parse" /\ pc' = "check" /\ parsed' = report /\ UNCHANGED <<uartbuf, ready>>
      /\ host' = [host EXCEPT !.state = "ready"]
  BY <1>1 DEF Parse, Go
<1>3. report = host.packet /\ Empty /\ ready = 0
  BY <1>1, <1>2 DEF Serving, Ending, Draining
<1>4. host'.state = "ready"
  BY <1>2 DEF IInv, HostOK, Host
<1>5. PoliteOK'
  BY <1>2, <1>3, <1>4 DEF PoliteOK, Gathering, Sent, Empty
<1>6. host.packet # <<>>
  BY <1>1, LinkSizes
<1>7. Link!Deliver
  BY <1>1, <1>2, <1>3, <1>4, <1>6 DEF Link!Deliver
<1> QED
  BY <1>5, <1>7

LEMMA PoliteSteps == ~host.streams /\ IInv /\ PoliteOK /\ [Next]_vars => PoliteOK'
<1> SUFFICES ASSUME ~host.streams, IInv, PoliteOK, [Next]_vars PROVE PoliteOK'
  OBVIOUS
<1>1. CASE UNCHANGED vars
  BY <1>1 DEF vars, PoliteOK, Lost, Sent, Gathering, Serving, Taking, Moving, Ending, Holds, Empty,
     BytesFrom, Moved, Left
<1> QED
  BY <1>1, HostPolite, ReceivePolite, AgingPolite, LoopPolite, PopPolite, InitPolite, ParsePolite
  DEF Next, Main

\* Main goes past the end of the report only with more bytes than a packet's.
LEMMA StoredFits ==
    IInv /\ PoliteOK /\ stored <= Packet /\ [Next]_vars => stored' <= Packet
<1> SUFFICES ASSUME IInv, PoliteOK, stored <= Packet, [Next]_vars PROVE stored' <= Packet
  OBVIOUS
<1>1. CASE PopReturn \/ PopTest
  <2>1. Serving /\ Moved \in Nat
    BY <1>1, MainServes DEF Main
  <2>2. Moved <= Packet /\ uartbuf.count = (IF pc = "return" THEN Left - 1 ELSE Left) /\ Left >= 1
    BY <1>1, <2>1 DEF PopReturn, PopTest, Go, Serving, Moving, Draining
  <2>3. Moved < Packet
    BY <2>1, <2>2, LinkSizes DEF Left
  <2>4. stored < Packet /\ stored \in Nat
    BY <2>1, <2>3, LinkSizes DEF IInv, Moved
  <2>5. CASE PopReturn
    BY <2>4, <2>5, LinkSizes DEF PopReturn, Stored
  <2>6. CASE PopTest
    <3>1. uartbuf.count # 0
      BY <2>2, <2>6 DEF PopTest
    <3> QED
      BY <2>6, <3>1 DEF PopTest, Reported
  <2> QED
    BY <1>1, <2>5, <2>6
<1>2. CASE Taken
  BY <1>2, LinkSizes DEF Taken
<1>3. CASE ~(PopReturn \/ PopTest \/ Taken)
  BY <1>3 DEF vars, Next, NextPacket, Abandon, Restart, Receive, serialBufferAgingHandler, mainVars,
     Main, Check, Take, Drain, PopBase, PopCount, PopFind, PopRead, PopZero, PopTemp, PopLoad,
     PopStore, PopFlag, InitBuffer, InitStore, ClearStart, ClearSlot, ClearEnd, Parse, Reported
<1> QED
  BY <1>1, <1>2, <1>3

\* A host is of one kind.
LEMMA StreamsStays == IInv /\ [Next]_vars => host'.streams = host.streams
<1> SUFFICES ASSUME IInv, [Next]_vars PROVE host'.streams = host.streams
  OBVIOUS
<1>1. host \in Host
  BY DEF IInv, HostOK
<1>2. CASE NextPacket \/ Abandon \/ Restart
  BY <1>1, <1>2 DEF NextPacket, Abandon, Restart, Host
<1>3. CASE Receive
  BY <1>1, <1>3 DEF Receive, Host
<1>4. CASE Parse
  BY <1>1, <1>4 DEF Parse, Host
<1>5. CASE ~(NextPacket \/ Abandon \/ Restart \/ Receive \/ Parse)
  BY <1>5 DEF vars, Next, serialBufferAgingHandler, Main, Check, Take, Taken, Drain, PopTest,
     PopBase, PopCount, PopFind, PopRead, PopZero, PopTemp, PopLoad, PopStore, PopFlag, PopReturn,
     InitBuffer, InitStore, ClearStart, ClearSlot, ClearEnd, Elsewhere
<1> QED
  BY <1>2, <1>3, <1>4, <1>5

WaitingOK == host.streams \/ (PoliteOK /\ stored <= Packet)

LEMMA WaitingInvariant == Spec => []WaitingOK
<1>1. Init => WaitingOK
  BY PoliteInit, LinkSizes DEF WaitingOK, Init
<1>2. IInv /\ WaitingOK /\ [Next]_vars => WaitingOK'
  BY StreamsStays, PoliteSteps, StoredFits DEF WaitingOK
<1> QED
  BY <1>1, <1>2, Inductive, PTL DEF Spec

\* Main reads and clears slots of the pool only, and the count stays within it,
\* although xifo_pop_lr and xifo_init are interrupted by bytes that arrive; and
\* for a host that waits for replies it does not write behind its report.
THEOREM DrainStaysInPool == Spec => []InPool
<1>1. IInv /\ WaitingOK => InPool
  <2> SUFFICES ASSUME IInv, WaitingOK PROVE InPool
    OBVIOUS
  <2>1. uartbuf.count <= Size /\ (pc \in {"read", "zero"} => ptemp \in Slot)
    BY XIFOAssumption DEF IInv, PopOK, Xifo
  <2>2. ~host.streams => stored <= Room
    BY LinkSizes DEF WaitingOK, IInv
  <2> QED
    BY <2>1, <2>2 DEF InPool
<1> QED
  BY <1>1, Inductive, WaitingInvariant, PTL

\* What the host sees of a step.
LEMMA LinkSteps ==
    IInv /\ WaitingOK /\ [Next]_vars
        => [Link!Offer \/ Link!Deliver \/ Link!GiveUp]_Link!linkVars
<1> DEFINE inflight == IF host.state = "sending" /\ ~host.streams THEN host.packet ELSE <<>>
<1> SUFFICES ASSUME IInv, WaitingOK, [Next]_vars
             PROVE  \/ Link!Offer \/ Link!Deliver \/ Link!GiveUp
                    \/ inflight' = inflight /\ parsed' = parsed
  BY DEF Link!linkVars
<1>0. host'.streams = host.streams
  BY StreamsStays
<1>9. CASE host.streams
  <2>1. parsed' = parsed
    BY <1>9 DEF vars, Next, NextPacket, Abandon, Restart, Receive, serialBufferAgingHandler,
       mainVars, Main, Check, Take, Taken, Drain, PopTest, PopBase, PopCount, PopFind, PopRead,
       PopZero, PopTemp, PopLoad, PopStore, PopFlag, PopReturn, InitBuffer, InitStore, ClearStart,
       ClearSlot, ClearEnd, Parse, Reported
  <2> QED
    BY <1>0, <1>9, <2>1
<1> SUFFICES ASSUME ~host.streams
             PROVE  \/ Link!Offer \/ Link!Deliver \/ Link!GiveUp
                    \/ inflight' = inflight /\ parsed' = parsed
  BY <1>9
<1>10. PoliteOK
  BY DEF WaitingOK
<1>1. CASE NextPacket
  <2>1. /\ host.state = "ready" /\ host'.state = "sending" /\ host'.packet \in Packets
        /\ parsed' = parsed
    <3>1. PICK p \in Packets : host' = [host EXCEPT !.state = "sending", !.packet = p, !.sent = 0]
      BY <1>1, SerialAssumption DEF NextPacket
    <3> QED
      BY <1>1, <3>1 DEF NextPacket, mainVars, IInv, HostOK, Host
  <2> QED
    BY <1>0, <2>1 DEF Link!Offer
<1>2. CASE Abandon
  <2>1. /\ host.state = "sending" /\ host'.state = "silent" /\ parsed' = parsed
        /\ host.packet \in [1..Packet -> Data]
    BY <1>2, HostFields DEF Abandon, mainVars, IInv, HostOK, Host
  <2>2. host.packet # <<>>
    BY <2>1, LinkSizes
  <2> QED
    BY <1>0, <2>1, <2>2 DEF Link!GiveUp
<1>3. CASE Restart
  <2>1. host'.state = "ready" /\ parsed' = parsed /\ host.state \in {"silent", "sending"}
    BY <1>3 DEF Restart, mainVars, Sent, IInv, HostOK, Host
  <2>2. CASE host.state = "sending"
    <3>1. host.packet # <<>>
      BY <2>2, HostFields, LinkSizes
    <3> QED
      BY <1>0, <2>1, <2>2, <3>1 DEF Link!GiveUp
  <2>3. CASE host.state = "silent"
    BY <1>0, <2>1, <2>3
  <2> QED
    BY <2>1, <2>2, <2>3
<1>4. CASE Receive
  <2>1. PICK n \in 1..2 : host' = [host EXCEPT !.sent = @ + n]
    BY <1>4 DEF Receive
  <2>2. host'.state = host.state /\ host'.packet = host.packet /\ parsed' = parsed
    BY <1>4, <2>1 DEF Receive, mainVars, IInv, HostOK, Host
  <2> QED
    BY <1>0, <2>2
<1>5. CASE serialBufferAgingHandler
  BY <1>5 DEF serialBufferAgingHandler, mainVars
<1>6. CASE Parse
  BY <1>6, <1>10, ParsePolite
<1>7. CASE Main /\ ~Parse
  BY <1>7 DEF Main, Check, Take, Taken, Drain, PopTest, PopBase, PopCount, PopFind, PopRead, PopZero, PopTemp,
     PopLoad, PopStore, PopFlag, PopReturn, InitBuffer, InitStore, ClearStart, ClearSlot, ClearEnd,
     Elsewhere, Reported
<1>8. CASE UNCHANGED vars
  BY <1>8 DEF vars
<1> QED
  BY <1>1, <1>2, <1>3, <1>4, <1>5, <1>6, <1>7, <1>8 DEF Next

\* A host that waits for replies gets each packet it does not abandon to the
\* dispatcher, once, whole and in order, whatever the sizes, unless main is held
\* until it is too old: serialHandler, serialBufferAgingHandler and main's drain
\* implement the link.
THEOREM LinkImplemented == Spec => ImplementsLink
<1>1. Init => Link!LinkInit
  <2> SUFFICES ASSUME Init PROVE Link!LinkInit
    OBVIOUS
  <2>1. host.state = "ready" /\ parsed = <<>>
    BY DEF Init
  <2> QED
    BY <2>1 DEF Link!LinkInit
<1>2. Spec => Link!LinkInit /\ [][Link!Offer \/ Link!Deliver \/ Link!GiveUp]_Link!linkVars
  BY <1>1, LinkSteps, Inductive, WaitingInvariant, PTL DEF Spec
<1> QED
  BY <1>2 DEF ImplementsLink, Link!LinkSpec
=============================================================================
