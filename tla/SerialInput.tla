----------------------------- MODULE SerialInput ----------------------------
(***************************************************************************)
(* The serial input of src/main.cpp: serialHandler (the UART interrupt),   *)
(* serialBufferAgingHandler (a ticker) and main's drain of the ring buffer *)
(* they share.  Handlers do not preempt each other; they preempt main      *)
(* between any two of its statements, xifo_pop_lr, xifo_init and           *)
(* xifo_clear included, and read-modify-writes are a load and a store.     *)
(* Of a report only the bytes of one packet are told apart, the dispatcher *)
(* reads no others.  Assumed of time: the 5000 s are not over between two  *)
(* bytes of a packet, nor while main drains the buffer; they may be over   *)
(* while a packet waits for main, which a command or the button can hold.  *)
(***************************************************************************)
EXTENDS XIFO, Sequences

CONSTANTS Packet,      \* UART_REPORT_SIZE
          Timeout,     \* Ticker_BufferAging_timeout
          ReadyWord,   \* 2^8, the width of serialPacketReady
          CountWord,   \* 2^32, the width of elementcount
          Room,        \* MAX_HID_REPORT_SIZE, of recv_report.data
          Streamed,    \* bound: the packets of a host that streams
          MaxReady     \* bound: the host holds back at this many ready packets, so that
                       \* serialPacketReady does not wrap

Packets == [1..Packet -> Data]

ASSUME SerialAssumption ==
    /\ Packet \in 1..Size /\ Timeout \in Nat
    /\ ReadyWord \in Nat \ {0} /\ CountWord \in Nat /\ CountWord > Size
    /\ MaxReady \in 0..(ReadyWord - 1) /\ Room \in Nat /\ Packet <= Room
    /\ Streamed \subseteq Packets

VARIABLES uartbuf, ready, age,   \* uartbuf, serialPacketReady, bufferAge
          ptemp, temp,           \* the union in uartbuf, as pointer and as byte
          pc, reg, base,         \* main's next statement, and what it loaded (0: not needed)
          report, stored,        \* recv_report: the first bytes, and how far p has come
          parsed,                \* the last report dispatched for a host that waits
          host                   \* the other end of the line

vars == <<uartbuf, ready, age, ptemp, temp, pc, reg, base, report,
          stored, parsed, host>>
mainVars == <<pc, reg, base, report, stored, parsed>>

Byte == Data \cup {0}
MaxAge == Timeout + 2      \* bound: beyond it bufferAge makes no difference

Init ==
    /\ uartbuf = Cleared /\ ready = 0 /\ age = 0
    /\ ptemp = Size /\ temp = 0
    /\ pc = "check" /\ reg = 0 /\ base = 0
    /\ report = << >> /\ stored = 0 /\ parsed = << >>
    /\ \E b \in BOOLEAN :
         host = [state |-> "ready", packet |-> << >>, sent |-> 0, streams |-> b]

-----------------------------------------------------------------------------
(* The host.  One that streams does not wait for replies.                  *)

Sent == host.state = "sending" /\ host.sent = Packet

NextPacket ==
    /\ host.state = "ready" \/ (host.streams /\ Sent)
    /\ \E p \in IF host.streams THEN Streamed ELSE Packets :
         host' = [host EXCEPT !.state = "sending", !.packet = p, !.sent = 0]
    /\ UNCHANGED <<uartbuf, ready, age, ptemp, temp, mainVars>>

\* It gives up, and starts again when the board must have noticed; so it does
\* when its packet was discarded before main came to it.
Abandon ==
    /\ host.state = "sending" /\ host.sent \in 1..(Packet - 1)
    /\ host' = [host EXCEPT !.state = "silent"]
    /\ UNCHANGED <<uartbuf, ready, age, ptemp, temp, mainVars>>

Restart ==
    /\ host.state = "silent" \/ (Sent /\ pc = "check")
    /\ age = MaxAge
    /\ host' = [host EXCEPT !.state = "ready"]
    /\ UNCHANGED <<uartbuf, ready, age, ptemp, temp, mainVars>>

-----------------------------------------------------------------------------
(* The handlers.                                                           *)

\* Mutant: a buffer is never too old.
AgedNever(a) == a > MaxAge
Aged(a) == a > Timeout

\* One byte or two.
Written(q, bytes) ==
    LET p == xifo_write(q, bytes[1])
    IN  IF Len(bytes) = 1 THEN p ELSE xifo_write(p, bytes[2])

\* Mutants: the handler waits for one byte too many, or too few.
EnoughLate(n) == n > Packet
EnoughEarly(n) == n >= Packet - 1
Enough(n) == n >= Packet

\* The loop of the handler takes the bytes that have arrived, one or two.
serialHandler(bytes) ==
    /\ uartbuf' = Written(uartbuf, bytes)
    /\ ready' = IF Enough(uartbuf'.count) THEN (ready + 1) % ReadyWord ELSE ready
    /\ age' = 0

Receive ==
    /\ host.state = "sending" /\ ready < MaxReady
    /\ host.sent > 0 => ~Aged(age)
    /\ \E n \in 1..2 :
         /\ host.sent + n <= Packet
         /\ serialHandler(SubSeq(host.packet, host.sent + 1, host.sent + n))
         /\ host' = [host EXCEPT !.sent = @ + n]
    /\ UNCHANGED <<ptemp, temp, mainVars>>

serialBufferAgingHandler ==
    /\ Aged(age) => pc \in {"check", "parse"}
    /\ age' = IF age < MaxAge THEN age + 1 ELSE age
    /\ IF Aged(age)
       THEN /\ uartbuf' = Cleared /\ ready' = 0
            /\ ptemp' = Size /\ temp' = 0    \* of an address; nobody reads it
       ELSE UNCHANGED <<uartbuf, ready, ptemp, temp>>
    /\ UNCHANGED <<mainVars, host>>

-----------------------------------------------------------------------------
(* Main.                                                                   *)

Go(from, to) == pc = from /\ pc' = to
Elsewhere == UNCHANGED <<age, host>>
Reported == UNCHANGED <<report, stored, parsed>>

\* if(serialPacketReady){ serialPacketReady--; empty_report(&recv_report);
Check == /\ Go("check", "take") /\ ready # 0
         /\ UNCHANGED <<uartbuf, ready, ptemp, temp, reg, base>> /\ Reported /\ Elsewhere

Take == /\ Go("take", "taken") /\ reg' = ready
        /\ UNCHANGED <<uartbuf, ready, ptemp, temp, base>> /\ Reported /\ Elsewhere

Taken == /\ Go("taken", "drain")
         /\ ready' = (reg + ReadyWord - 1) % ReadyWord
         /\ report' = << >> /\ stored' = 0 /\ reg' = 0
         /\ UNCHANGED <<uartbuf, ptemp, temp, base, parsed>> /\ Elsewhere

\* while(xifo_get_used(&uartbuf)) *p++ = xifo_pop_lr(&uartbuf);
Drain == /\ Go("drain", IF uartbuf.count # 0 THEN "pop" ELSE "initFull")
         /\ UNCHANGED <<uartbuf, ready, ptemp, temp, reg, base>> /\ Reported /\ Elsewhere

\* p is not compared with the end of the report; behind it one byte stands for
\* all, and what lies there is not modelled.
Stored(b) ==
    /\ report' = IF stored < Packet THEN Append(report, b) ELSE report
    /\ stored' = IF stored > Room THEN stored ELSE stored + 1

\* The count may stay in a register from here to the computation of ptemp.
PopTest ==
    /\ pc = "pop"
    /\ IF uartbuf.count = 0
       THEN pc' = "drain" /\ Stored(0) /\ UNCHANGED <<reg, parsed>>
       ELSE pc' = "find" /\ reg' = uartbuf.count /\ Reported
    /\ UNCHANGED <<uartbuf, ready, ptemp, temp, base>> /\ Elsewhere

\* Mutant: the pointer is not brought back into the pool.
OldestOfUnwrapped(r, n) == r + 1 - n
OldestOf(r, n) == Wrapped(r + 1 - n)

\* c->read and c->elementcount are loaded in either order, the count perhaps
\* once more.
PopBase == /\ Go("find", "subtract") /\ base' = uartbuf.read
           /\ UNCHANGED <<uartbuf, ready, ptemp, temp, reg>> /\ Reported /\ Elsewhere

PopCount == /\ pc \in {"find", "subtract"} /\ reg' = uartbuf.count
            /\ UNCHANGED <<uartbuf, ready, ptemp, temp, pc, base>> /\ Reported /\ Elsewhere

PopFind == /\ Go("subtract", "read") /\ ptemp' = OldestOf(base, reg) /\ base' = 0
           /\ UNCHANGED <<uartbuf, ready, temp, reg>> /\ Reported /\ Elsewhere

\* Outside the pool there may be anything.
PopRead == /\ Go("read", "zero")
           /\ IF ptemp \in Slot THEN reg' = uartbuf.pool[ptemp] ELSE reg' \in Byte
           /\ UNCHANGED <<uartbuf, ready, ptemp, temp, base>> /\ Reported /\ Elsewhere

PopZero == /\ Go("zero", "temp")
           /\ uartbuf' = IF ptemp \in Slot THEN [uartbuf EXCEPT !.pool[ptemp] = 0]
                         ELSE uartbuf
           /\ UNCHANGED <<ready, ptemp, temp, reg, base>> /\ Reported /\ Elsewhere

PopTemp == /\ Go("temp", "load") /\ temp' = reg /\ reg' = 0
           /\ UNCHANGED <<uartbuf, ready, ptemp, base>> /\ Reported /\ Elsewhere

PopLoad == /\ Go("load", "store") /\ reg' = uartbuf.count
           /\ UNCHANGED <<uartbuf, ready, ptemp, temp, base>> /\ Reported /\ Elsewhere

PopStore ==
    /\ Go("store", "flag")
    /\ uartbuf' = [uartbuf EXCEPT !.count = (reg + CountWord - 1) % CountWord]
    /\ reg' = 0
    /\ UNCHANGED <<ready, ptemp, temp, base>> /\ Reported /\ Elsewhere

PopFlag == /\ Go("flag", "return")
           /\ uartbuf' = IF uartbuf.count < Size THEN [uartbuf EXCEPT !.full = 0]
                         ELSE uartbuf
           /\ UNCHANGED <<ready, ptemp, temp, reg, base>> /\ Reported /\ Elsewhere

PopReturn == /\ Go("return", "drain") /\ Stored(temp)
             /\ UNCHANGED <<uartbuf, ready, ptemp, temp, reg, base, parsed>> /\ Elsewhere

\* xifo_init, one store after the other.
InitStore(from, to, q) ==
    /\ Go(from, to) /\ uartbuf' = q
    /\ UNCHANGED <<ready, ptemp, temp, reg, base>> /\ Reported /\ Elsewhere

InitBuffer ==
    \/ InitStore("initFull", "initCount", [uartbuf EXCEPT !.full = 0])
    \/ InitStore("initCount", "initRead", [uartbuf EXCEPT !.count = 0])
    \/ InitStore("initRead", "initWrite", [uartbuf EXCEPT !.read = 0])
    \/ InitStore("initWrite", "clear", [uartbuf EXCEPT !.write = 0])

\* xifo_clear.
\* Mutant: it goes on to the slot behind the pool.
ClearedAllLate(p) == p > Size
ClearedAll(p) == p > Size - 1

ClearStart == /\ Go("clear", "clearing") /\ ptemp' = 0
              /\ UNCHANGED <<uartbuf, ready, temp, reg, base>> /\ Reported /\ Elsewhere

ClearSlot == /\ Go("clearing", "clearing") /\ ~ClearedAll(ptemp)
             /\ uartbuf' = [uartbuf EXCEPT !.pool[ptemp] = 0] /\ ptemp' = ptemp + 1
             /\ UNCHANGED <<ready, temp, reg, base>> /\ Reported /\ Elsewhere

ClearEnd == /\ Go("clearing", "parse") /\ ClearedAll(ptemp)
            /\ UNCHANGED <<uartbuf, ready, ptemp, temp, reg, base>> /\ Reported /\ Elsewhere

\* The switch, the reply and what else the loop does until the next check.
Parse == /\ Go("parse", "check")
         /\ parsed' = IF host.streams THEN parsed ELSE report
         /\ host' = IF Sent THEN [host EXCEPT !.state = "ready"] ELSE host
         /\ UNCHANGED <<uartbuf, ready, age, ptemp, temp, reg, base, report, stored>>

Main ==
    \/ Check \/ Take \/ Taken \/ Drain
    \/ PopTest \/ PopBase \/ PopCount \/ PopFind \/ PopRead \/ PopZero \/ PopTemp
    \/ PopLoad \/ PopStore \/ PopFlag \/ PopReturn
    \/ InitBuffer \/ ClearStart \/ ClearSlot \/ ClearEnd \/ Parse

Next == NextPacket \/ Abandon \/ Restart \/ Receive \/ serialBufferAgingHandler \/ Main

Spec == Init /\ [][Next]_vars

\* Main's loop goes on and the ticker ticks; the host may do nothing.
FairSpec == Spec /\ WF_vars(Main) /\ WF_vars(serialBufferAgingHandler)

-----------------------------------------------------------------------------
(* Properties.                                                             *)

Draining == {"drain", "pop", "find", "subtract", "read", "zero", "temp", "load", "store",
             "flag", "return"}

\* Types; the count is only bounded by its width.
TypeOK ==
    /\ [uartbuf EXCEPT !.count = 0] \in Xifo
    /\ uartbuf.count \in 0..(CountWord - 1)
    /\ ready \in 0..(ReadyWord - 1) /\ age \in 0..MaxAge
    /\ ptemp \in -Size..Size /\ temp \in Byte
    /\ pc \in {"check", "take", "taken", "initFull", "initCount", "initRead",
               "initWrite", "clear", "clearing", "parse"} \cup Draining
    /\ reg \in Nat /\ base \in Slot /\ stored \in 0..(Room + 1)
    /\ \A r \in {report, parsed} : r \in Seq(Byte) /\ Len(r) <= Packet
    /\ host.state \in {"ready", "sending", "silent"} /\ host.sent \in 0..Packet

\* The buffer never counts more elements than it has slots, and main reads and
\* clears slots of the pool only, although bytes arrive in the middle of
\* xifo_pop_lr, which asks to be atomic, and of xifo_init.  A host that waits
\* for replies never makes main write behind its report.
InPool == /\ uartbuf.count <= Size
          /\ pc \in {"read", "zero"} => ptemp \in Slot
          /\ ~host.streams => stored <= Room

\* A buffer that holds a packet is drained: main has been told or is at it,
\* even if the last byte comes between load and store of serialPacketReady--.
PacketNotForgotten ==
    uartbuf.count >= Packet =>
        ready # 0 \/ pc \in {"take", "taken", "initFull", "initCount"} \cup Draining

\* "Assume full command packet": what main takes is a packet.
TakesPacket == pc = "taken" => uartbuf.count >= Packet

\* A host that waits for replies gets each packet to the dispatcher, unless it
\* abandons one or main is held until it is too old, and then the next.
Link == INSTANCE SerialLink
        WITH inflight <- IF host.state = "sending" /\ ~host.streams THEN host.packet
                         ELSE << >>,
             got <- parsed
ImplementsLink == Link!LinkSpec

\* A packet that was sent is dispatched, if main is not held until one that was
\* counted is too old.
PacketDispatched ==
    [](ready # 0 => ~Aged(age)) => (Sent /\ ~host.streams ~> ~Sent)

\* What the host abandoned does not stay in the buffer.
RestIsDiscarded == host.state = "silent" /\ ~host.streams ~> uartbuf.count = 0
=============================================================================
