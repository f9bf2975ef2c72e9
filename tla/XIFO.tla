-------------------------------- MODULE XIFO --------------------------------
(***************************************************************************)
(* The circular buffer of src/xIFO_SizeType.c.  A pointer is its distance  *)
(* from startpool, so the pool is 0..Size-1 and endpool is Size - 1.  The  *)
(* functions are operators on the buffer object.  RingBuffer.tla calls     *)
(* them as atomic operations, which is what their warnings ask for, and    *)
(* SerialInput.tla as main.cpp does, with interrupts between statements.   *)
(***************************************************************************)
EXTENDS Integers

CONSTANTS Size,   \* elements the pool holds
          Data    \* values written, 0 may be one

ASSUME XIFOAssumption == Size \in Nat \ {0} /\ Data \subseteq Nat

Slot == 0..(Size - 1)

\* read points at the newest element, write at the next slot.
Xifo == [pool : [Slot -> Data \cup {0}], read : Slot, write : Slot,
         full : {0, 1}, count : 0..Size]

\* xifo_init, then xifo_clear, as each caller has it.
Cleared == [pool |-> [s \in Slot |-> 0], read |-> 0, write |-> 0,
            full |-> 0, count |-> 0]

\* A pointer that fell below the pool comes back at its end.
Wrapped(p) == IF p < 0 THEN Size + p ELSE p

\* Mutant: the end of the pool is passed by one.
NextSlotLate(p) == IF p + 1 > Size THEN 0 ELSE p + 1
NextSlot(p) == IF p + 1 > Size - 1 THEN 0 ELSE p + 1

\* The flag after one more element.
\* Mutant: it is set one element too early.
FullAfterWriteEarly(q) == IF q.count + 2 >= Size THEN 1 ELSE q.full
FullAfterWrite(q) == IF q.count + 1 >= Size THEN 1 ELSE q.full

xifo_write(q, v) ==
    [pool  |-> [q.pool EXCEPT ![q.write] = v],
     read  |-> q.write,
     write |-> NextSlot(q.write),
     full  |-> FullAfterWrite(q),
     count |-> IF q.count + 1 >= Size THEN Size ELSE q.count + 1]

FullAfterPop(q) == IF q.count - 1 < Size THEN 0 ELSE q.full

OldestSlot(q) == Wrapped(q.read + 1 - q.count)

\* The pops of a buffer that is not empty.
xifo_pop_lr(q) ==
    [pool  |-> [q.pool EXCEPT ![OldestSlot(q)] = 0],
     read  |-> q.read,
     write |-> q.write,
     full  |-> FullAfterPop(q),
     count |-> q.count - 1]

PreviousSlot(p) == IF p - 1 < 0 THEN Size - 1 ELSE p - 1

\* Mutant: the slot is written to empty it after the read pointer moved.
PopMrLate(q) ==
    [pool  |-> [q.pool EXCEPT ![PreviousSlot(q.read)] = 0],
     read  |-> PreviousSlot(q.read),
     write |-> q.read,
     full  |-> FullAfterPop(q),
     count |-> q.count - 1]
xifo_pop_mr(q) ==
    [pool  |-> [q.pool EXCEPT ![q.read] = 0],
     read  |-> PreviousSlot(q.read),
     write |-> q.read,
     full  |-> FullAfterPop(q),
     count |-> q.count - 1]
=============================================================================
