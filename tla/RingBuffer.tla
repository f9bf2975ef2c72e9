----------------------------- MODULE RingBuffer -----------------------------
(***************************************************************************)
(* The buffer of XIFO.tla and a caller that uses every function of it, in  *)
(* any order, undisturbed.                                                 *)
(***************************************************************************)
EXTENDS XIFO, Sequences

CONSTANT IndexWord   \* an index is a uint32_t: 2^32

\* A pool is smaller than what an index can count.
ASSUME IndexAssumption == IndexWord \in Nat /\ Size < IndexWord

VARIABLES buf,
          call,   \* the function that was called last (history)
          out     \* what it returned
vars == <<buf, call, out>>

Init == buf = Cleared /\ call = <<"clear">> /\ out = 0

Write(v) == /\ call' = <<"write">>
            /\ buf' = xifo_write(buf, v)
            /\ out' = Size - xifo_write(buf, v).count

PopLr == /\ call' = <<"pop_lr">>
         /\ IF buf.count = 0
            THEN out' = 0 /\ UNCHANGED buf
            ELSE out' = buf.pool[OldestSlot(buf)] /\ buf' = xifo_pop_lr(buf)

PopMr == /\ call' = <<"pop_mr">>
         /\ IF buf.count = 0
            THEN out' = 0 /\ UNCHANGED buf
            ELSE out' = buf.pool[buf.read] /\ buf' = xifo_pop_mr(buf)

\* index + 1 is 0 for the largest index, which is let through.
\* Mutant: the last element is refused.
PassesEarly(q, i) == (i + 1) % IndexWord < q.count
Passes(q, i) == (i + 1) % IndexWord <= q.count

\* The pointer then is count elements behind the newest one.
xifo_read_lr(q, i) ==
    IF Passes(q, i) THEN q.pool[Wrapped(q.read - (((q.count - 1) - i) % IndexWord))] ELSE 0

\* Here it is one slot past read, which may be behind the pool: any byte.
Pointed(q, i) == IF i = IndexWord - 1 THEN q.read + 1 ELSE Wrapped(q.read - i)

xifo_read_mr(q, i) ==
    IF ~Passes(q, i) THEN {0}
    ELSE IF Pointed(q, i) \in Slot THEN {q.pool[Pointed(q, i)]} ELSE Data \cup {0}

ReadLr(i) == call' = <<"read_lr", i>> /\ out' = xifo_read_lr(buf, i) /\ UNCHANGED buf

ReadMr(i) == call' = <<"read_mr", i>> /\ out' \in xifo_read_mr(buf, i) /\ UNCHANGED buf

Clear == call' = <<"clear">> /\ buf' = Cleared /\ UNCHANGED out

Next ==
    \/ \E v \in Data : Write(v)
    \/ PopLr \/ PopMr
    \/ \E i \in 0..(IndexWord - 1) : ReadLr(i) \/ ReadMr(i)
    \/ Clear

Spec == Init /\ [][Next]_vars

-----------------------------------------------------------------------------
(* Properties.                                                             *)

\* Pointers stay in the pool, the count between 0 and Size.
TypeOK == buf \in Xifo /\ out \in Nat

\* The full flag is set exactly when the count is Size, and the write pointer
\* follows the read pointer whenever there is an element, whichever ends were
\* popped and however often the pool was passed.
Agree(q) == /\ q.full = 1 <=> q.count = Size
            /\ q.count > 0 => q.write = NextSlot(q.read)
PointersAgree == Agree(buf)

\* The slot of the i-th oldest element.
SlotOf(q, i) == Wrapped(q.read - (q.count - i))

\* A slot that holds no element holds 0: popped values do not stay behind.
Clean(q) == \A s \in Slot : (\A i \in 1..q.count : s # SlotOf(q, i)) => q.pool[s] = 0
FreeSlotsAreZero == Clean(buf)

\* The elements between the oldest and the newest, in order of arrival, are a
\* bounded queue that forgets its oldest element: each function answers from
\* the end it is named for, and 0 only where there is nothing.  The comments
\* (src/xIFO_SizeType.c:58, :94) give the last element the index elementcount,
\* where the functions answer 0; it has elementcount - 1.  The largest index
\* is not the "0 if failed" they promise, and the queue promises nothing there.
ContentsOf(q) == [i \in 1..q.count |-> q.pool[SlotOf(q, i)]]
Contents == ContentsOf(buf)

Queue == INSTANCE BoundedQueue WITH items <- Contents

ImplementsQueue == Queue!QueueSpec
=============================================================================
