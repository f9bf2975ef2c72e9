------------------------- MODULE RingBuffer_proofs -------------------------
(***************************************************************************)
(* Proofs about the circular buffer of XIFO.tla, for every size of the     *)
(* pool and every set of values.                                           *)
(***************************************************************************)
EXTENDS RingBuffer, SequenceTheorems, TLAPS

Element == Data \cup {0}

-----------------------------------------------------------------------------
(* Walking around the pool.  Wrapped(r - k) is the slot k behind r.        *)

LEMMA SlotTypes ==
    ASSUME NEW r \in Slot
    PROVE  /\ NextSlot(r) \in Slot /\ PreviousSlot(r) \in Slot
           /\ 0 \in Slot
           /\ \A k \in Slot : Wrapped(r - k) \in Slot
BY XIFOAssumption DEF Slot, NextSlot, PreviousSlot, Wrapped

\* Slots at different distances are different, and each slot has a distance.
LEMMA DistanceIsUnique ==
    ASSUME NEW r \in Slot, NEW k \in Slot, NEW m \in Slot, k # m
    PROVE  Wrapped(r - k) # Wrapped(r - m)
BY XIFOAssumption DEF Slot, Wrapped

LEMMA DistanceExists ==
    ASSUME NEW r \in Slot, NEW s \in Slot
    PROVE  \E k \in Slot : s = Wrapped(r - k)
<1>1. CASE s <= r
  <2>1. r - s \in Slot /\ s = Wrapped(r - (r - s))
    BY <1>1, XIFOAssumption DEF Slot, Wrapped
  <2> QED
    BY <2>1
<1>2. CASE s > r
  <2>1. r - s + Size \in Slot /\ s = Wrapped(r - (r - s + Size))
    BY <1>2, XIFOAssumption DEF Slot, Wrapped
  <2> QED
    BY <2>1
<1> QED
  BY <1>1, <1>2, XIFOAssumption DEF Slot

LEMMA BehindNext ==
    ASSUME NEW r \in Slot, NEW k \in Nat, k + 1 < Size
    PROVE  /\ Wrapped(NextSlot(r) - (k + 1)) = Wrapped(r - k)
           /\ Wrapped(r - k) # NextSlot(r)
BY XIFOAssumption DEF Slot, NextSlot, Wrapped

LEMMA BehindPrevious ==
    ASSUME NEW r \in Slot, NEW k \in Nat, k + 1 < Size
    PROVE  Wrapped(PreviousSlot(r) - k) = Wrapped(r - (k + 1))
BY XIFOAssumption DEF Slot, PreviousSlot, Wrapped

LEMMA SlotOfType ==
    ASSUME NEW q \in Xifo, NEW i \in 1..q.count
    PROVE  SlotOf(q, i) \in Slot
BY XIFOAssumption DEF Xifo, SlotOf, Slot, Wrapped

-----------------------------------------------------------------------------
(* The contents of a buffer, as a sequence.                                *)

LEMMA ContentsIsSeq ==
    ASSUME NEW q \in Xifo
    PROVE  /\ ContentsOf(q) \in Seq(Element)
           /\ Len(ContentsOf(q)) = q.count
           /\ \A i \in 1..q.count : ContentsOf(q)[i] = q.pool[SlotOf(q, i)]
           /\ ContentsOf(q) = <<>> <=> q.count = 0
<1>1. q.count \in Nat
  BY XIFOAssumption DEF Xifo
<1>2. \A i \in 1..q.count : q.pool[SlotOf(q, i)] \in Element
  BY SlotOfType DEF Xifo, Element
<1>3. ContentsOf(q) \in [1..q.count -> Element]
  BY <1>2 DEF ContentsOf
<1>4. ContentsOf(q) \in Seq(Element)
  BY <1>1, <1>3, SeqDef
<1>5. Len(ContentsOf(q)) = q.count
  BY <1>1, <1>3, <1>4, LenProperties DEF ContentsOf
<1>6. ContentsOf(q) = <<>> <=> q.count = 0
  BY <1>4, <1>5, EmptySeq
<1> QED
  BY <1>4, <1>5, <1>6 DEF ContentsOf

\* The three operations that change a buffer keep its type.
LEMMA WriteType ==
    ASSUME NEW q \in Xifo, NEW v \in Data
    PROVE  xifo_write(q, v) \in Xifo
<1>1. [q.pool EXCEPT ![q.write] = v] \in [Slot -> Element]
  BY DEF Xifo, Element
<1>2. NextSlot(q.write) \in Slot /\ FullAfterWrite(q) \in {0, 1}
  BY SlotTypes DEF Xifo, FullAfterWrite
<1>3. (IF q.count + 1 >= Size THEN Size ELSE q.count + 1) \in 0..Size
  BY XIFOAssumption DEF Xifo
<1> QED
  BY <1>1, <1>2, <1>3 DEF Xifo, xifo_write, Element

LEMMA PopLrType ==
    ASSUME NEW q \in Xifo, q.count # 0
    PROVE  xifo_pop_lr(q) \in Xifo
<1>1. [q.pool EXCEPT ![OldestSlot(q)] = 0] \in [Slot -> Element]
  BY DEF Xifo, Element
<1>2. FullAfterPop(q) \in {0, 1} /\ q.count - 1 \in 0..Size
  BY XIFOAssumption DEF Xifo, FullAfterPop
<1> QED
  BY <1>1, <1>2 DEF Xifo, xifo_pop_lr, Element

LEMMA PopMrType ==
    ASSUME NEW q \in Xifo, q.count # 0
    PROVE  xifo_pop_mr(q) \in Xifo
<1>1. [q.pool EXCEPT ![q.read] = 0] \in [Slot -> Element]
  BY DEF Xifo, Element
<1>2. FullAfterPop(q) \in {0, 1} /\ q.count - 1 \in 0..Size
  BY XIFOAssumption DEF Xifo, FullAfterPop
<1>3. PreviousSlot(q.read) \in Slot
  BY SlotTypes DEF Xifo
<1> QED
  BY <1>1, <1>2, <1>3 DEF Xifo, xifo_pop_mr, Element

LEMMA ClearedType == Cleared \in Xifo
BY XIFOAssumption DEF Cleared, Xifo, Slot

-----------------------------------------------------------------------------
(* What the operations do to the contents.                                 *)

\* A write to a buffer that is not full appends.
LEMMA WriteAppends ==
    ASSUME NEW q \in Xifo, Agree(q), NEW v \in Data, q.count < Size
    PROVE  ContentsOf(xifo_write(q, v)) = Append(ContentsOf(q), v)
<1> DEFINE r == xifo_write(q, v)
           s == ContentsOf(q)
           t == ContentsOf(r)
<1>1. r \in Xifo
  BY WriteType
<1>2. s \in Seq(Element) /\ t \in Seq(Element) /\ v \in Element
      /\ Len(s) = q.count /\ Len(t) = r.count
  BY <1>1, ContentsIsSeq DEF Element
<1>3. r.count = q.count + 1 /\ r.read = q.write /\ q.count \in Nat
  BY XIFOAssumption DEF xifo_write, Xifo
<1>4. q.read \in Slot /\ q.write \in Slot /\ q.pool \in [Slot -> Element]
  BY DEF Xifo, Element
<1>5. \A i \in 1..q.count : t[i] = s[i]
  <2> SUFFICES ASSUME NEW i \in 1..q.count PROVE t[i] = s[i]
    OBVIOUS
  <2>1. q.write = NextSlot(q.read)
    BY <1>3 DEF Agree
  <2>2. q.count - i \in Nat /\ (q.count - i) + 1 < Size
    BY <1>3, XIFOAssumption
  <2>3. Wrapped(NextSlot(q.read) - ((q.count - i) + 1)) = Wrapped(q.read - (q.count - i))
        /\ Wrapped(q.read - (q.count - i)) # NextSlot(q.read)
    BY <1>4, <2>2, BehindNext
  <2>4. r.count - i = (q.count - i) + 1
    BY <1>3
  <2>5. SlotOf(r, i) = SlotOf(q, i) /\ SlotOf(q, i) # q.write
    BY <1>3, <2>1, <2>3, <2>4 DEF SlotOf
  <2>6. SlotOf(q, i) \in Slot
    BY SlotOfType
  <2>7. r.pool[SlotOf(q, i)] = q.pool[SlotOf(q, i)]
    BY <1>4, <2>5, <2>6 DEF xifo_write
  <2>8. i \in 1..r.count
    BY <1>3
  <2> QED
    BY <1>1, <2>5, <2>7, <2>8, ContentsIsSeq
<1>6. t[q.count + 1] = v
  <2>1. SlotOf(r, q.count + 1) = q.write
    BY <1>3, <1>4, XIFOAssumption DEF SlotOf, Wrapped, Slot
  <2>2. r.pool[q.write] = v
    BY <1>4 DEF xifo_write
  <2>3. q.count + 1 \in 1..r.count
    BY <1>3
  <2> QED
    BY <1>1, <2>1, <2>2, <2>3, ContentsIsSeq
<1> HIDE DEF r, s, t
<1>7. /\ Append(s, v) \in Seq(Element) /\ Len(Append(s, v)) = Len(s) + 1
      /\ \A i \in 1..Len(s) : Append(s, v)[i] = s[i]
      /\ Append(s, v)[Len(s) + 1] = v
  BY <1>2, AppendProperties
<1>8. \A i \in 1..Len(t) : t[i] = Append(s, v)[i]
  BY <1>2, <1>3, <1>5, <1>6, <1>7
<1>9. Len(t) = Len(Append(s, v))
  BY <1>2, <1>3, <1>7
<1>10. t = Append(s, v)
  BY <1>2, <1>7, <1>8, <1>9, SeqEqual
<1> QED
  BY <1>10 DEF r, s, t

\* A write to a full buffer appends and drops the oldest element.
LEMMA WriteOverwrites ==
    ASSUME NEW q \in Xifo, Agree(q), NEW v \in Data, q.count = Size
    PROVE  ContentsOf(xifo_write(q, v)) = Append(Tail(ContentsOf(q)), v)
<1> DEFINE r == xifo_write(q, v)
           s == ContentsOf(q)
           t == ContentsOf(r)
<1>1. r \in Xifo
  BY WriteType
<1>2. s \in Seq(Element) /\ t \in Seq(Element) /\ v \in Element
      /\ Len(s) = Size /\ Len(t) = Size
  <2>1. r.count = Size
    BY XIFOAssumption DEF xifo_write, Xifo
  <2> QED
    BY <1>1, <2>1, ContentsIsSeq DEF Element
<1>3. r.count = Size /\ r.read = q.write
  BY XIFOAssumption DEF xifo_write, Xifo
<1>4. q.read \in Slot /\ q.write \in Slot /\ q.pool \in [Slot -> Element]
  BY DEF Xifo, Element
<1>5. \A i \in 1..(Size - 1) : t[i] = s[i + 1]
  <2> SUFFICES ASSUME NEW i \in 1..(Size - 1) PROVE t[i] = s[i + 1]
    OBVIOUS
  <2>1. q.write = NextSlot(q.read)
    BY XIFOAssumption DEF Agree
  <2> DEFINE k == Size - (i + 1)
  <2>2. k \in Nat /\ k + 1 < Size /\ k + 1 = Size - i
    BY XIFOAssumption
  <2>3. Wrapped(NextSlot(q.read) - (k + 1)) = Wrapped(q.read - k)
        /\ Wrapped(q.read - k) # NextSlot(q.read)
    BY <1>4, <2>2, BehindNext
  <2>4. SlotOf(r, i) = SlotOf(q, i + 1) /\ SlotOf(q, i + 1) # q.write
    BY <1>3, <2>1, <2>2, <2>3 DEF SlotOf
  <2>5. i + 1 \in 1..q.count /\ i \in 1..r.count
    BY <1>3, XIFOAssumption
  <2>6. SlotOf(q, i + 1) \in Slot
    BY <2>5, SlotOfType
  <2>7. r.pool[SlotOf(q, i + 1)] = q.pool[SlotOf(q, i + 1)]
    BY <1>4, <2>4, <2>6 DEF xifo_write
  <2> QED
    BY <1>1, <2>4, <2>5, <2>7, ContentsIsSeq
<1>6. t[Size] = v
  <2>1. SlotOf(r, Size) = q.write
    BY <1>3, <1>4, XIFOAssumption DEF SlotOf, Wrapped, Slot
  <2>2. r.pool[q.write] = v
    BY <1>4 DEF xifo_write
  <2>3. Size \in 1..r.count
    BY <1>3, XIFOAssumption
  <2> QED
    BY <1>1, <2>1, <2>2, <2>3, ContentsIsSeq
<1> HIDE DEF r, s, t
<1>7. s # <<>>
  BY <1>2, EmptySeq, XIFOAssumption
<1>8. Tail(s) \in Seq(Element) /\ Len(Tail(s)) = Size - 1
      /\ \A i \in 1..(Size - 1) : Tail(s)[i] = s[i + 1]
  BY <1>2, <1>7, HeadTailProperties
<1> DEFINE u == Append(Tail(s), v)
<1>9. u \in Seq(Element) /\ Len(u) = Len(Tail(s)) + 1
      /\ (\A i \in 1..Len(Tail(s)) : u[i] = Tail(s)[i]) /\ u[Len(Tail(s)) + 1] = v
  BY <1>2, <1>8, AppendProperties
<1> HIDE DEF u
<1>10. \A i \in 1..Size : t[i] = u[i]
  <2>1. \A i \in 1..(Size - 1) : t[i] = u[i]
    BY <1>5, <1>8, <1>9
  <2>2. t[Size] = u[Size]
    BY <1>6, <1>8, <1>9, XIFOAssumption
  <2> QED
    BY <2>1, <2>2, XIFOAssumption
<1>11. Len(u) = Size
  BY <1>8, <1>9, XIFOAssumption
<1>12. t = u
  BY <1>2, <1>9, <1>10, <1>11, SeqEqual
<1> QED
  BY <1>12 DEF r, s, t, u

\* xifo_pop_lr takes the first element.
LEMMA PopLrTakesOldest ==
    ASSUME NEW q \in Xifo, q.count # 0
    PROVE  /\ q.pool[OldestSlot(q)] = ContentsOf(q)[1]
           /\ ContentsOf(xifo_pop_lr(q)) = Tail(ContentsOf(q))
<1> DEFINE r == xifo_pop_lr(q)
           s == ContentsOf(q)
           t == ContentsOf(r)
<1>1. r \in Xifo
  BY PopLrType
<1>2. q.count \in 1..Size /\ r.count = q.count - 1 /\ r.read = q.read
  BY XIFOAssumption DEF xifo_pop_lr, Xifo
<1>3. s \in Seq(Element) /\ t \in Seq(Element) /\ Len(s) = q.count /\ Len(t) = q.count - 1
  BY <1>1, <1>2, ContentsIsSeq
<1>4. q.read \in Slot /\ q.pool \in [Slot -> Element]
  BY DEF Xifo, Element
<1>5. OldestSlot(q) = SlotOf(q, 1)
  <2>1. q.read + 1 - q.count = q.read - (q.count - 1)
    BY <1>2, <1>4 DEF Slot
  <2> QED
    BY <2>1 DEF OldestSlot, SlotOf
<1>6. q.pool[OldestSlot(q)] = s[1]
  BY <1>2, <1>5, ContentsIsSeq
<1>7. \A i \in 1..(q.count - 1) : t[i] = s[i + 1]
  <2> SUFFICES ASSUME NEW i \in 1..(q.count - 1) PROVE t[i] = s[i + 1]
    OBVIOUS
  <2>1. r.count - i = q.count - (i + 1)
    BY <1>2
  <2>2. SlotOf(r, i) = SlotOf(q, i + 1)
    BY <1>2, <2>1 DEF SlotOf
  <2>3. q.count - (i + 1) \in Slot /\ q.count - 1 \in Slot /\ q.count - (i + 1) # q.count - 1
    BY <1>2, XIFOAssumption DEF Slot
  <2>4. SlotOf(q, i + 1) # OldestSlot(q)
    BY <1>4, <1>5, <2>3, DistanceIsUnique DEF SlotOf
  <2>5. i + 1 \in 1..q.count /\ i \in 1..r.count
    BY <1>2
  <2>6. SlotOf(q, i + 1) \in Slot
    BY <2>5, SlotOfType
  <2>7. r.pool[SlotOf(q, i + 1)] = q.pool[SlotOf(q, i + 1)]
    BY <1>4, <2>4, <2>6 DEF xifo_pop_lr
  <2> QED
    BY <1>1, <2>2, <2>5, <2>7, ContentsIsSeq
<1> HIDE DEF r, s, t
<1>8. s # <<>>
  BY <1>2, <1>3, EmptySeq
<1>9. Tail(s) \in Seq(Element) /\ Len(Tail(s)) = q.count - 1
      /\ \A i \in 1..(q.count - 1) : Tail(s)[i] = s[i + 1]
  BY <1>3, <1>8, HeadTailProperties
<1>10. t = Tail(s)
  <2>1. \A i \in 1..Len(t) : t[i] = Tail(s)[i]
    BY <1>3, <1>7, <1>9
  <2> QED
    BY <1>3, <1>9, <2>1, SeqEqual
<1> QED
  BY <1>6, <1>10 DEF r, s, t

\* xifo_pop_mr takes the last element.
LEMMA PopMrTakesNewest ==
    ASSUME NEW q \in Xifo, q.count # 0
    PROVE  /\ q.pool[q.read] = ContentsOf(q)[q.count]
           /\ ContentsOf(xifo_pop_mr(q)) = SubSeq(ContentsOf(q), 1, q.count - 1)
<1> DEFINE r == xifo_pop_mr(q)
           s == ContentsOf(q)
           t == ContentsOf(r)
<1>1. r \in Xifo
  BY PopMrType
<1>2. q.count \in 1..Size /\ r.count = q.count - 1 /\ r.read = PreviousSlot(q.read)
  BY XIFOAssumption DEF xifo_pop_mr, Xifo
<1>3. s \in Seq(Element) /\ t \in Seq(Element) /\ Len(s) = q.count /\ Len(t) = q.count - 1
  BY <1>1, <1>2, ContentsIsSeq
<1>4. q.read \in Slot /\ q.pool \in [Slot -> Element]
  BY DEF Xifo, Element
<1>5. SlotOf(q, q.count) = q.read /\ q.read = Wrapped(q.read - 0)
  BY <1>2, <1>4, XIFOAssumption DEF SlotOf, Wrapped, Slot
<1>6. q.pool[q.read] = s[q.count]
  <2>1. q.count \in 1..q.count
    BY <1>2
  <2> QED
    BY <1>5, <2>1, ContentsIsSeq
<1>7. \A i \in 1..(q.count - 1) : t[i] = s[i]
  <2> SUFFICES ASSUME NEW i \in 1..(q.count - 1) PROVE t[i] = s[i]
    OBVIOUS
  <2> DEFINE k == (q.count - 1) - i
  <2>1. k \in Nat /\ k + 1 < Size /\ k + 1 = q.count - i /\ k = r.count - i
    BY <1>2, XIFOAssumption
  <2>2. Wrapped(PreviousSlot(q.read) - k) = Wrapped(q.read - (k + 1))
    BY <1>4, <2>1, BehindPrevious
  <2>3. SlotOf(r, i) = SlotOf(q, i)
    BY <1>2, <2>1, <2>2 DEF SlotOf
  <2>4. k + 1 \in Slot /\ 0 \in Slot /\ k + 1 # 0
    BY <2>1, XIFOAssumption DEF Slot
  <2>5. SlotOf(q, i) # q.read
    <3>1. Wrapped(q.read - (k + 1)) # Wrapped(q.read - 0)
      BY <1>4, <2>4, DistanceIsUnique
    <3> QED
      BY <1>5, <2>1, <3>1 DEF SlotOf
  <2>6. i \in 1..q.count /\ i \in 1..r.count
    BY <1>2
  <2>7. SlotOf(q, i) \in Slot
    BY <2>6, SlotOfType
  <2>8. r.pool[SlotOf(q, i)] = q.pool[SlotOf(q, i)]
    BY <1>4, <2>5, <2>7 DEF xifo_pop_mr
  <2> QED
    BY <1>1, <2>3, <2>6, <2>8, ContentsIsSeq
<1> HIDE DEF r, s, t
<1> DEFINE u == SubSeq(s, 1, q.count - 1)
<1>8. \A i \in 1..(q.count - 1) : s[i] \in Element
  BY <1>2, <1>3, ElementOfSeq
<1>9. u \in Seq(Element) /\ Len(u) = q.count - 1 /\ \A i \in 1..(q.count - 1) : u[i] = s[i]
  <2>1. 1 \in Int /\ q.count - 1 \in Int
    BY <1>2
  <2>2. /\ SubSeq(s, 1, q.count - 1) \in Seq(Element)
        /\ Len(SubSeq(s, 1, q.count - 1)) =
             IF 1 <= q.count - 1 THEN (q.count - 1) - 1 + 1 ELSE 0
        /\ \A i \in 1..((q.count - 1) - 1 + 1) :
             SubSeq(s, 1, q.count - 1)[i] = s[1 + i - 1]
    BY <1>8, <2>1, SubSeqProperties
  <2>3. Len(u) = q.count - 1
    BY <1>2, <2>2
  <2>4. \A i \in 1..(q.count - 1) : u[i] = s[i]
    BY <1>2, <2>2
  <2> QED
    BY <2>2, <2>3, <2>4
<1> HIDE DEF u
<1>10. t = u
  <2>1. \A i \in 1..Len(t) : t[i] = u[i]
    BY <1>3, <1>7, <1>9
  <2> QED
    BY <1>3, <1>9, <2>1, SeqEqual
<1> QED
  BY <1>6, <1>10 DEF r, s, t, u

-----------------------------------------------------------------------------
(* The invariant.                                                          *)

LEMMA NextOfPrevious ==
    ASSUME NEW r \in Slot
    PROVE  NextSlot(PreviousSlot(r)) = r
BY XIFOAssumption DEF Slot, NextSlot, PreviousSlot

\* Each operation keeps flag, count and pointers in agreement.
LEMMA AgreeKept ==
    ASSUME NEW q \in Xifo, Agree(q)
    PROVE  /\ \A v \in Data : Agree(xifo_write(q, v))
           /\ q.count # 0 => Agree(xifo_pop_lr(q))
           /\ q.count # 0 => Agree(xifo_pop_mr(q))
<1>1. q.count \in 0..Size /\ q.read \in Slot /\ q.full \in {0, 1}
  BY DEF Xifo
<1>2. ASSUME NEW v \in Data PROVE Agree(xifo_write(q, v))
  <2> DEFINE r == xifo_write(q, v)
  <2>1. r.count = IF q.count + 1 >= Size THEN Size ELSE q.count + 1
    BY DEF xifo_write
  <2>2. r.full = IF q.count + 1 >= Size THEN 1 ELSE q.full
    BY DEF xifo_write, FullAfterWrite
  <2>3. r.write = NextSlot(r.read)
    BY DEF xifo_write
  <2>4. r.full = 1 <=> r.count = Size
    BY <1>1, <2>1, <2>2, XIFOAssumption DEF Agree
  <2> QED
    BY <2>3, <2>4 DEF Agree
<1>3. ASSUME q.count # 0 PROVE Agree(xifo_pop_lr(q))
  BY <1>1, <1>3, XIFOAssumption DEF Agree, xifo_pop_lr, FullAfterPop
<1>4. ASSUME q.count # 0 PROVE Agree(xifo_pop_mr(q))
  BY <1>1, <1>4, XIFOAssumption, NextOfPrevious DEF Agree, xifo_pop_mr, FullAfterPop
<1> QED
  BY <1>2, <1>3, <1>4

\* A write fills the next slot. If the pool was full no slot is free after it.
LEMMA WriteClean ==
    ASSUME NEW q \in Xifo, Agree(q), Clean(q), NEW v \in Data
    PROVE  Clean(xifo_write(q, v))
<1> DEFINE r == xifo_write(q, v)
<1>1. q.count \in 0..Size /\ q.read \in Slot /\ q.write \in Slot
      /\ q.pool \in [Slot -> Element]
  BY DEF Xifo, Element
<1>2. r.read = q.write
  BY DEF xifo_write
<1> SUFFICES ASSUME NEW s \in Slot, \A i \in 1..r.count : s # SlotOf(r, i)
             PROVE  r.pool[s] = 0
  BY DEF Clean
<1>3. CASE q.count = Size
  <2>1. r.count = Size
    BY <1>1, <1>3, XIFOAssumption DEF xifo_write
  <2>2. PICK k \in Slot : s = Wrapped(q.write - k)
    BY <1>1, DistanceExists
  <2>3. Size - k \in 1..r.count /\ r.count - (Size - k) = k
    BY <2>1, XIFOAssumption DEF Slot
  <2>4. s = SlotOf(r, Size - k)
    BY <1>2, <2>2, <2>3 DEF SlotOf
  <2> QED
    BY <2>3, <2>4
<1>4. CASE q.count < Size
  <2>1. r.count = q.count + 1
    BY <1>1, <1>4, XIFOAssumption DEF xifo_write
  <2>2. SlotOf(r, q.count + 1) = q.write /\ q.count + 1 \in 1..r.count
    BY <1>1, <1>2, <2>1, XIFOAssumption DEF SlotOf, Wrapped, Slot
  <2>3. r.pool[s] = q.pool[s]
    BY <1>1, <2>2 DEF xifo_write
  <2>4. ASSUME NEW i \in 1..q.count PROVE s # SlotOf(q, i)
    <3>1. q.write = NextSlot(q.read)
      BY <1>1 DEF Agree
    <3>2. q.count - i \in Nat /\ (q.count - i) + 1 < Size
          /\ r.count - i = (q.count - i) + 1 /\ i \in 1..r.count
      BY <1>1, <1>4, <2>1, XIFOAssumption
    <3>3. Wrapped(NextSlot(q.read) - ((q.count - i) + 1)) = Wrapped(q.read - (q.count - i))
      BY <1>1, <3>2, BehindNext
    <3>4. SlotOf(r, i) = SlotOf(q, i)
      BY <1>2, <3>1, <3>2, <3>3 DEF SlotOf
    <3> QED
      BY <3>2, <3>4
  <2> QED
    BY <2>3, <2>4 DEF Clean
<1> QED
  BY <1>1, <1>3, <1>4, XIFOAssumption

\* A pop writes 0 to the one slot that becomes free.
LEMMA PopLrClean ==
    ASSUME NEW q \in Xifo, Clean(q), q.count # 0
    PROVE  Clean(xifo_pop_lr(q))
<1> DEFINE r == xifo_pop_lr(q)
<1>1. q.count \in 1..Size /\ q.read \in Slot /\ q.pool \in [Slot -> Element]
  BY XIFOAssumption DEF Xifo, Element
<1>2. r.read = q.read /\ r.count = q.count - 1
  BY DEF xifo_pop_lr
<1> SUFFICES ASSUME NEW s \in Slot, \A i \in 1..r.count : s # SlotOf(r, i)
             PROVE  r.pool[s] = 0
  BY DEF Clean
<1>3. CASE s = OldestSlot(q)
  BY <1>1, <1>3 DEF xifo_pop_lr
<1>4. CASE s # OldestSlot(q)
  <2>1. r.pool[s] = q.pool[s]
    BY <1>1, <1>4 DEF xifo_pop_lr
  <2>2. ASSUME NEW i \in 1..q.count PROVE s # SlotOf(q, i)
    <3>1. CASE i = 1
      <4>1. q.read + 1 - q.count = q.read - (q.count - 1)
        BY <1>1 DEF Slot
      <4> QED
        BY <1>4, <3>1, <4>1 DEF OldestSlot, SlotOf
    <3>2. CASE i # 1
      <4>1. i - 1 \in 1..r.count /\ r.count - (i - 1) = q.count - i
        BY <1>1, <1>2, <3>2
      <4> QED
        BY <1>2, <4>1 DEF SlotOf
    <3> QED
      BY <3>1, <3>2
  <2> QED
    BY <2>1, <2>2 DEF Clean
<1> QED
  BY <1>3, <1>4

LEMMA PopMrClean ==
    ASSUME NEW q \in Xifo, Clean(q), q.count # 0
    PROVE  Clean(xifo_pop_mr(q))
<1> DEFINE r == xifo_pop_mr(q)
<1>1. q.count \in 1..Size /\ q.read \in Slot /\ q.pool \in [Slot -> Element]
  BY XIFOAssumption DEF Xifo, Element
<1>2. r.read = PreviousSlot(q.read) /\ r.count = q.count - 1
  BY DEF xifo_pop_mr
<1> SUFFICES ASSUME NEW s \in Slot, \A i \in 1..r.count : s # SlotOf(r, i)
             PROVE  r.pool[s] = 0
  BY DEF Clean
<1>3. CASE s = q.read
  BY <1>1, <1>3 DEF xifo_pop_mr
<1>4. CASE s # q.read
  <2>1. r.pool[s] = q.pool[s]
    BY <1>1, <1>4 DEF xifo_pop_mr
  <2>2. ASSUME NEW i \in 1..q.count PROVE s # SlotOf(q, i)
    <3>1. CASE i = q.count
      BY <1>1, <1>4, <3>1, XIFOAssumption DEF SlotOf, Wrapped, Slot
    <3>2. CASE i # q.count
      <4> DEFINE k == (q.count - 1) - i
      <4>1. k \in Nat /\ k + 1 < Size /\ k + 1 = q.count - i
            /\ k = r.count - i /\ i \in 1..r.count
        BY <1>1, <1>2, <3>2, XIFOAssumption
      <4>2. Wrapped(PreviousSlot(q.read) - k) = Wrapped(q.read - (k + 1))
        BY <1>1, <4>1, BehindPrevious
      <4>3. SlotOf(r, i) = SlotOf(q, i)
        BY <1>2, <4>1, <4>2 DEF SlotOf
      <4> QED
        BY <4>1, <4>3
    <3> QED
      BY <3>1, <3>2
  <2> QED
    BY <2>1, <2>2 DEF Clean
<1> QED
  BY <1>3, <1>4

Inv == TypeOK /\ PointersAgree /\ FreeSlotsAreZero

LEMMA InitInv == Init => Inv
<1> SUFFICES ASSUME Init PROVE Inv
  OBVIOUS
<1>1. TypeOK
  BY ClearedType DEF Init, TypeOK
<1>2. PointersAgree
  BY XIFOAssumption DEF Init, PointersAgree, Agree, Cleared
<1>3. FreeSlotsAreZero
  BY DEF Init, FreeSlotsAreZero, Clean, Cleared
<1> QED
  BY <1>1, <1>2, <1>3 DEF Inv

\* The test on the largest index, which wraps, and on the others.
LEMMA PassesWhen ==
    ASSUME NEW q \in Xifo, NEW i \in 0..(IndexWord - 1)
    PROVE  /\ i = IndexWord - 1 => (i + 1) % IndexWord = 0 /\ Passes(q, i)
           /\ i # IndexWord - 1 => (Passes(q, i) <=> i < q.count)
<1>1. q.count \in 0..Size /\ Size \in Nat /\ IndexWord \in Nat /\ Size < IndexWord
  BY XIFOAssumption, IndexAssumption DEF Xifo
<1>2. CASE i = IndexWord - 1
  <2>1. i + 1 = IndexWord
    BY <1>1, <1>2
  <2>2. IndexWord % IndexWord = 0
    BY <1>1
  <2>3. (i + 1) % IndexWord = 0
    BY <2>1, <2>2
  <2> QED
    BY <1>1, <1>2, <2>3 DEF Passes
<1>3. CASE i # IndexWord - 1
  <2>1. i + 1 \in 0..(IndexWord - 1)
    BY <1>1, <1>3
  <2>2. (i + 1) % IndexWord = i + 1
    BY <1>1, <2>1
  <2>3. i + 1 <= q.count <=> i < q.count
    BY <1>1
  <2> QED
    BY <1>3, <2>2, <2>3 DEF Passes
<1> QED
  BY <1>2, <1>3

\* With an index below the count the pointers are in the pool.
LEMMA PointedBelow ==
    ASSUME NEW q \in Xifo, NEW i \in 0..(IndexWord - 1), i < q.count
    PROVE  /\ i # IndexWord - 1
           /\ ((q.count - 1) - i) % IndexWord = (q.count - 1) - i
           /\ Pointed(q, i) = Wrapped(q.read - i)
           /\ (q.count - 1) - i \in Slot /\ i \in Slot
<1>1. q.count \in 0..Size /\ Size \in Nat /\ IndexWord \in Nat /\ Size < IndexWord
  BY XIFOAssumption, IndexAssumption DEF Xifo
<1>2. (q.count - 1) - i \in 0..(IndexWord - 1) /\ (q.count - 1) - i \in Slot /\ i \in Slot
  BY <1>1 DEF Slot
<1>3. ((q.count - 1) - i) % IndexWord = (q.count - 1) - i
  BY <1>1, <1>2
<1>4. i # IndexWord - 1
  BY <1>1
<1> QED
  BY <1>2, <1>3, <1>4 DEF Pointed

\* With the largest index xifo_read_lr reads behind the oldest element.
LEMMA LargestLr ==
    ASSUME NEW q \in Xifo
    PROVE  xifo_read_lr(q, IndexWord - 1) \in Data \cup {0}
<1> DEFINE i == IndexWord - 1
<1>1. q.count \in 0..Size /\ Size \in Nat \ {0} /\ IndexWord \in Nat /\ Size < IndexWord
      /\ q.read \in Slot /\ q.pool \in [Slot -> Element]
  BY XIFOAssumption, IndexAssumption DEF Xifo, Element
<1>2. i \in 0..(IndexWord - 1)
  BY <1>1
<1>3. ((q.count - 1) - i) % IndexWord = q.count
  <2>1. (q.count - 1) - i = q.count - IndexWord /\ q.count \in 0..(IndexWord - 1)
    BY <1>1
  <2>2. (q.count - IndexWord) % IndexWord = q.count
    BY <1>1, <2>1
  <2> QED
    BY <2>1, <2>2
<1>4. Wrapped(q.read - q.count) \in Slot
  BY <1>1 DEF Slot, Wrapped
<1>5. xifo_read_lr(q, i) = q.pool[Wrapped(q.read - q.count)]
  BY <1>2, <1>3, PassesWhen DEF xifo_read_lr
<1> QED
  BY <1>1, <1>4, <1>5 DEF Element

\* What is read is an element, 0, or a byte behind the pool.
LEMMA ReadTypes ==
    ASSUME NEW q \in Xifo, NEW i \in 0..(IndexWord - 1)
    PROVE  /\ xifo_read_lr(q, i) \in Element /\ xifo_read_mr(q, i) \subseteq Element
           /\ Element \subseteq Nat
<1>1. q.count \in 0..Size /\ q.read \in Slot /\ q.pool \in [Slot -> Element]
      /\ 0 \in Element
  BY DEF Xifo, Element
<1>2. Element \subseteq Nat
  BY XIFOAssumption DEF Element
<1>3. xifo_read_mr(q, i) \subseteq Element
  BY <1>1 DEF xifo_read_mr, Element
<1>4. xifo_read_lr(q, i) \in Element
  <2>1. CASE i = IndexWord - 1
    BY <2>1, LargestLr DEF Element
  <2>2. CASE i # IndexWord - 1 /\ i < q.count
    <3>1. Wrapped(q.read - ((q.count - 1) - i)) \in Slot
      BY <1>1, <2>2, PointedBelow, SlotTypes
    <3> QED
      BY <1>1, <2>2, <3>1, PointedBelow DEF xifo_read_lr
  <2>3. CASE i # IndexWord - 1 /\ ~(i < q.count)
    BY <1>1, <2>3, PassesWhen DEF xifo_read_lr
  <2> QED
    BY <2>1, <2>2, <2>3
<1> QED
  BY <1>2, <1>3, <1>4

LEMMA NextInv == Inv /\ [Next]_vars => Inv'
<1> SUFFICES ASSUME Inv, [Next]_vars PROVE Inv'
  OBVIOUS
<1> USE DEF Inv, TypeOK, PointersAgree, FreeSlotsAreZero
<1>1. ASSUME NEW v \in Data, Write(v) PROVE Inv'
  <2>1. buf' = xifo_write(buf, v) /\ buf' \in Xifo
    BY <1>1, WriteType DEF Write
  <2>2. out' \in Nat
    <3>1. xifo_write(buf, v).count \in 0..Size
      BY <2>1 DEF Xifo
    <3> QED
      BY <1>1, <3>1, XIFOAssumption DEF Write
  <2> QED
    BY <2>1, <2>2, AgreeKept, WriteClean
<1>2. CASE PopLr
  <2>1. CASE buf.count = 0
    BY <1>2, <2>1 DEF PopLr
  <2>2. CASE buf.count # 0
    <3>1. buf' = xifo_pop_lr(buf) /\ out' = buf.pool[OldestSlot(buf)]
      BY <1>2, <2>2 DEF PopLr
    <3>2. buf.count \in 1..Size /\ buf.pool \in [Slot -> Element] /\ buf.read \in Slot
      BY <2>2, XIFOAssumption DEF Xifo, Element
    <3>3. buf.count - 1 \in Slot /\ OldestSlot(buf) = Wrapped(buf.read - (buf.count - 1))
      BY <3>2, XIFOAssumption DEF Slot, OldestSlot, Wrapped
    <3>4. OldestSlot(buf) \in Slot
      BY <3>2, <3>3, SlotTypes
    <3>5. out' \in Element /\ Element \subseteq Nat
      BY <3>1, <3>2, <3>4, XIFOAssumption DEF Element
    <3> QED
      BY <2>2, <3>1, <3>5, PopLrType, AgreeKept, PopLrClean
  <2> QED
    BY <2>1, <2>2
<1>3. CASE PopMr
  <2>1. CASE buf.count = 0
    BY <1>3, <2>1 DEF PopMr
  <2>2. CASE buf.count # 0
    <3>1. buf' = xifo_pop_mr(buf) /\ out' = buf.pool[buf.read]
      BY <1>3, <2>2 DEF PopMr
    <3>2. out' \in Nat
      BY <3>1, XIFOAssumption DEF Xifo
    <3> QED
      BY <2>2, <3>1, <3>2, PopMrType, AgreeKept, PopMrClean
  <2> QED
    BY <2>1, <2>2
<1>4. ASSUME NEW i \in 0..(IndexWord - 1), ReadLr(i) \/ ReadMr(i) PROVE Inv'
  <2>1. buf' = buf
    BY <1>4 DEF ReadLr, ReadMr
  <2>2. out' \in Nat
    BY <1>4, ReadTypes DEF ReadLr, ReadMr
  <2> QED
    BY <2>1, <2>2
<1>5. CASE Clear
  <2>1. Inv'
    <3>1. Agree(Cleared) /\ Clean(Cleared)
      BY XIFOAssumption DEF Agree, Clean, Cleared
    <3> QED
      BY <1>5, <3>1, ClearedType DEF Clear
  <2> QED
    BY <2>1
<1>6. CASE UNCHANGED vars
  BY <1>6 DEF vars
<1> QED
  BY <1>1, <1>2, <1>3, <1>4, <1>5, <1>6 DEF Next

\* The invariant that the three safety theorems are parts of.
THEOREM InvHolds == Spec => []Inv
BY InitInv, NextInv, PTL DEF Spec

\* Pointers never leave the pool, whatever its size.
THEOREM TypeCorrect == Spec => []TypeOK
<1>1. Inv => TypeOK
  BY DEF Inv
<1> QED
  BY InvHolds, <1>1, PTL

\* Flag, count and pointers agree after any operations.
THEOREM PointersCorrect == Spec => []PointersAgree
<1>1. Inv => PointersAgree
  BY DEF Inv
<1> QED
  BY InvHolds, <1>1, PTL

\* Nothing stays behind in a slot that was popped.
THEOREM NothingStaysBehind == Spec => []FreeSlotsAreZero
<1>1. Inv => FreeSlotsAreZero
  BY DEF Inv
<1> QED
  BY InvHolds, <1>1, PTL

-----------------------------------------------------------------------------
(* The ring implements the queue.                                          *)

\* Below the count a read answers with the element, counted from the end it is
\* named for; elsewhere with 0, except with the largest index.
LEMMA ReadsElement ==
    ASSUME NEW q \in Xifo, NEW i \in 0..(IndexWord - 1)
    PROVE  /\ i < Len(ContentsOf(q)) =>
                 /\ xifo_read_lr(q, i) = ContentsOf(q)[i + 1]
                 /\ xifo_read_mr(q, i) = {ContentsOf(q)[Len(ContentsOf(q)) - i]}
           /\ ~(i < Len(ContentsOf(q))) /\ i # IndexWord - 1 =>
                 xifo_read_lr(q, i) = 0 /\ xifo_read_mr(q, i) = {0}
<1>1. q.count \in 0..Size /\ q.read \in Slot /\ Len(ContentsOf(q)) = q.count
      /\ i \in Nat
  BY ContentsIsSeq, IndexAssumption DEF Xifo
<1>2. CASE i < q.count
  <2>1. i + 1 \in 1..q.count /\ q.count - i \in 1..q.count
        /\ (q.count - 1) - i = q.count - (i + 1) /\ q.count - (q.count - i) = i
    BY <1>1, <1>2, XIFOAssumption
  <2>2. SlotOf(q, i + 1) = Wrapped(q.read - ((q.count - 1) - i))
        /\ SlotOf(q, q.count - i) = Wrapped(q.read - i)
    BY <2>1 DEF SlotOf
  <2>3. ContentsOf(q)[i + 1] = q.pool[SlotOf(q, i + 1)]
        /\ ContentsOf(q)[q.count - i] = q.pool[SlotOf(q, q.count - i)]
    BY <2>1, ContentsIsSeq
  <2>4. Passes(q, i) /\ ((q.count - 1) - i) % IndexWord = (q.count - 1) - i
        /\ Pointed(q, i) = Wrapped(q.read - i)
    BY <1>2, PassesWhen, PointedBelow
  <2>5. Pointed(q, i) \in Slot
    BY <2>1, <2>2, <2>4, SlotOfType
  <2>6. xifo_read_lr(q, i) = ContentsOf(q)[i + 1]
    BY <2>2, <2>3, <2>4 DEF xifo_read_lr
  <2>7. xifo_read_mr(q, i) = {ContentsOf(q)[q.count - i]}
    BY <2>2, <2>3, <2>4, <2>5 DEF xifo_read_mr
  <2> QED
    BY <1>1, <1>2, <2>6, <2>7
<1>3. CASE ~(i < q.count) /\ i # IndexWord - 1
  BY <1>1, <1>3, PassesWhen DEF xifo_read_lr, xifo_read_mr
<1> QED
  BY <1>1, <1>2, <1>3

LEMMA InitQueue == Init => Queue!QueueInit
<1> SUFFICES ASSUME Init PROVE Contents = <<>> /\ call = <<"clear">> /\ out = 0
  BY DEF Queue!QueueInit
<1>1. buf.count = 0 /\ buf \in Xifo
  BY ClearedType DEF Init, Cleared
<1> QED
  BY <1>1, ContentsIsSeq DEF Contents, Init

LEMMA NextQueue == Inv /\ [Next]_vars => [Queue!QueueNext]_Queue!queueVars
<1> SUFFICES ASSUME Inv, [Next]_vars PROVE [Queue!QueueNext]_Queue!queueVars
  OBVIOUS
<1>0. buf \in Xifo /\ Agree(buf) /\ buf.count \in 0..Size
  BY DEF Inv, TypeOK, PointersAgree, Xifo
<1>a. Contents \in Seq(Element) /\ Len(Contents) = buf.count
      /\ (Contents = <<>> <=> buf.count = 0)
  BY <1>0, ContentsIsSeq DEF Contents
<1>1. ASSUME NEW v \in Data, Write(v) PROVE Queue!QueueNext
  <2>1. Contents' = Queue!Added(v)
    <3>1. Contents' = ContentsOf(xifo_write(buf, v))
      BY <1>1 DEF Write, Contents
    <3>2. CASE buf.count = Size
      BY <1>0, <1>a, <3>1, <3>2, WriteOverwrites DEF Contents, Queue!Added
    <3>3. CASE buf.count < Size
      <4>1. Len(Contents) # Size
        BY <1>0, <1>a, <3>3, XIFOAssumption
      <4> QED
        BY <1>0, <3>1, <3>3, <4>1, WriteAppends DEF Contents, Queue!Added
    <3> QED
      BY <1>0, <3>2, <3>3, XIFOAssumption
  <2>2. Len(Queue!Added(v)) = xifo_write(buf, v).count
    <3>1. Len(ContentsOf(xifo_write(buf, v))) = xifo_write(buf, v).count
      BY <1>0, WriteType, ContentsIsSeq
    <3>2. Contents' = ContentsOf(xifo_write(buf, v))
      BY <1>1 DEF Write, Contents
    <3> QED
      BY <2>1, <3>1, <3>2
  <2>3. out' = Size - Len(Queue!Added(v))
    BY <1>1, <2>2 DEF Write
  <2>4. Queue!Put(v)
    BY <1>1, <2>1, <2>3 DEF Write, Queue!Put
  <2> QED
    BY <2>4 DEF Queue!QueueNext
<1>2. CASE PopLr
  <2>1. CASE buf.count = 0
    <3>1. Queue!NothingToTake
      BY <1>2, <1>a, <2>1 DEF PopLr, Queue!NothingToTake, Contents
    <3> QED
      BY <3>1 DEF Queue!QueueNext
  <2>2. CASE buf.count # 0
    <3>1. Queue!TakeOldest
      BY <1>0, <1>2, <1>a, <2>2, PopLrTakesOldest DEF PopLr, Queue!TakeOldest, Contents
    <3> QED
      BY <3>1 DEF Queue!QueueNext
  <2> QED
    BY <2>1, <2>2
<1>3. CASE PopMr
  <2>1. CASE buf.count = 0
    <3>1. Queue!NothingToTake
      BY <1>3, <1>a, <2>1 DEF PopMr, Queue!NothingToTake, Contents
    <3> QED
      BY <3>1 DEF Queue!QueueNext
  <2>2. CASE buf.count # 0
    <3>1. Queue!TakeNewest
      BY <1>0, <1>3, <1>a, <2>2, PopMrTakesNewest DEF PopMr, Queue!TakeNewest, Contents
    <3> QED
      BY <3>1 DEF Queue!QueueNext
  <2> QED
    BY <2>1, <2>2
<1>4. ASSUME NEW i \in 0..(IndexWord - 1), ReadLr(i) \/ ReadMr(i) PROVE Queue!QueueNext
  <2>1. Contents' = Contents
    BY <1>4 DEF ReadLr, ReadMr, Contents
  <2>2. CASE i < Len(Contents)
    <3>1. Queue!PeekOldest(i) \/ Queue!PeekNewest(i)
      BY <1>0, <1>4, <2>1, <2>2, ReadsElement
      DEF ReadLr, ReadMr, Queue!PeekOldest, Queue!PeekNewest, Contents
    <3> QED
      BY <3>1 DEF Queue!QueueNext, Queue!Largest
  <2>3. CASE ~(i < Len(Contents)) /\ i # IndexWord - 1
    <3>1. i >= Len(Contents)
      BY <1>0, <1>a, <2>3, IndexAssumption, XIFOAssumption
    <3>2. Queue!NothingThere(i)
      BY <1>0, <1>4, <2>1, <2>3, <3>1, ReadsElement
      DEF ReadLr, ReadMr, Queue!NothingThere, Queue!Largest, Contents
    <3> QED
      BY <3>2 DEF Queue!QueueNext, Queue!Largest
  <2>4. CASE i = IndexWord - 1
    <3>1. out' \in Data \cup {0}
      BY <1>0, <1>4, ReadTypes DEF ReadLr, ReadMr, Element
    <3>2. Queue!NotPromised
      BY <1>4, <2>1, <2>4, <3>1 DEF ReadLr, ReadMr, Queue!NotPromised, Queue!Largest
    <3> QED
      BY <3>2 DEF Queue!QueueNext
  <2> QED
    BY <2>2, <2>3, <2>4
<1>5. CASE Clear
  <2>1. ContentsOf(Cleared) = <<>>
    BY ClearedType, ContentsIsSeq DEF Cleared
  <2>2. Queue!Empty
    BY <1>5, <2>1 DEF Clear, Queue!Empty, Contents
  <2> QED
    BY <2>2 DEF Queue!QueueNext
<1>6. CASE UNCHANGED vars
  BY <1>6 DEF vars, Queue!queueVars, Contents
<1> QED
  BY <1>1, <1>2, <1>3, <1>4, <1>5, <1>6 DEF Next

\* A ring of any size, used in any order, is a queue that forgets its oldest.
THEOREM QueueImplemented == Spec => ImplementsQueue
<1>1. Spec => Queue!QueueInit /\ [][Queue!QueueNext]_Queue!queueVars
  BY InvHolds, InitQueue, NextQueue, PTL DEF Spec
<1> QED
  BY <1>1 DEF ImplementsQueue, Queue!QueueSpec
=============================================================================
