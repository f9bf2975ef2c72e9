---------------------------- MODULE BoundedQueue ----------------------------
(***************************************************************************)
(* What a ring buffer promises: a sequence of at most Size elements that   *)
(* forgets its oldest element when a new one does not fit, and can be read *)
(* and emptied at either end.  A pop answers 0 only if there is no         *)
(* element, a read only if there is none at its index (or if the element   *)
(* is 0).  Nothing is promised for the largest index there is.             *)
(***************************************************************************)
EXTENDS Naturals, Sequences

CONSTANTS Size, Data,
          IndexWord   \* indices are 0..IndexWord - 1

VARIABLES items,   \* oldest first
          call,    \* the function that was called last
          out      \* what it returned

queueVars == <<items, call, out>>

QueueInit == items = <<>> /\ call = <<"clear">> /\ out = 0

Added(v) == IF Len(items) = Size THEN Append(Tail(items), v) ELSE Append(items, v)

Put(v) == call' = <<"write">> /\ items' = Added(v) /\ out' = Size - Len(Added(v))

TakeOldest ==
    /\ call' = <<"pop_lr">> /\ items # <<>>
    /\ out' = items[1] /\ items' = Tail(items)

TakeNewest ==
    /\ call' = <<"pop_mr">> /\ items # <<>>
    /\ out' = items[Len(items)] /\ items' = SubSeq(items, 1, Len(items) - 1)

NothingToTake ==
    /\ call' \in {<<"pop_lr">>, <<"pop_mr">>} /\ items = <<>>
    /\ out' = 0 /\ UNCHANGED items

Largest == IndexWord - 1

\* Elements are counted from 0, from the oldest or from the newest: the last one
\* has the index Len(items) - 1.
PeekOldest(i) ==
    /\ call' = <<"read_lr", i>> /\ i < Len(items)
    /\ out' = items[i + 1] /\ UNCHANGED items

PeekNewest(i) ==
    /\ call' = <<"read_mr", i>> /\ i < Len(items)
    /\ out' = items[Len(items) - i] /\ UNCHANGED items

NothingThere(i) ==
    /\ call' \in {<<"read_lr", i>>, <<"read_mr", i>>} /\ i >= Len(items) /\ i # Largest
    /\ out' = 0 /\ UNCHANGED items

NotPromised ==
    /\ call' \in {<<"read_lr", Largest>>, <<"read_mr", Largest>>}
    /\ out' \in Data \cup {0} /\ UNCHANGED items

Empty == call' = <<"clear">> /\ items' = <<>> /\ UNCHANGED out

QueueNext ==
    \/ \E v \in Data : Put(v)
    \/ TakeOldest \/ TakeNewest \/ NothingToTake
    \/ \E i \in 0..Largest : PeekOldest(i) \/ PeekNewest(i) \/ NothingThere(i)
    \/ NotPromised \/ Empty

QueueSpec == QueueInit /\ [][QueueNext]_queueVars
=============================================================================
