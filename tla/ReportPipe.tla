----------------------------- MODULE ReportPipe -----------------------------
(***************************************************************************)
(* What the USB HID link promises a host that waits for each reply: every  *)
(* command is answered at most once and in the order asked; answers may go *)
(* missing.  An answer is for the bytes of the command itself, for the     *)
(* empty report, which the dispatcher takes for a command too, or for the  *)
(* bytes of a command before it that went without one.                     *)
(***************************************************************************)
EXTENDS Naturals, Sequences

CONSTANT Command

VARIABLES asked,   \* commands not answered yet, oldest first; lost: given up
          got      \* the answer fetched last, and a bit that changes with each

pipeVars == <<asked, got>>

PipeInit == asked = <<>> /\ got = [of |-> 0, data |-> 0, turn |-> 0]

Ask(c) ==
    /\ \A i \in DOMAIN asked : asked[i].lost
    /\ asked' = Append(asked, [cmd |-> c, lost |-> FALSE])
    /\ UNCHANGED got

Lose ==
    /\ asked' = [i \in DOMAIN asked |-> [asked[i] EXCEPT !.lost = TRUE]]
    /\ UNCHANGED got

Answer(i, data) ==
    /\ \A j \in 1..(i - 1) : asked[j].lost
    /\ data # 0 => \E j \in 1..i : asked[j].cmd = data
    /\ got' = [of |-> asked[i].cmd, data |-> data, turn |-> 1 - got.turn]
    /\ asked' = SubSeq(asked, i + 1, Len(asked))

PipeNext ==
    \/ \E c \in Command : Ask(c)
    \/ Lose
    \/ \E i \in DOMAIN asked, data \in Command \cup {0} : Answer(i, data)

PipeSpec == PipeInit /\ [][PipeNext]_pipeVars
=============================================================================
