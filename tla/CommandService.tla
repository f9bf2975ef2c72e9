--------------------------- MODULE CommandService ---------------------------
(***************************************************************************)
(* What the board promises the hosts on its two links: it serves one       *)
(* command at a time, each at most once, and answers it on the link it     *)
(* came from with an answer to that command: on USB with all of it, on the *)
(* UART with its first byte only.  Of the commands on USB at most one is   *)
(* dropped for each command on the UART.  Command 0xEE is echoed on USB    *)
(* when it begins, and the board starts over when it is done.              *)
(***************************************************************************)
EXTENDS Integers, Sequences

CONSTANTS Links, Ops,
          Answers,   \* of each command: the answers to it
          Echo

VARIABLES phase,    \* of each link: "none", "asked", the command being served, "answered"
          box,      \* the report a USB host can fetch, << >> if none
          heard,    \* what a UART host can read, << >> if nothing
          short,    \* a UART command was answered since the board started
          doomed,   \* 0xEE was served: the board will restart
          mayDrop   \* a UART command was answered just now

serviceVars == <<phase, box, heard, short, doomed, mayDrop>>

ServiceInit ==
    /\ phase = [l \in Links |-> "none"] /\ box = <<>> /\ heard = <<>> /\ short = FALSE
    /\ doomed = FALSE /\ mayDrop = FALSE

Becomes(l, p) == phase' = [phase EXCEPT ![l] = p]

\* The reports have 64 bytes, and 32 once the UART was answered.
Report(data) == [size |-> IF short THEN 32 ELSE 64, data |-> data]

Ask(l) == /\ phase[l] = "none" /\ Becomes(l, "asked")
          /\ UNCHANGED <<box, heard, short, doomed, mayDrop>>

\* The echo of 0xEE is put into the box if it is free.
Serve(l, c) ==
    /\ phase[l] = "asked" /\ phase["usb"] # "answered" /\ \A k \in Links : phase[k] \notin Ops
    /\ Becomes(l, c)
    /\ IF c = "EGG" THEN doomed' = TRUE /\ box' = (IF box = <<>> THEN Report(Echo) ELSE box)
                    ELSE UNCHANGED <<box, doomed>>
    /\ UNCHANGED <<heard, short, mayDrop>>

\* One or more copies of the first byte of an answer.
AnswerUart ==
    /\ phase["uart"] \in Ops /\ Becomes("uart", "answered")
    /\ heard' # <<>>
    /\ \E a \in Answers[phase["uart"]] : \A i \in DOMAIN heard' : heard'[i] = a[1]
    /\ short' = TRUE /\ mayDrop' = TRUE
    /\ UNCHANGED <<box, doomed>>

Hear ==
    /\ phase["uart"] = "answered" /\ Becomes("uart", "none") /\ heard' = <<>>
    /\ UNCHANGED <<box, short, doomed, mayDrop>>

AnswerUsb ==
    /\ phase["usb"] \in Ops /\ box = <<>>
    /\ \E a \in Answers[phase["usb"]] : box' = Report(a)
    /\ Becomes("usb", "answered")
    /\ UNCHANGED <<heard, short, doomed, mayDrop>>

Fetch ==
    /\ box # <<>> /\ box' = <<>>
    /\ IF phase["usb"] = "answered" THEN Becomes("usb", "none") ELSE doomed /\ UNCHANGED phase
    /\ UNCHANGED <<heard, short, doomed, mayDrop>>

\* One command at most; one that comes later is not dropped.
Drop ==
    /\ mayDrop /\ phase["usb"] = "asked" /\ Becomes("usb", "none")
    /\ mayDrop' = FALSE /\ UNCHANGED <<box, heard, short, doomed>>

Expire == mayDrop /\ mayDrop' = FALSE /\ UNCHANGED <<phase, box, heard, short, doomed>>

\* An echo nobody has fetched yet takes the place of an answer.
Unanswered ==
    /\ doomed /\ box # <<>> /\ phase["usb"] \in Ops /\ Becomes("usb", "none")
    /\ UNCHANGED <<box, heard, short, doomed, mayDrop>>

Restart ==
    /\ doomed /\ doomed' = FALSE /\ mayDrop' = FALSE
    /\ phase' = [l \in Links |-> "none"] /\ box' = <<>> /\ heard' = <<>> /\ short' = FALSE

ServiceNext ==
    \/ \E l \in Links : Ask(l) \/ \E c \in Ops : Serve(l, c)
    \/ AnswerUart \/ Hear \/ AnswerUsb \/ Fetch \/ Drop \/ Expire \/ Unanswered \/ Restart

ServiceSpec == ServiceInit /\ [][ServiceNext]_serviceVars
=============================================================================
