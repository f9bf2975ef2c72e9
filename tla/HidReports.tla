----------------------------- MODULE HidReports -----------------------------
(***************************************************************************)
(* The report endpoints of the USB HID device: readNB and send             *)
(* (src/USBDevice/USBHID/USBHID.cpp) over the endpoint calls of            *)
(* USBDevice.cpp and USBHAL_LPC11U.cpp.  Three parties share the endpoint  *)
(* command/status list in USB RAM:                                         *)
(*                                                                         *)
(*   - main, which calls readNB and send, a statement at a time;           *)
(*   - the interrupt usbisr, which notes completions and serves bus        *)
(*     resets and the requests of endpoint 0;                              *)
(*   - the USB controller, which fills and empties the buffers whenever    *)
(*     the host asks.                                                      *)
(*                                                                         *)
(* Both endpoints are double buffered: EPINUSE names the buffer the        *)
(* controller uses next.  A report is the number of the command in it.     *)
(* Of the rest of main, as in MainLoop.tla, there is only what it does to  *)
(* a report: a pass that served the UART drops it.                         *)
(***************************************************************************)
EXTENDS Integers, Sequences

CONSTANTS Command,     \* bound: the commands a host asks, told apart by a number
          MaxLosses    \* bound: bus resets and reports dropped in a behaviour

ASSUME HidAssumption == Command \subseteq Nat \ {0} /\ MaxLosses \in Nat

VARIABLES out, in,           \* ep[1].out and ep[1].in: A, S and D of each buffer
          outUse, inUse,     \* EPINUSE of the two endpoints
          ctOut,             \* the command in ct->out, where all OUT data go
          inData,            \* the reports in the two IN buffers
          intOut,            \* INTSTAT of EP1OUT
          complete,          \* epComplete of EP1OUT
          state,             \* device.state
          pc,                \* main: its next statement
          bf,                \* main: the local variable of the endpoint calls
          read,              \* main: what endpointReadResult returned
          parsed,            \* main: UART_PacketParsed
          report,            \* main: recv_report, then the reply to it
          waiting,           \* host: "no", or for its turn to "send", or for a "reply"
          halted,            \* host: the endpoints it has halted
          asked, got,        \* host: as in ReportPipe
          dropped,           \* host: main has dropped the report it waits for
          settled,           \* main has found no report since the configuration
          losses             \* bus resets and dropped reports so far

list == <<out, in, outUse, inUse>>
device == <<list, ctOut, inData, intOut, complete, state>>
main == <<pc, bf, read, parsed, report>>
host == <<waiting, halted, asked, got, dropped, settled, losses>>
vars == <<device, main, host>>

Buffer == {0, 1}
Clear == [b \in Buffer |-> {}]

\* `of' is the command a report belongs to, `data' the one whose bytes it holds.
Empty == [of |-> 0, data |-> 0]

-----------------------------------------------------------------------------
(* The constructor of USBHID returns once the device is configured.        *)

Init ==
    /\ out = [Clear EXCEPT ![0] = {"A"}] /\ in = Clear
    /\ outUse = 0 /\ inUse = 0 /\ ctOut = 0 /\ inData = [b \in Buffer |-> Empty]
    /\ intOut = FALSE /\ complete = FALSE /\ state = "configured"
    /\ pc = "wait" /\ bf = 0 /\ read = FALSE /\ parsed = FALSE /\ report = Empty
    /\ waiting = "no" /\ halted = {} /\ asked = <<>>
    /\ got = [of |-> 0, data |-> 0, turn |-> 0]
    /\ dropped = FALSE /\ settled = TRUE /\ losses = 0

configured == state = "configured"

-----------------------------------------------------------------------------
(* Main.  It does not run while an interrupt is served.                    *)

At(s) == pc = s /\ ~intOut
Goto(s) == pc' = s

\* readNB: readEP_NB, with endpointReadResult in four statements.  Before it main
\* may have served a UART command, which emptied the reports ...
ReadEP_NB ==
    /\ At("wait")
    /\ \E uart \in BOOLEAN :
          /\ uart => losses < MaxLosses
          /\ parsed' = uart /\ report' = IF uart THEN Empty ELSE report
    /\ read' = FALSE
    /\ Goto(IF configured THEN "result" ELSE "use")
    /\ UNCHANGED <<device, bf, host>>

ReadResult ==
    /\ At("result")
    /\ Goto(IF complete THEN "clear" ELSE "use")
    /\ settled' = (settled \/ ~complete)
    /\ UNCHANGED <<device, bf, read, parsed, report,
                   waiting, halted, asked, got, dropped, losses>>

\* epComplete &= ~EP(endpoint): what the interrupt sets after the test is lost.
\* Mutant: it stays.
CompleteKept == complete
CompleteAfterRead == FALSE

ReadComplete ==
    /\ At("clear")
    /\ complete' = CompleteAfterRead /\ read' = TRUE /\ Goto("which")
    /\ UNCHANGED <<list, ctOut, inData, intOut, state, bf, parsed, report, host>>

\* "Here we read the previous buffer which was used".
\* Mutant: the wrong way around the two buffers.
OtherUp(b) == b + 1
Other(b) == 1 - b

ReadWhich ==
    /\ At("which")
    /\ bf' = Other(outUse) /\ Goto("copy")
    /\ UNCHANGED <<device, read, parsed, report, host>>

\* An active buffer still expects all its bytes: nothing is copied, and what was
\* in recv_report stays.
ReadCopy ==
    /\ At("copy")
    /\ report' = [of |-> ctOut, data |-> IF "A" \notin out[bf] THEN ctOut ELSE report.data]
    /\ Goto("use")
    /\ UNCHANGED <<device, bf, read, parsed, host>>

\* ... and readStart, whatever readEP_NB returned: a load and a store.
ReadStart ==
    /\ At("use")
    /\ bf' = outUse /\ Goto("arm")
    /\ UNCHANGED <<device, read, parsed, report, host>>

\* Mutant: the endpoint is armed only if a report was taken from it.
ArmedIfRead(o) == IF read THEN [o EXCEPT ![bf] = {"A"}] ELSE o
Armed(o) == [o EXCEPT ![bf] = {"A"}]

\* Then && !UART_PacketParsed: a report that was read may be dropped here.
Dropping == read /\ parsed /\ waiting = "reply"

EndpointRead ==
    /\ At("arm")
    /\ out' = Armed(out)
    /\ Goto(IF read /\ ~parsed THEN "serve" ELSE "wait")
    /\ dropped' = (dropped \/ Dropping)
    /\ losses' = IF Dropping THEN losses + 1 ELSE losses
    /\ UNCHANGED <<in, outUse, inUse, ctOut, inData, intOut, complete, state,
                   bf, read, parsed, report, waiting, halted, asked, got, settled>>

\* The dispatcher, which leaves the command in the reply.
Dispatch ==
    /\ At("serve") /\ Goto("write")
    /\ UNCHANGED <<device, bf, read, parsed, report, host>>

\* send: USBDevice::write, with endpointWrite in two statements.
Write ==
    /\ At("write")
    /\ bf' = inUse
    /\ Goto(IF configured /\ in[inUse] \cap {"A", "S"} = {} THEN "go" ELSE "empty")
    /\ UNCHANGED <<device, read, parsed, report, host>>

EndpointWrite ==
    /\ At("go")
    /\ inData' = [inData EXCEPT ![bf] = report]
    /\ in' = [in EXCEPT ![bf] = {"A"}]
    /\ Goto("pend")
    /\ UNCHANGED <<out, outUse, inUse, ctOut, intOut, complete, state,
                   bf, read, parsed, report, host>>

\* "Wait for completion": endpointWriteResult looks at the buffer in use.
WriteResult ==
    /\ At("pend")
    /\ "A" \notin in[inUse] \/ ~configured
    /\ Goto("empty")
    /\ UNCHANGED <<device, bf, read, parsed, report, host>>

\* "0xFF unused bytes", and the idle time of the main loop.
EmptyReports ==
    /\ At("empty")
    /\ report' = Empty /\ Goto("wait")
    /\ UNCHANGED <<device, bf, read, parsed, host>>

Call ==
    \/ ReadResult \/ ReadComplete \/ ReadWhich \/ ReadCopy \/ ReadStart \/ EndpointRead
    \/ Write \/ EndpointWrite \/ WriteResult \/ EmptyReports

Main == ReadEP_NB \/ Call \/ Dispatch

-----------------------------------------------------------------------------
(* The interrupt, and the requests it serves.                              *)

usbisr ==
    /\ intOut
    /\ intOut' = FALSE /\ complete' = TRUE
    /\ UNCHANGED <<list, ctOut, inData, state, main, host>>

AllLost == [i \in DOMAIN asked |-> [asked[i] EXCEPT !.lost = TRUE]]

\* DRES_C: disableEndpoints and busReset.  epComplete stays.
BusReset ==
    /\ losses < MaxLosses
    /\ losses' = losses + 1
    /\ out' = [b \in Buffer |-> {"D"}] /\ in' = [b \in Buffer |-> {"D"}]
    /\ state' = "default"
    /\ waiting' = "no" /\ halted' = {} /\ dropped' = FALSE
    /\ asked' = AllLost
    /\ UNCHANGED <<outUse, inUse, ctOut, inData, intOut, complete, main, got, settled>>

\* USBCallback_setConfiguration adds the endpoints and starts the first read.
\* Time assumptions: a reset and an enumeration take many milliseconds, and main is
\* not still in the middle of a call it was in before; a host configures a device
\* once after a reset.
SetConfiguration ==
    /\ ~configured /\ pc \in {"wait", "serve"}
    /\ out' = [Clear EXCEPT ![outUse] = {"A"}] /\ in' = Clear
    /\ state' = "configured" /\ settled' = FALSE
    /\ UNCHANGED <<outUse, inUse, ctOut, inData, intOut, complete, main,
                   waiting, halted, asked, got, dropped, losses>>

\* SET_FEATURE and CLEAR_FEATURE of ENDPOINT_HALT.
Halted(e) == [b \in Buffer |-> e[b] \cup {"S"}]

Halt ==
    /\ configured /\ waiting = "no"
    /\ \/ /\ "out" \notin halted /\ halted' = halted \cup {"out"}
          /\ out' = Halted(out) /\ UNCHANGED in
       \/ /\ "in" \notin halted /\ halted' = halted \cup {"in"}
          /\ in' = Halted(in) /\ UNCHANGED out
    /\ UNCHANGED <<outUse, inUse, ctOut, inData, intOut, complete, state, main,
                   waiting, asked, got, dropped, settled, losses>>

Unhalt ==
    /\ configured
    /\ \/ /\ "out" \in halted /\ halted' = halted \ {"out"}
          /\ out' = Clear /\ UNCHANGED in
       \/ /\ "in" \in halted /\ halted' = halted \ {"in"}
          /\ in' = Clear /\ UNCHANGED out
    /\ UNCHANGED <<outUse, inUse, ctOut, inData, intOut, complete, state, main,
                   waiting, asked, got, dropped, settled, losses>>

-----------------------------------------------------------------------------
(* The host and the controller.                                            *)

\* A host asks one command at a time.  After a configuration it takes its time
\* to open the device: main has come round and dealt with what it finds.
AskCommand ==
    /\ configured /\ waiting = "no" /\ halted = {} /\ settled
    /\ waiting' = "send"
    /\ UNCHANGED <<device, main, halted, asked, got, dropped, settled, losses>>

\* It sees no end of a command that was dropped and gives it up.
GiveUp ==
    /\ dropped /\ dropped' = FALSE
    /\ waiting' = "no" /\ asked' = AllLost
    /\ UNCHANGED <<device, main, halted, got, settled, losses>>

\* The number of a command is one that no unanswered command has.
Fresh(c) == c \in Command /\ \A i \in DOMAIN asked : asked[i].cmd # c

OutToken ==
    /\ configured /\ waiting = "send"
    /\ "A" \in out[outUse] /\ "S" \notin out[outUse]
    /\ \E n \in Command : Fresh(n)
    /\ LET c == CHOOSE n \in Command : Fresh(n) IN
       /\ ctOut' = c
       /\ asked' = Append(asked, [cmd |-> c, lost |-> FALSE])
    /\ out' = [out EXCEPT ![outUse] = @ \ {"A"}]
    /\ outUse' = 1 - outUse /\ intOut' = TRUE /\ waiting' = "reply"
    /\ UNCHANGED <<in, inUse, inData, complete, state, main,
                   halted, got, dropped, settled, losses>>

\* The host polls the IN endpoint; it takes what comes for the reply.
\* Commands before the one that is answered were lost.
After(i) == SubSeq(asked, i + 1, Len(asked))
InToken ==
    /\ configured
    /\ "A" \in in[inUse] /\ "S" \notin in[inUse]
    /\ LET r == inData[inUse] IN
       /\ got' = [of |-> r.of, data |-> r.data, turn |-> 1 - got.turn]
       /\ IF \E i \in DOMAIN asked : asked[i].cmd = r.of
          THEN asked' = After(CHOOSE i \in DOMAIN asked : asked[i].cmd = r.of)
          ELSE UNCHANGED asked
    /\ waiting' = IF waiting = "reply" THEN "no" ELSE waiting
    /\ in' = [in EXCEPT ![inUse] = @ \ {"A"}]
    /\ inUse' = 1 - inUse
    /\ UNCHANGED <<out, outUse, ctOut, inData, intOut, complete, state, main,
                   halted, dropped, settled, losses>>

-----------------------------------------------------------------------------
Next ==
    \/ Main \/ usbisr
    \/ BusReset \/ SetConfiguration \/ Halt \/ Unhalt
    \/ AskCommand \/ GiveUp \/ OutToken \/ InToken

Spec == Init /\ [][Next]_vars

(* The calls go on, an interrupt that is pending is served, and a host     *)
(* that has something to send or to fetch tries again and again.  That     *)
(* main comes round and the dispatcher ends is not assumed: see ComesRound *)
(* in MainLoop.tla for the waits in them.                                  *)
FairSpec ==
    /\ Spec
    /\ WF_vars(Call) /\ WF_vars(usbisr) /\ WF_vars(OutToken) /\ WF_vars(InToken)
-----------------------------------------------------------------------------
(* Properties.                                                             *)

Reports == [of : Command \cup {0}, data : Command \cup {0}]
Flags == [Buffer -> SUBSET {"A", "S", "D"}]
Labels == {"wait", "result", "clear", "which", "copy", "use", "arm", "serve", "write", "go",
           "pend", "empty"}

\* The endpoint calls of src/USBDevice/USBDevice/USBHAL_LPC11U.cpp index the
\* two entries of an endpoint and none behind them.
TypeOK ==
    /\ out \in Flags /\ in \in Flags
    /\ outUse \in Buffer /\ inUse \in Buffer /\ bf \in Buffer
    /\ ctOut \in Command \cup {0} /\ inData \in [Buffer -> Reports]
    /\ intOut \in BOOLEAN /\ complete \in BOOLEAN /\ state \in {"default", "configured"}
    /\ pc \in Labels /\ read \in BOOLEAN /\ parsed \in BOOLEAN /\ report \in Reports
    /\ waiting \in {"no", "send", "reply"} /\ halted \subseteq {"out", "in"}
    /\ asked \in Seq([cmd : Command, lost : BOOLEAN])
    /\ got \in [of : Command \cup {0}, data : Command \cup {0}, turn : {0, 1}]
    /\ dropped \in BOOLEAN /\ settled \in BOOLEAN /\ losses \in Nat

\* When the host has an answer to everything it asked, neither endpoint, nor
\* the interrupt, nor main (src/main.cpp:233) holds a report that could be
\* taken for a command or for a reply later on.
NothingLeftOver ==
    asked = <<>> =>
        /\ ~intOut /\ ~complete
        /\ \A b \in Buffer : "A" \notin in[b]
        /\ pc \in {"wait", "result", "use", "arm", "pend", "empty"}
        /\ pc \in {"use", "arm"} => ~read
        /\ pc \notin {"pend", "empty"} => report.data = 0

\* The promise to the host (ReportPipe.tla): main and the endpoints answer no
\* command twice, none out of order, and invent none, through any halts and bus
\* resets at any statement of readNB and send, and any reports that are dropped.
\* What main serves for a command may be the bytes of one it dropped before.
Pipe == INSTANCE ReportPipe
ImplementsPipe == Pipe!PipeSpec

\* A host that asks a command gets an answer, unless it resets the bus, main drops
\* the report after a UART command (src/main.cpp:233), or main waits for ever in
\* another part of its loop or in the dispatcher: the endpoint is armed again after
\* every report, every halt and every reset.
CommandAnswered ==
    \/ waiting # "no" ~> waiting = "no" \/ dropped
    \/ <>[](pc = "wait") \/ <>[](pc = "serve")

-----------------------------------------------------------------------------
(* What a comment says and the code does not do.                           *)

\* "Data packet received, start parsing" (src/main.cpp:234): the report that is
\* dispatched holds the data of the packet received.
DispatchesData == pc = "serve" => report.data = report.of
=============================================================================
