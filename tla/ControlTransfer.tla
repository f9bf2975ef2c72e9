--------------------------- MODULE ControlTransfer ---------------------------
(***************************************************************************)
(* Endpoint 0 of the USB device: the requests and the three stages of a    *)
(* control transfer (src/USBDevice/USBDevice/USBDevice.cpp), the HID       *)
(* requests (src/USBDevice/USBHID/USBHID.cpp) and the part of usbisr that  *)
(* serves endpoint 0 (src/USBDevice/USBDevice/USBHAL_LPC11U.cpp).  The     *)
(* controller moves packets whenever the host asks, and takes a SETUP      *)
(* packet at any time, also in the middle of the interrupt handler.        *)
(***************************************************************************)
EXTENDS Integers, Sequences, FiniteSetsExt

CONSTANTS Descriptor,   \* the lengths of the descriptors the device has
          Requests,     \* the requests of the host: see Request
          ReportLength, \* what SET_REPORT must bring: sizeof(outputReport.data) - 1
          MaxPacket,    \* MAX_PACKET_SIZE_EP0
          Byte,         \* device.configuration is a uint8_t: 256
          MaxAborts     \* bound: transfers the host gives up, and bus resets

\* SET_FEATURE and CLEAR_FEATURE are those of ENDPOINT_HALT, and the descriptor
\* of the HID class has a name of its own; any other feature, descriptor or
\* request that always fails is "OTHER".
Request == [name : {"GET_DESCRIPTOR", "GET_HID_DESCRIPTOR", "GET_STATUS", "GET_CONFIGURATION", "GET_INTERFACE",
                    "SET_ADDRESS", "SET_CONFIGURATION", "SET_INTERFACE", "SET_FEATURE",
                    "CLEAR_FEATURE", "SET_REPORT", "OTHER"},
            dir : {"in", "out"}, value : Nat, wIndex : Nat, wLength : Nat]

ASSUME ControlAssumption ==
    /\ Descriptor \subseteq Nat \ {0} /\ Requests \subseteq Request
    /\ MaxPacket \in Nat \ {0} /\ Byte \in Nat \ {0} /\ MaxAborts \in Nat

\* A report is shorter than a packet: 63 bytes and 64.
ASSUME ReportAssumption == ReportLength \in 1..(MaxPacket - 1)

VARIABLES state, configuration,   \* device
          transfer,               \* what controlSetup keeps of the transfer
          notified,               \* USBCallback_requestCompleted was called
          epIn, epOut,            \* ep[0].in[0] and ep[0].out[0]
          setup, flag,            \* ct->setup, SETUP of DEVCMDSTAT
          intOut, intIn,          \* INTSTAT of EP0OUT and EP0IN
          isr,                    \* usbisr: where it is in the branch of EP0OUT
          phase, req, got, sent,  \* host: stage, request, bytes received and sent
          valid,                  \* host: the request is one the device supports
          raced,                  \* its SETUP came into the branch of EP0OUT
          aborts

device == <<state, configuration>>
list == <<epIn, epOut>>
host == <<phase, req, got, sent, valid, raced, aborts>>
vars == <<device, transfer, notified, list, setup, flag, intOut, intIn, isr, host>>

NoRequest == [name |-> "OTHER", dir |-> "out", value |-> 0, wIndex |-> 0, wLength |-> 0]

\* The direction before a request sets it is HOST_TO_DEVICE, which is 0.
NoTransfer == [setup |-> NoRequest, success |-> FALSE, ptr |-> 0, remaining |-> 0,
               direction |-> "out", zlp |-> FALSE, notify |-> FALSE]

\* An entry of the list: its bits, and of an IN packet the bytes ptr + 1 ... ptr + n,
\* of an OUT packet the number n read, MAX_PACKET_SIZE_EP0 less what remains:
\* an entry that was cleared or stalled reads as a full packet.
Entry == [is : {"idle", "active", "stall"}, ptr : Nat, n : 0..MaxPacket]
Cleared == [is |-> "idle", ptr |-> 0, n |-> MaxPacket]
Stalled == [is |-> "stall", ptr |-> 0, n |-> MaxPacket]

Init ==
    /\ state = "powered" /\ configuration = 0 /\ transfer = NoTransfer /\ notified = 0
    /\ epIn = Cleared /\ epOut = Cleared /\ setup = NoRequest /\ flag = FALSE
    /\ intOut = FALSE /\ intIn = FALSE /\ isr = "none"
    /\ phase = "idle" /\ req = NoRequest /\ got = <<>> /\ sent = 0
    /\ valid = FALSE /\ raced = FALSE /\ aborts = 0

-----------------------------------------------------------------------------
(* The descriptors that follow the configuration descriptor, in one array. *)

CONFIGURATION_DESCRIPTOR_LENGTH == 9
INTERFACE_DESCRIPTOR_LENGTH == 9
HID_DESCRIPTOR_LENGTH == 9
CONFIGURATION_DESCRIPTOR == 2
HID_DESCRIPTOR == 33

configurationDesc ==
    << 9,  2,  41, 0, 1, 1, 0, 192, 0,      \* configuration, wTotalLength = 41
       9,  4,   0, 0, 2, 3, 0,   0, 0,      \* interface
       9, 33,  17, 1, 0, 1, 34, 28, 0,      \* HID, with a report descriptor of 28 bytes
       7,  5, 129, 3, 64, 0, 1,             \* endpoint EPINT_IN
       7,  5,   1, 3, 64, 0, 1 >>           \* endpoint EPINT_OUT

\* A pointer into the array is the offset of a byte.
bLength(p) == configurationDesc[p + 1]
bDescriptorType(p) == configurationDesc[p + 2]
wTotalLength == configurationDesc[3] + 256 * configurationDesc[4]
Null == 0

findDescriptor(type) ==
    LET walk[p \in 0..(wTotalLength - 1)] ==
            IF bDescriptorType(p) = type THEN p
            ELSE IF p + bLength(p) < wTotalLength THEN walk[p + bLength(p)] ELSE Null
    IN IF \/ bLength(0) # CONFIGURATION_DESCRIPTOR_LENGTH
          \/ bDescriptorType(0) # CONFIGURATION_DESCRIPTOR
          \/ wTotalLength <= CONFIGURATION_DESCRIPTOR_LENGTH + 2
       THEN Null ELSE walk[CONFIGURATION_DESCRIPTOR_LENGTH]

-----------------------------------------------------------------------------
(* The requests: what they make of the transfer, and whether they succeed. *)

Sends(t, n) == [t EXCEPT !.remaining = n, !.direction = "in", !.success = TRUE]
Succeeds(t) == [t EXCEPT !.success = TRUE]
SucceedsIf(p, t) == IF p THEN Succeeds(t) ELSE t

\* Not configured: "Endpoint or interface must be zero".
Addressable(t) == state = "configured" \/ t.setup.wIndex = 0

requestGetDescriptor(t) == IF t.setup.value \in Descriptor THEN Sends(t, t.setup.value) ELSE t
requestGetStatus(t) == IF Addressable(t) THEN Sends(t, 2) ELSE t
requestFeature(t) == SucceedsIf(Addressable(t), t)
requestGetConfiguration(t) == Sends(t, 1)
requestGetInterface(t) == IF state = "configured" THEN Sends(t, 1) ELSE t
requestSetAddress(t) == Succeeds(t)

\* wValue is cut to a byte before it is looked at.
Chosen(r) == r.value % Byte
requestSetConfiguration(t) == SucceedsIf(Chosen(t.setup) \in {0, 1}, t)

\* The class has no alternate settings: this is the callback of USBDevice.
USBCallback_setInterface == FALSE
requestSetInterface(t) == SucceedsIf(USBCallback_setInterface, t)

\* What the class takes from the standard requests.
USBCallback_request(t) ==
    LET hidDescriptor == findDescriptor(HID_DESCRIPTOR) IN
    CASE t.setup.name = "SET_REPORT" ->
            [Succeeds(t) EXCEPT !.remaining = ReportLength, !.direction = "out", !.notify = TRUE]
      [] t.setup.name = "GET_HID_DESCRIPTOR" /\ hidDescriptor # Null ->
            [Sends(t, HID_DESCRIPTOR_LENGTH) EXCEPT !.ptr = hidDescriptor]
      [] OTHER -> t

requestSetup(t) ==
    CASE t.setup.name = "GET_DESCRIPTOR" -> requestGetDescriptor(t)
      [] t.setup.name = "GET_STATUS" -> requestGetStatus(t)
      [] t.setup.name = "GET_CONFIGURATION" -> requestGetConfiguration(t)
      [] t.setup.name = "GET_INTERFACE" -> requestGetInterface(t)
      [] t.setup.name = "SET_ADDRESS" -> requestSetAddress(t)
      [] t.setup.name = "SET_CONFIGURATION" -> requestSetConfiguration(t)
      [] t.setup.name = "SET_INTERFACE" -> requestSetInterface(t)
      [] t.setup.name \in {"SET_FEATURE", "CLEAR_FEATURE"} -> requestFeature(t)
      [] t.setup.name \in {"SET_REPORT", "GET_HID_DESCRIPTOR"} -> USBCallback_request(t)
      [] OTHER -> t

\* The device state changes before the sizes are checked.
StateAfter(r) ==
    CASE r.name = "SET_ADDRESS" -> IF r.value = 0 THEN "default" ELSE "address"
      [] r.name = "SET_CONFIGURATION" /\ Chosen(r) = 0 -> "address"
      [] r.name = "SET_CONFIGURATION" /\ Chosen(r) = 1 -> "configured"
      [] OTHER -> state
ConfigurationAfter(r) == IF r.name = "SET_CONFIGURATION" THEN Chosen(r) ELSE configuration

\* A halt of endpoint 0 OUT sets or clears S in its own entry; endpoint 0 IN is
\* armed after that.  No endpoint number is checked: others halt an entry of
\* HidReports or, behind the list, write to the padding or to the buffers ct->out
\* and ct->in, whose bytes are not told apart here.
OutAfter(r) ==
    CASE r.name = "SET_FEATURE" /\ r.wIndex = 0 -> [epOut EXCEPT !.is = "stall"]
      [] r.name = "CLEAR_FEATURE" /\ r.wIndex = 0 -> Cleared
      [] OTHER -> epOut

\* "Check transfer size and direction".
\* Mutant: the size of a report off by one.
AcceptableMore(t) ==
    IF t.setup.wLength = 0 THEN t.remaining = 0
    ELSE t.direction = t.setup.dir /\ (t.direction = "out" => t.remaining < t.setup.wLength)
Acceptable(t) ==
    IF t.setup.wLength = 0 THEN t.remaining = 0
    ELSE t.direction = t.setup.dir /\ (t.direction = "out" => t.remaining = t.setup.wLength)

\* "Transfer must be less than or equal to the size requested by the host".
Limited(t) == IF t.remaining > t.setup.wLength THEN t.setup.wLength ELSE t.remaining

\* "Check if we'll need to send a zero length packet".
\* Mutant: never.
ZlpNever(t) == FALSE
Zlp(t) == t.setup.wLength > Limited(t) /\ Limited(t) % MaxPacket = 0

-----------------------------------------------------------------------------
(* The stages of a transfer, as operators on the device's part.            *)

EP0read == epOut' = [is |-> "active", ptr |-> 0, n |-> 0]
EP0write(p, n) == epIn' = [is |-> "active", ptr |-> p, n |-> n]
EP0stall == epIn' = Stalled /\ epOut' = Stalled

\* Mutant: every packet is full.
ChunkFull(t) == MaxPacket
Chunk(t) == IF t.remaining > MaxPacket THEN MaxPacket ELSE t.remaining
\* Mutant: the same bytes again.
AdvanceInPlace(t, n) == [t EXCEPT !.remaining = @ - n]
Advance(t, n) == [t EXCEPT !.ptr = @ + n, !.remaining = @ - n]

\* The data IN stage sends the next packet.
SendNext(t) == EP0write(t.ptr, Chunk(t)) /\ transfer' = Advance(t, Chunk(t))

controlSetup ==
    LET t == requestSetup([NoTransfer EXCEPT !.setup = setup])
        u == [t EXCEPT !.remaining = Limited(t), !.zlp = Zlp(t)]
    IN /\ state' = StateAfter(setup) /\ configuration' = ConfigurationAfter(setup)
       /\ notified' = 0
       /\ IF ~t.success \/ ~Acceptable(t) THEN EP0stall /\ transfer' = t
          ELSE IF setup.wLength = 0
          THEN EP0write(0, 0) /\ transfer' = t /\ epOut' = OutAfter(setup)
          ELSE IF setup.dir = "in" THEN SendNext(u) /\ UNCHANGED epOut
          ELSE EP0read /\ transfer' = t /\ UNCHANGED epIn

\* The IN stage, also of a transfer that is over.
controlIn ==
    IF transfer.remaining = 0
    THEN /\ IF transfer.zlp THEN EP0write(0, 0) ELSE UNCHANGED epIn
         /\ EP0read
         /\ notified' = IF transfer.notify THEN notified + 1 ELSE notified
         /\ transfer' = [transfer EXCEPT !.zlp = FALSE, !.notify = FALSE]
    ELSE /\ UNCHANGED notified
         /\ IF transfer.direction = "in" THEN SendNext(transfer) /\ UNCHANGED epOut
            ELSE EP0stall /\ UNCHANGED transfer

\* The OUT stage: epOut.n bytes were read.

controlOut ==
    IF transfer.direction # "out" \/ epOut.n > transfer.remaining
    THEN EP0stall /\ UNCHANGED <<transfer, notified>>
    ELSE LET t == Advance(transfer, epOut.n) IN
         IF t.remaining = 0
         THEN /\ notified' = IF t.notify THEN notified + 1 ELSE notified
              /\ transfer' = [t EXCEPT !.notify = FALSE]
              /\ EP0write(0, 0) /\ UNCHANGED epOut
         ELSE EP0read /\ transfer' = t /\ UNCHANGED <<epIn, notified>>

-----------------------------------------------------------------------------
(* usbisr.  The branch of EP0OUT clears its interrupt, looks for a SETUP   *)
(* packet and, if there is one, clears its flag before it is read.         *)

IsrOut ==
    /\ isr = "none" /\ intOut
    /\ intOut' = FALSE /\ isr' = "test"
    /\ UNCHANGED <<device, transfer, notified, list, setup, flag, intIn, host>>

IsrSetup ==
    /\ isr = "test" /\ flag
    /\ epIn' = Cleared /\ epOut' = Cleared
    /\ intIn' = FALSE /\ flag' = FALSE /\ isr' = "setup"
    /\ UNCHANGED <<device, transfer, notified, setup, intOut, host>>

EP0setupCallback ==
    /\ isr = "setup" /\ isr' = "none"
    /\ controlSetup
    /\ UNCHANGED <<setup, flag, intOut, intIn, host>>

EP0out ==
    /\ isr = "test" /\ ~flag /\ isr' = "none"
    /\ controlOut
    /\ UNCHANGED <<device, setup, flag, intOut, intIn, host>>

EP0in ==
    /\ isr = "none" /\ intIn
    /\ intIn' = FALSE
    /\ controlIn
    /\ UNCHANGED <<device, setup, flag, intOut, isr, host>>

usbisr == IsrOut \/ IsrSetup \/ EP0setupCallback \/ EP0out \/ EP0in

-----------------------------------------------------------------------------
(* The host and the controller.                                            *)

Finished == phase \in {"idle", "ok", "stalled"}

\* What the device has to send in reply to a request, and whether it supports it.
Response(r) == CASE r.name = "GET_DESCRIPTOR" -> r.value
                 [] r.name = "GET_HID_DESCRIPTOR" -> HID_DESCRIPTOR_LENGTH
                 [] r.name = "GET_STATUS" -> 2
                 [] r.name \in {"GET_CONFIGURATION", "GET_INTERFACE"} -> 1
                 [] OTHER -> 0

\* Where the response lies: the HID descriptor follows that of the interface.
Base(r) == IF r.name = "GET_HID_DESCRIPTOR"
           THEN CONFIGURATION_DESCRIPTOR_LENGTH + INTERFACE_DESCRIPTOR_LENGTH ELSE 0

Supported(r) ==
    \/ r.name = "GET_DESCRIPTOR" /\ r.value \in Descriptor
    \/ r.name \in {"GET_STATUS", "SET_FEATURE", "CLEAR_FEATURE"} /\ (state = "configured" \/ r.wIndex = 0)
    \/ r.name = "GET_INTERFACE" /\ state = "configured"
    \/ r.name = "SET_CONFIGURATION" /\ Chosen(r) < 2
    \/ r.name \in {"GET_HID_DESCRIPTOR", "GET_CONFIGURATION", "SET_ADDRESS", "SET_REPORT"}

Valid(r) ==
    /\ Supported(r)
    /\ CASE r.name = "SET_REPORT" -> r.dir = "out" /\ r.wLength = ReportLength
         [] Response(r) > 0 -> r.dir = "in" /\ r.wLength > 0
         [] OTHER -> r.wLength = 0

\* A SETUP packet is always taken once the bus was reset.  It ends a transfer the host gives up or
\* tries again; the interrupt may come while the last one is being served.
Setup(r) ==
    /\ state # "powered"
    /\ Finished \/ aborts < MaxAborts
    /\ aborts' = IF Finished THEN aborts ELSE aborts + 1
    /\ setup' = r /\ flag' = TRUE /\ intOut' = TRUE
    /\ req' = r /\ got' = <<>> /\ sent' = 0
    /\ phase' = IF r.wLength > 0 THEN "data" ELSE "status"
    /\ valid' = Valid(r) /\ raced' = (isr = "test")
    /\ UNCHANGED <<device, transfer, notified, list, intIn, isr>>

\* The controller answers no token while a SETUP packet waits.
InToken ==
    /\ ~flag /\ epIn.is = "active"
    /\ epIn' = Cleared /\ intIn' = TRUE
    /\ \/ /\ phase = "data" /\ req.dir = "in"
          /\ got' = got \o [i \in 1..epIn.n |-> epIn.ptr + i]
          /\ phase' = IF epIn.n < MaxPacket \/ Len(got) + epIn.n >= req.wLength
                      THEN "status" ELSE "data"
       \/ /\ phase = "status" /\ (req.dir = "out" \/ req.wLength = 0)
          /\ phase' = (IF epIn.n = 0 THEN "ok" ELSE "stalled") /\ UNCHANGED got
    /\ UNCHANGED <<device, transfer, notified, epOut, setup, flag, intOut, isr,
                   req, sent, valid, raced, aborts>>

Took(n) == [is |-> "idle", ptr |-> 0, n |-> n]

OutToken ==
    /\ ~flag /\ epOut.is = "active"
    /\ intOut' = TRUE
    /\ \/ /\ phase = "data" /\ req.dir = "out"
          /\ LET n == Min({MaxPacket, req.wLength - sent}) IN
             /\ epOut' = Took(n) /\ sent' = sent + n
             /\ phase' = IF sent' = req.wLength THEN "status" ELSE "data"
       \/ /\ phase = "status" /\ req.dir = "in" /\ req.wLength > 0
          /\ epOut' = Took(0) /\ phase' = "ok" /\ UNCHANGED sent
    /\ UNCHANGED <<device, transfer, notified, epIn, setup, flag, intIn, isr,
                   req, got, valid, raced, aborts>>

\* The host's token is an IN token: the data of an IN transfer, the status of others.
AsksIn == (phase = "data") = (req.dir = "in" /\ req.wLength > 0)

\* The token of the stage meets a stall.
StallToken ==
    /\ ~flag /\ phase \in {"data", "status"}
    /\ (IF AsksIn THEN epIn ELSE epOut).is = "stall"
    /\ phase' = "stalled"
    /\ UNCHANGED <<device, transfer, notified, list, setup, flag, intOut, intIn, isr,
                   req, got, sent, valid, raced, aborts>>

Token == InToken \/ OutToken \/ StallToken

\* A buffer that is not armed answers NAK, and the host asks again.
Nak ==
    /\ ~flag /\ phase \in {"data", "status"}
    /\ (IF AsksIn THEN epIn ELSE epOut).is = "idle"
    /\ UNCHANGED vars

\* busReset.  The list and the transfer of endpoint 0 stay as they are.
BusReset ==
    /\ isr = "none"
    /\ \/ state = "powered" /\ UNCHANGED aborts
       \/ state # "powered" /\ aborts < MaxAborts /\ aborts' = aborts + 1
    /\ state' = "default" /\ configuration' = 0 /\ phase' = "idle"
    /\ UNCHANGED <<transfer, notified, list, setup, flag, intOut, intIn, isr,
                   req, got, sent, valid, raced>>

Next == usbisr \/ (\E r \in Requests : Setup(r)) \/ Token \/ Nak \/ BusReset

Spec == Init /\ [][Next]_vars

(* A pending interrupt is served; a host that began a transfer goes on     *)
(* with it or ends it.                                                     *)
FairSpec == Spec /\ WF_vars(usbisr) /\ WF_vars(Token)

-----------------------------------------------------------------------------
(* Properties.                                                             *)

TypeOK ==
    /\ state \in {"powered", "default", "address", "configured"} /\ configuration \in Nat
    /\ transfer.remaining \in Nat /\ transfer.ptr \in Nat
    /\ epIn \in Entry /\ epOut \in Entry
    /\ isr \in {"none", "test", "setup"}
    /\ phase \in {"idle", "data", "status", "ok", "stalled"}

\* A transfer that ends well did what was asked, whatever was aborted before
\* it: the host has the bytes of the response in order and from the first on,
\* as many as there are and it wanted; a report was handed to the class once.
DataStageExact ==
    phase = "ok" =>
        /\ valid
        /\ req.dir = "in" =>
              got = [i \in 1..Min({req.wLength, Response(req)}) |-> Base(req) + i]
        /\ req.name = "SET_REPORT" => sent = ReportLength /\ notified = 1

\* A request the device supports is not stalled, unless its SETUP packet came
\* between the two statements of usbisr that clear the interrupt
\* (src/USBDevice/USBDevice/USBHAL_LPC11U.cpp:645) and the SETUP flag (:661).
SupportedNotStalled == phase = "stalled" /\ valid => raced

\* Every transfer the host begins comes to an end: no stage waits for a buffer
\* nobody fills or arms, after any aborted transfer or bus reset.
TransferEnds == phase \in {"data", "status"} ~> Finished
=============================================================================
