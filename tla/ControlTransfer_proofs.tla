----------------------- MODULE ControlTransfer_proofs -----------------------
(***************************************************************************)
(* Theorems about control transfers, for every set of requests and         *)
(* descriptors, every size of a packet and any number of aborted           *)
(* transfers and bus resets.                                               *)
(***************************************************************************)
EXTENDS ControlTransfer, TLAPS

-----------------------------------------------------------------------------
(* The inductive invariant.  A live request waits until its SETUP packet   *)
(* is read, and is then refused, or served as one of three kinds.          *)

Transfer == [setup : Request, success : BOOLEAN, ptr : Nat, remaining : Nat,
             direction : {"in", "out"}, zlp : BOOLEAN, notify : BOOLEAN]

ShapeOK ==
    /\ TypeOK
    /\ transfer \in Transfer /\ req \in Request /\ setup = req
    /\ got \in Seq(Nat) /\ sent \in Nat /\ notified \in Nat
    /\ {flag, intOut, intIn, valid, raced} \subseteq BOOLEAN

Live == phase \in {"data", "status"}
Waiting == flag \/ isr = "setup"
Served == Live /\ ~Waiting

IsReport(r) == r.name = "SET_REPORT" /\ r.dir = "out" /\ r.wLength = ReportLength
IsRead(r) == Response(r) > 0 /\ r.dir = "in" /\ r.wLength > 0
IsNoData(r) == r.name # "SET_REPORT" /\ Response(r) = 0 /\ r.wLength = 0

KindOK == valid => IsReport(req) \/ IsRead(req) \/ IsNoData(req)

\* Until its SETUP packet is read, a request is as the host sent it; between
\* the two steps of the interrupt the list is clear.
WaitingOK ==
    /\ Live /\ Waiting => /\ valid = Valid(req) /\ got = <<>> /\ sent = 0
                          /\ phase = IF req.wLength > 0 THEN "data" ELSE "status"
    /\ isr = "setup" /\ ~flag => epIn = Cleared /\ epOut = Cleared /\ ~intIn

\* An interrupt of EP0OUT is left over only from the race.
RaceOK == intOut /\ (IF flag THEN isr = "test" ELSE isr = "setup") => raced

Quiet == ~intOut /\ isr # "test"

\* The race cannot revive a refused request: no OUT stage has room for the
\* full packet a stalled entry reads as.
RefusedOK ==
    Served /\ ~valid =>
        /\ epIn.is = "stall" /\ epOut.is = "stall" /\ epOut.n = MaxPacket /\ ~intIn
        /\ transfer.direction = "in" \/ transfer.remaining < MaxPacket

Wanted(r) == IF r.wLength < Response(r) THEN r.wLength ELSE Response(r)
Received == Base(req) + Len(got)

\* The pointer is where the host is, or one packet on.
ReadOK ==
    Served /\ valid /\ IsRead(req) =>
        /\ transfer.direction = "in"
        /\ transfer.ptr + transfer.remaining = Base(req) + Wanted(req)
        /\ got = [i \in 1..Len(got) |-> Base(req) + i] /\ Received <= transfer.ptr
        /\ phase = "data" /\ epIn.is = "active" =>
              /\ ~intIn /\ Received + epIn.n = transfer.ptr
              /\ epIn.n = 0 \/ epIn.ptr = Received
              /\ epIn.n < MaxPacket => transfer.remaining = 0
        /\ phase = "data" /\ intIn => transfer.ptr = Received
        /\ phase = "status" => Len(got) = Wanted(req)
        /\ ~raced => Quiet /\ epIn.is # "stall" /\ epOut.is # "stall"

NoDataOK ==
    Served /\ valid /\ IsNoData(req) =>
        /\ phase = "status" /\ got = <<>> /\ ~intIn /\ epOut.n = MaxPacket
        /\ transfer.direction = "out" /\ transfer.remaining = 0
        /\ epIn.is \in {"active", "stall"} /\ (epIn.is = "active" => epIn.n = 0)
        /\ ~raced => Quiet /\ epIn.is # "stall"

\* A report: expected, sent by the host, handed to the class, or stalled by the
\* race after that.
Expected ==
    /\ phase = "data" /\ sent = 0 /\ notified = 0
    /\ transfer.remaining = ReportLength /\ transfer.notify
    /\ epIn.is = "idle" /\ epOut.is = "active" /\ epOut.n = 0
    /\ ~raced => Quiet
Arrived ==
    /\ phase = "status" /\ sent = ReportLength /\ notified = 0
    /\ transfer.remaining = ReportLength /\ transfer.notify
    /\ epIn.is = "idle" /\ epOut.is = "idle" /\ epOut.n = ReportLength
    /\ ~raced => ~(intOut /\ isr = "test")
Handed ==
    /\ phase = "status" /\ sent = ReportLength /\ notified = 1
    /\ transfer.remaining = 0 /\ ~transfer.notify
    /\ \/ epIn.is = "active" /\ epIn.n = 0 /\ epOut.is = "idle" /\ epOut.n = ReportLength
       \/ raced /\ epIn.is = "stall" /\ epOut.is = "stall" /\ epOut.n = MaxPacket
    /\ ~raced => Quiet

ReportOK ==
    Served /\ valid /\ IsReport(req) =>
        /\ transfer.direction = "out" /\ ~intIn
        /\ Expected \/ Arrived \/ Handed

\* After a transfer that ended well nothing is handed to the class again.
OverOK ==
    /\ DataStageExact /\ SupportedNotStalled
    /\ phase = "ok" => ~Waiting /\ (req.name = "SET_REPORT" => ~transfer.notify)

IInv == /\ ShapeOK /\ KindOK /\ WaitingOK /\ RaceOK
        /\ RefusedOK /\ ReadOK /\ NoDataOK /\ ReportOK /\ OverOK

-----------------------------------------------------------------------------
(* What the requests make of the transfer.                                 *)

\* The walk over the configuration descriptor reaches the HID descriptor.  Two
\* bytes before the end of the array it would look behind it; no descriptor begins there.
LEMMA HidDescriptorFound == findDescriptor(HID_DESCRIPTOR) = 18
<1> DEFINE past == IF bDescriptorType(40) = HID_DESCRIPTOR THEN 40 ELSE Null
           f == [p \in 0..40 |-> IF p \in {0, 9, 18} THEN 18
                                 ELSE IF p \in {20, 35, 36, 37, 40} THEN past ELSE Null]
           Step(g) == [p \in 0..(wTotalLength - 1) |->
                         IF bDescriptorType(p) = HID_DESCRIPTOR THEN p
                         ELSE IF p + bLength(p) < wTotalLength THEN g[p + bLength(p)] ELSE Null]
           walk == CHOOSE g : g = Step(g)
<1>1. wTotalLength = 41
  BY SMT DEF wTotalLength, configurationDesc
<1>2. f = Step(f)
  <2>1. ASSUME NEW p \in 0..40
        PROVE  f[p] = Step(f)[p]
    <3> DEFINE next == p + bLength(p)
    <3>1. p < 40 => (bDescriptorType(p) = HID_DESCRIPTOR <=> p = 18)
      BY SMT DEF bDescriptorType, configurationDesc, HID_DESCRIPTOR
    <3>2. /\ next \in Nat
          /\ p \in {0, 9} => next \in {9, 18}
          /\ p \in {20, 35, 36, 37} => next \in {35, 36, 37, 40}
          /\ p = 40 => next = 41
          /\ p \notin {0, 9, 18, 20, 35, 36, 37, 40} =>
                next >= 41 \/ next \in 1..40 \ {9, 18, 20, 35, 36, 37, 40}
      BY SMT DEF bLength, configurationDesc
    <3>3. \A q \in 0..40 : f[q] = IF q \in {0, 9, 18} THEN 18
                                   ELSE IF q \in {20, 35, 36, 37, 40} THEN past ELSE Null
      BY Zenon
    <3>4. Step(f)[p] = IF bDescriptorType(p) = HID_DESCRIPTOR THEN p
                       ELSE IF next < 41 THEN f[next] ELSE Null
      <4>1. p \in 0..(wTotalLength - 1)
        BY <1>1, SMT
      <4> HIDE DEF f
      <4>2. QED
        BY <1>1, <4>1, Zenon
    <3>5. p = 40 => past = IF bDescriptorType(p) = HID_DESCRIPTOR THEN p ELSE Null
      BY Zenon
    <3> HIDE DEF f, Step, next, past
    <3>6. CASE p \in {18, 40}
      BY <3>1, <3>2, <3>3, <3>4, <3>5, <3>6, SMT
    <3>7. CASE p \notin {18, 40}
      <4>1. Step(f)[p] = IF next < 41 THEN f[next] ELSE Null
        BY <3>1, <3>4, <3>7, SMT
      <4>2. QED
        BY <3>2, <3>3, <3>7, <4>1, SMT
    <3>8. QED
      BY <3>6, <3>7
  <2>2. 0..(wTotalLength - 1) = 0..40
    BY <1>1, SMT
  <2>3. f = [p \in 0..40 |-> f[p]]
    BY Zenon
  <2> HIDE DEF f, past
  <2>4. Step(f) = [p \in 0..40 |-> Step(f)[p]]
    <3>1. Step(f) = [p \in 0..(wTotalLength - 1) |-> Step(f)[p]]
      BY Zenon
    <3> HIDE DEF Step
    <3>2. QED
      BY <2>2, <3>1, Zenon
  <2> HIDE DEF Step
  <2>5. QED
    BY <2>1, <2>3, <2>4, Zenon
<1>3. walk = Step(walk)
  BY <1>2, Zenon
<1>4. /\ bLength(0) = 9 /\ bDescriptorType(0) = 2
      /\ bLength(9) = 9 /\ bDescriptorType(9) # HID_DESCRIPTOR
      /\ bDescriptorType(18) = HID_DESCRIPTOR
  BY SMT DEF bDescriptorType, bLength, configurationDesc, HID_DESCRIPTOR
<1>5. walk[9] = 18
  <2> HIDE DEF walk
  <2>1. \A p \in 0..40 : walk[p] = Step(walk)[p]
    BY <1>3, Zenon
  <2>2. walk[18] = 18 /\ walk[9] = walk[18]
    BY <1>1, <1>4, <2>1, SMT
  <2>3. QED
    BY <2>2
<1>6. findDescriptor(HID_DESCRIPTOR) =
        IF \/ bLength(0) # CONFIGURATION_DESCRIPTOR_LENGTH
           \/ bDescriptorType(0) # CONFIGURATION_DESCRIPTOR
           \/ wTotalLength <= CONFIGURATION_DESCRIPTOR_LENGTH + 2
        THEN Null ELSE walk[CONFIGURATION_DESCRIPTOR_LENGTH]
  BY Zenon DEF findDescriptor
<1> HIDE DEF walk
<1>7. QED
  BY <1>1, <1>4, <1>5, <1>6, SMT DEF CONFIGURATION_DESCRIPTOR_LENGTH, CONFIGURATION_DESCRIPTOR

LEMMA MinOfTwo ==
    ASSUME NEW a \in Nat, NEW b \in Nat
    PROVE  Min({a, b}) = IF a < b THEN a ELSE b
<1> DEFINE m == IF a < b THEN a ELSE b
<1>1. m \in {a, b} /\ \A y \in {a, b} : m <= y
  BY SMT
<1>2. \A x \in {a, b} : (\A y \in {a, b} : x <= y) => x = m
  BY SMT
<1>3. Min({a, b}) = CHOOSE x \in {a, b} : \A y \in {a, b} : x <= y
  BY DEF Min
<1>4. QED
  BY <1>1, <1>2, <1>3, Zenon

LEMMA Numbers ==
    ASSUME NEW r \in Request
    PROVE  /\ r.value \in Nat /\ r.wIndex \in Nat /\ r.wLength \in Nat
           /\ r.dir \in {"in", "out"} /\ Response(r) \in Nat /\ Base(r) \in Nat
BY DEF Request, Response, Base, HID_DESCRIPTOR_LENGTH, CONFIGURATION_DESCRIPTOR_LENGTH,
   INTERFACE_DESCRIPTOR_LENGTH

LEMMA ChosenIs ==
    ASSUME NEW r \in Request
    PROVE  Chosen(r) \in Nat /\ (Chosen(r) \in {0, 1} <=> Chosen(r) < 2)
<1>1. r.value \in Nat
  BY Numbers
<1>2. Chosen(r) \in Nat
  BY <1>1, ControlAssumption, SMT DEF Chosen
<1>3. QED
  BY <1>2

Begun(r) == requestSetup([NoTransfer EXCEPT !.setup = r])

\* Records.  t.success and its like are Booleans, which Zenon handles.
LEMMA SendsIs ==
    ASSUME NEW t \in Transfer, NEW n \in Nat
    PROVE  LET u == Sends(t, n) IN
           /\ u \in Transfer /\ u.success /\ u.setup = t.setup /\ u.ptr = t.ptr
           /\ u.remaining = n /\ u.direction = "in"
<1>1. Sends(t, n) \in Transfer
  BY Zenon DEF Sends, Transfer
<1>2. QED
  BY <1>1, SMT DEF Sends, Transfer

LEMMA SucceedsIs ==
    ASSUME NEW t \in Transfer
    PROVE  LET u == Succeeds(t) IN
           /\ u \in Transfer /\ u.success /\ u.setup = t.setup /\ u.ptr = t.ptr
           /\ u.remaining = t.remaining /\ u.direction = t.direction
<1>1. Succeeds(t) \in Transfer
  BY Zenon DEF Succeeds, Transfer
<1>2. QED
  BY <1>1, SMT DEF Succeeds, Transfer

\* A request the device does not support leaves the transfer as it was.
Begin(t, r) ==
    /\ t \in Transfer /\ t.setup = r
    /\ t.success <=> Supported(r)
    /\ ~Supported(r) \/ (r.name # "SET_REPORT" /\ Response(r) = 0) =>
          t.remaining = 0 /\ t.direction = "out"
    /\ Supported(r) /\ Response(r) > 0 =>
          t.ptr = Base(r) /\ t.remaining = Response(r) /\ t.direction = "in"
    /\ r.name = "SET_REPORT" =>
          t.remaining = ReportLength /\ t.direction = "out" /\ t.notify

LEMMA BegunIs == ASSUME NEW r \in Request PROVE Begin(Begun(r), r)
<1> DEFINE b == [NoTransfer EXCEPT !.setup = r]
<1>1. /\ b \in Transfer /\ b.setup = r /\ ~b.success /\ b.ptr = 0 /\ b.remaining = 0
      /\ b.direction = "out"
  <2>1. NoTransfer \in Transfer /\ ~NoTransfer.success
    BY DEF NoTransfer, NoRequest, Transfer, Request
  <2>2. /\ NoTransfer.ptr = 0 /\ NoTransfer.remaining = 0
        /\ NoTransfer.direction = "out"
    BY DEF NoTransfer
  <2>3. QED
    BY <2>1, <2>2, SMT DEF Transfer
<1>2. Begun(r) = requestSetup(b)
  BY DEF Begun
<1> HIDE DEF b
<1>3. CASE r.name = "GET_DESCRIPTOR"
  <2>1. Begun(r) = IF r.value \in Descriptor THEN Sends(b, r.value) ELSE b
    BY <1>1, <1>2, <1>3 DEF requestSetup, requestGetDescriptor
  <2>2. Response(r) = r.value /\ Base(r) = 0 /\ (Supported(r) <=> r.value \in Descriptor)
    BY <1>3 DEF Response, Base, Supported
  <2>3. r.value \in Nat /\ (r.value \in Descriptor => r.value > 0)
    BY ControlAssumption, Numbers
  <2>4. QED
    BY <1>1, <1>3, <2>1, <2>2, <2>3, SendsIs DEF Begin
<1>4. CASE r.name = "GET_STATUS"
  <2>1. Begun(r) = IF Addressable(b) THEN Sends(b, 2) ELSE b
    BY <1>1, <1>2, <1>4 DEF requestSetup, requestGetStatus
  <2>2. Response(r) = 2 /\ Base(r) = 0 /\ (Supported(r) <=> Addressable(b))
    BY <1>1, <1>4 DEF Response, Base, Supported, Addressable
  <2>3. QED
    BY <1>1, <1>4, <2>1, <2>2, SendsIs DEF Begin
<1>5. CASE r.name = "GET_CONFIGURATION"
  <2>1. Begun(r) = Sends(b, 1)
    BY <1>1, <1>2, <1>5 DEF requestSetup, requestGetConfiguration
  <2>2. Response(r) = 1 /\ Base(r) = 0 /\ Supported(r)
    BY <1>5 DEF Response, Base, Supported
  <2>3. QED
    BY <1>1, <1>5, <2>1, <2>2, SendsIs DEF Begin
<1>6. CASE r.name = "GET_INTERFACE"
  <2>1. Begun(r) = IF state = "configured" THEN Sends(b, 1) ELSE b
    BY <1>1, <1>2, <1>6 DEF requestSetup, requestGetInterface
  <2>2. Response(r) = 1 /\ Base(r) = 0 /\ (Supported(r) <=> state = "configured")
    BY <1>6 DEF Response, Base, Supported
  <2>3. QED
    BY <1>1, <1>6, <2>1, <2>2, SendsIs DEF Begin
<1>7. CASE r.name = "SET_ADDRESS"
  <2>1. Begun(r) = Succeeds(b)
    BY <1>1, <1>2, <1>7 DEF requestSetup, requestSetAddress
  <2>2. Response(r) = 0 /\ Supported(r)
    BY <1>7 DEF Response, Supported
  <2>3. QED
    BY <1>1, <1>7, <2>1, <2>2, SucceedsIs DEF Begin
<1>8. CASE r.name = "SET_CONFIGURATION"
  <2>1. Begun(r) = IF Chosen(r) \in {0, 1} THEN Succeeds(b) ELSE b
    BY <1>1, <1>2, <1>8 DEF requestSetup, requestSetConfiguration, SucceedsIf
  <2>2. Response(r) = 0 /\ (Supported(r) <=> Chosen(r) < 2)
    BY <1>8 DEF Response, Supported
  <2>3. Chosen(r) \in {0, 1} <=> Chosen(r) < 2
    BY ChosenIs
  <2>4. QED
    BY <1>1, <1>8, <2>1, <2>2, <2>3, SucceedsIs DEF Begin
<1>9. CASE r.name \in {"SET_FEATURE", "CLEAR_FEATURE"}
  <2>1. Begun(r) = IF Addressable(b) THEN Succeeds(b) ELSE b
    BY <1>1, <1>2, <1>9 DEF requestSetup, requestFeature, SucceedsIf
  <2>2. Response(r) = 0 /\ (Supported(r) <=> Addressable(b))
    BY <1>1, <1>9 DEF Response, Supported, Addressable
  <2>3. QED
    BY <1>1, <1>9, <2>1, <2>2, SucceedsIs DEF Begin
<1>10. CASE r.name \in {"SET_INTERFACE", "OTHER"}
  <2>1. Begun(r) = b
    BY <1>1, <1>2, <1>10
       DEF requestSetup, requestSetInterface, USBCallback_setInterface, SucceedsIf
  <2>2. Response(r) = 0 /\ ~Supported(r)
    BY <1>10 DEF Response, Supported
  <2>3. QED
    BY <1>1, <1>10, <2>1, <2>2 DEF Begin
<1>11. CASE r.name = "SET_REPORT"
  <2>1. Begun(r) = [Succeeds(b) EXCEPT !.remaining = ReportLength, !.direction = "out",
                                       !.notify = TRUE]
    BY <1>1, <1>2, <1>11 DEF requestSetup, USBCallback_request
  <2>2. Response(r) = 0 /\ Supported(r)
    BY <1>11 DEF Response, Supported
  <2>3. ReportLength \in Nat
    BY ReportAssumption, ControlAssumption
  <2>4. Begun(r) \in Transfer
    BY <1>1, <2>1, <2>3, SucceedsIs, Zenon DEF Transfer
  <2>5. /\ Begun(r).success /\ Begun(r).setup = r /\ Begun(r).remaining = ReportLength
        /\ Begun(r).direction = "out" /\ Begun(r).notify
    BY <1>1, <2>1, SucceedsIs, SMT DEF Transfer
  <2>6. QED
    BY <1>11, <2>2, <2>4, <2>5 DEF Begin
<1>12. CASE r.name = "GET_HID_DESCRIPTOR"
  <2>1. Begun(r) = [Sends(b, HID_DESCRIPTOR_LENGTH) EXCEPT !.ptr = 18]
    BY <1>1, <1>2, <1>12, HidDescriptorFound DEF requestSetup, USBCallback_request, Null
  <2>2. Response(r) = HID_DESCRIPTOR_LENGTH /\ Base(r) = 18 /\ Supported(r)
    BY <1>12 DEF Response, Base, Supported, CONFIGURATION_DESCRIPTOR_LENGTH,
       INTERFACE_DESCRIPTOR_LENGTH
  <2>3. HID_DESCRIPTOR_LENGTH \in Nat \ {0}
    BY DEF HID_DESCRIPTOR_LENGTH
  <2>4. /\ Begun(r) \in Transfer /\ Begun(r).success /\ Begun(r).setup = r
        /\ Begun(r).ptr = 18 /\ Begun(r).remaining = HID_DESCRIPTOR_LENGTH
        /\ Begun(r).direction = "in"
    BY <1>1, <2>1, <2>3, SendsIs, SMT DEF Transfer
  <2>5. QED
    BY <1>12, <2>2, <2>3, <2>4 DEF Begin
<1>13. QED
  BY <1>3, <1>4, <1>5, <1>6, <1>7, <1>8, <1>9, <1>10, <1>11, <1>12 DEF Request

\* The transfer is accepted just when the host may expect it.
LEMMA AcceptedIffValid ==
    ASSUME NEW r \in Request
    PROVE  (Begun(r).success /\ Acceptable(Begun(r))) <=> Valid(r)
<1>1. Begin(Begun(r), r)
  BY BegunIs
<1>2. /\ r.wLength \in Nat /\ r.dir \in {"in", "out"} /\ Response(r) \in Nat
      /\ ReportLength \in Nat \ {0}
  BY Numbers, ReportAssumption, ControlAssumption
<1>3. CASE r.name = "SET_REPORT"
  <2>1. Supported(r) /\ Response(r) = 0
    BY <1>3 DEF Supported, Response
  <2>2. QED
    BY <1>1, <1>2, <1>3, <2>1 DEF Begin, Acceptable, Valid
<1>4. CASE r.name # "SET_REPORT" /\ Response(r) = 0
  BY <1>1, <1>2, <1>4 DEF Begin, Acceptable, Valid
<1>5. CASE r.name # "SET_REPORT" /\ Response(r) > 0
  BY <1>1, <1>2, <1>5 DEF Begin, Acceptable, Valid
<1>6. QED
  BY <1>2, <1>3, <1>4, <1>5

\* Serving a request twice makes no difference to whether it is supported.
LEMMA SupportedStable ==
    ASSUME NEW r \in Request, state' = StateAfter(r)
    PROVE  Valid(r)' = Valid(r)
<1>1. Supported(r)' = Supported(r)
  <2>1. CASE r.name \in {"SET_ADDRESS", "SET_CONFIGURATION"}
    BY <2>1 DEF Supported
  <2>2. CASE r.name \notin {"SET_ADDRESS", "SET_CONFIGURATION"}
    <3>1. UNCHANGED state
      BY <2>2 DEF StateAfter
    <3>2. QED
      BY <3>1 DEF Supported
  <2>3. QED
    BY <2>1, <2>2
<1>2. QED
  BY <1>1 DEF Valid, Response

LEMMA ValidKinds ==
    ASSUME NEW r \in Request, Valid(r)
    PROVE  IsReport(r) \/ IsRead(r) \/ IsNoData(r)
BY Numbers DEF Valid, IsReport, IsRead, IsNoData

-----------------------------------------------------------------------------
(* The stages.                                                             *)

LEMMA Sizes ==
    ReportLength \in Nat \ {0} /\ MaxPacket \in Nat \ {0} /\ ReportLength < MaxPacket
BY ReportAssumption, ControlAssumption

LEMMA EntriesAre ==
    /\ Cleared \in Entry /\ Stalled \in Entry
    /\ \A p \in Nat, n \in 0..MaxPacket : [is |-> "active", ptr |-> p, n |-> n] \in Entry
    /\ Cleared.is = "idle" /\ Cleared.n = MaxPacket
    /\ Stalled.is = "stall" /\ Stalled.n = MaxPacket
BY Sizes DEF Cleared, Stalled, Entry

\* Setting an entry active.
Active(e, p, n) == e \in Entry /\ e.is = "active" /\ e.ptr = p /\ e.n = n

LEMMA WriteIs ==
    ASSUME NEW p \in Nat, NEW n \in 0..MaxPacket, EP0write(p, n)
    PROVE  Active(epIn', p, n)
BY DEF EP0write, Active, Entry

LEMMA ReadIs == ASSUME EP0read PROVE Active(epOut', 0, 0)
BY Sizes DEF EP0read, Active, Entry

LEMMA StallIs == ASSUME EP0stall PROVE epIn' = Stalled /\ epOut' = Stalled
BY DEF EP0stall

LEMMA AdvanceIs ==
    ASSUME NEW t \in Transfer, NEW n \in Nat, n <= t.remaining
    PROVE  LET u == Advance(t, n) IN
           /\ u \in Transfer /\ u.ptr = t.ptr + n /\ u.remaining = t.remaining - n
           /\ u.direction = t.direction /\ u.setup = t.setup /\ u.notify = t.notify
<1> DEFINE u == [t EXCEPT !.ptr = t.ptr + n, !.remaining = t.remaining - n]
<1>1. t.ptr + n \in Nat /\ t.remaining - n \in Nat
  BY DEF Transfer
<1>2. Advance(t, n) = u
  BY DEF Advance
<1>3. u \in Transfer
  BY <1>1, Zenon DEF Transfer
<1>4. u.ptr = t.ptr + n /\ u.remaining = t.remaining - n /\ u.direction = t.direction /\ u.setup = t.setup
  BY SMT DEF Transfer
<1>5. u.notify = t.notify
  BY Zenon DEF Transfer
<1> HIDE DEF u
<1>6. QED
  BY <1>2, <1>3, <1>4, <1>5

LEMMA SendNextIs ==
    ASSUME NEW t \in Transfer, SendNext(t)
    PROVE  /\ transfer' \in Transfer
           /\ Active(epIn', t.ptr, epIn'.n) /\ epIn'.n \in 0..MaxPacket
           /\ transfer'.ptr = t.ptr + epIn'.n
           /\ transfer'.ptr + transfer'.remaining = t.ptr + t.remaining
           /\ transfer'.direction = t.direction /\ transfer'.notify = t.notify
           /\ epIn'.n < MaxPacket => transfer'.remaining = 0
<1>1. t.ptr \in Nat /\ t.remaining \in Nat
  BY DEF Transfer
<1>2. Chunk(t) \in 0..MaxPacket /\ Chunk(t) <= t.remaining
      /\ (Chunk(t) < MaxPacket => Chunk(t) = t.remaining)
  BY <1>1, Sizes DEF Chunk
<1>3. Active(epIn', t.ptr, Chunk(t))
  BY <1>1, <1>2, WriteIs DEF SendNext
<1>4. transfer' = Advance(t, Chunk(t))
  BY DEF SendNext
<1>5. epIn'.n = Chunk(t)
  BY <1>3 DEF Active
<1> HIDE DEF SendNext
<1>6. /\ transfer' \in Transfer /\ transfer'.ptr = t.ptr + Chunk(t)
      /\ transfer'.remaining = t.remaining - Chunk(t)
      /\ transfer'.direction = t.direction /\ transfer'.notify = t.notify
  BY <1>1, <1>2, <1>4, AdvanceIs
<1>7. QED
  BY <1>1, <1>2, <1>3, <1>5, <1>6, Sizes

\* What controlSetup makes of a request.
LEMMA SetupIs ==
    ASSUME setup \in Request, epIn \in Entry, epOut \in Entry, controlSetup
    PROVE  /\ transfer' \in Transfer /\ epIn' \in Entry /\ epOut' \in Entry
           /\ state' = StateAfter(setup) /\ configuration' = ConfigurationAfter(setup)
           /\ notified' = 0
           /\ ~Valid(setup) =>
                 /\ epIn' = Stalled /\ epOut' = Stalled
                 /\ transfer'.direction = "in" \/ transfer'.remaining < MaxPacket
           /\ Valid(setup) /\ IsReport(setup) =>
                 /\ transfer'.direction = "out" /\ transfer'.remaining = ReportLength
                 /\ transfer'.notify /\ Active(epOut', 0, 0) /\ UNCHANGED epIn
           /\ Valid(setup) /\ IsRead(setup) =>
                 /\ transfer'.direction = "in"
                 /\ transfer'.ptr + transfer'.remaining = Base(setup) + Wanted(setup)
                 /\ Active(epIn', Base(setup), epIn'.n)
                 /\ transfer'.ptr = Base(setup) + epIn'.n
                 /\ epIn'.n < MaxPacket => transfer'.remaining = 0
                 /\ UNCHANGED epOut
           /\ Valid(setup) /\ IsNoData(setup) =>
                 /\ transfer'.direction = "out" /\ transfer'.remaining = 0
                 /\ Active(epIn', 0, 0) /\ epOut' = OutAfter(setup)
<1> DEFINE t == Begun(setup)
           u == [t EXCEPT !.remaining = Limited(t), !.zlp = Zlp(t)]
<1>1. Begin(t, setup) /\ (t.success /\ Acceptable(t) <=> Valid(setup))
  BY BegunIs, AcceptedIffValid
<1>2. /\ state' = StateAfter(setup) /\ configuration' = ConfigurationAfter(setup)
      /\ notified' = 0
      /\ IF ~t.success \/ ~Acceptable(t) THEN EP0stall /\ transfer' = t
         ELSE IF setup.wLength = 0
         THEN EP0write(0, 0) /\ transfer' = t /\ epOut' = OutAfter(setup)
         ELSE IF setup.dir = "in" THEN SendNext(u) /\ UNCHANGED epOut
         ELSE EP0read /\ transfer' = t /\ UNCHANGED epIn
  BY Zenon DEF controlSetup, Begun
<1> HIDE DEF t
<1>3. /\ setup.wLength \in Nat /\ Response(setup) \in Nat /\ Base(setup) \in Nat
      /\ setup.dir \in {"in", "out"}
  BY Numbers
<1>4. CASE ~Valid(setup)
  <2>1. EP0stall /\ transfer' = t
    BY <1>1, <1>2, <1>4
  <2>2. t.direction = "in" \/ t.remaining < MaxPacket
    BY <1>1, <1>3, Sizes DEF Begin
  <2>3. QED
    BY <1>1, <1>2, <1>4, <2>1, <2>2, EntriesAre DEF EP0stall, Begin
<1>5. CASE Valid(setup)
  <2>1. Supported(setup) /\ t \in Transfer /\ t.setup = setup
    BY <1>1, <1>5 DEF Valid, Begin
  <2>2. CASE IsReport(setup)
    <3>1. EP0read /\ transfer' = t /\ UNCHANGED epIn
      BY <1>1, <1>2, <1>5, <2>2, Sizes DEF IsReport
    <3>2. ~IsRead(setup) /\ ~IsNoData(setup)
      BY <2>2 DEF IsReport, IsRead, IsNoData
    <3>3. t.direction = "out" /\ t.remaining = ReportLength /\ t.notify
      BY <1>1, <2>2 DEF IsReport, Begin
    <3>4. QED
      BY <1>2, <1>5, <2>1, <3>1, <3>2, <3>3, ReadIs DEF Active
  <2>3. CASE IsRead(setup)
    <3>1. SendNext(u) /\ UNCHANGED epOut
      BY <1>1, <1>2, <1>3, <1>5, <2>3 DEF IsRead
    <3>2. t.ptr = Base(setup) /\ t.remaining = Response(setup) /\ t.direction = "in"
      BY <1>1, <2>1, <2>3 DEF IsRead, Begin
    <3>3. Limited(t) = Wanted(setup) /\ Wanted(setup) \in Nat
      BY <1>3, <2>1, <3>2 DEF Limited, Wanted
    <3>4. Zlp(t) \in BOOLEAN
      BY DEF Zlp
    <3>5. u \in Transfer
      BY <2>1, <3>3, <3>4, Zenon DEF Transfer
    <3>6. u.ptr = Base(setup) /\ u.remaining = Wanted(setup) /\ u.direction = "in"
      BY <2>1, <3>2, <3>3, SMT DEF Transfer
    <3> HIDE DEF u
    <3>7. /\ transfer' \in Transfer /\ Active(epIn', Base(setup), epIn'.n)
          /\ transfer'.ptr = Base(setup) + epIn'.n
          /\ transfer'.ptr + transfer'.remaining = Base(setup) + Wanted(setup)
          /\ transfer'.direction = "in"
          /\ epIn'.n < MaxPacket => transfer'.remaining = 0
      BY <3>1, <3>5, <3>6, SendNextIs
    <3>8. ~IsReport(setup) /\ ~IsNoData(setup)
      BY <2>3 DEF IsReport, IsRead, IsNoData
    <3>9. QED
      BY <1>2, <1>5, <3>1, <3>7, <3>8 DEF Active
  <2>4. CASE IsNoData(setup)
    <3>1. EP0write(0, 0) /\ transfer' = t /\ epOut' = OutAfter(setup)
      BY <1>1, <1>2, <1>5, <2>4 DEF IsNoData
    <3>2. t.direction = "out" /\ t.remaining = 0
      BY <1>1, <2>4 DEF IsNoData, Begin
    <3>3. Active(epIn', 0, 0)
      BY <3>1, WriteIs, Sizes
    <3>4. OutAfter(setup) \in Entry
      BY EntriesAre, SMT DEF OutAfter, Entry
    <3>5. ~IsRead(setup) /\ ~IsReport(setup)
      BY <2>4 DEF IsReport, IsRead, IsNoData
    <3>6. QED
      BY <1>2, <1>5, <2>1, <3>1, <3>2, <3>3, <3>4, <3>5 DEF Active
  <2>5. QED
    BY <1>5, <2>2, <2>3, <2>4, ValidKinds
<1>6. QED
  BY <1>4, <1>5

-----------------------------------------------------------------------------
(* Every step keeps the invariant.                                         *)

LEMMA KindsDiffer ==
    ASSUME NEW r \in Request
    PROVE  /\ IsReport(r) => ~IsRead(r) /\ ~IsNoData(r) /\ Response(r) = 0 /\ r.wLength > 0
           /\ IsRead(r) => ~IsNoData(r) /\ r.name # "SET_REPORT"
BY Sizes DEF IsReport, IsRead, IsNoData, Response

LEMMA KindsStay ==
    ASSUME UNCHANGED req
    PROVE  /\ IsReport(req)' = IsReport(req) /\ IsRead(req)' = IsRead(req)
           /\ IsNoData(req)' = IsNoData(req) /\ Wanted(req)' = Wanted(req)
           /\ Base(req)' = Base(req) /\ Response(req)' = Response(req)
BY DEF IsReport, IsRead, IsNoData, Wanted, Base, Response

\* What hangs on the host and the SETUP packet alone.
LEMMA ValidStays ==
    ASSUME UNCHANGED <<req, state>>
    PROVE  Valid(req)' = Valid(req)
BY DEF Valid, Supported, Response

LEMMA InitHolds == ASSUME Init PROVE IInv
<1>1. NoTransfer \in Transfer /\ NoRequest \in Request
  BY DEF NoTransfer, NoRequest, Transfer, Request
<1>2. NoTransfer.remaining = 0 /\ NoTransfer.ptr = 0
  BY DEF NoTransfer
<1>3. ShapeOK
  <2>1. TypeOK
    BY <1>2, EntriesAre DEF Init, TypeOK
  <2>2. got \in Seq(Nat)
    BY DEF Init
  <2>3. QED
    BY <1>1, <2>1, <2>2 DEF Init, ShapeOK
<1>4. KindOK /\ WaitingOK /\ RaceOK
  BY DEF Init, KindOK, WaitingOK, RaceOK, Live
<1>5. RefusedOK /\ ReadOK /\ NoDataOK /\ ReportOK
  BY DEF Init, RefusedOK, ReadOK, NoDataOK, ReportOK, Served, Live
<1>6. OverOK
  BY DEF Init, OverOK, DataStageExact, SupportedNotStalled
<1>7. QED
  BY <1>3, <1>4, <1>5, <1>6 DEF IInv

LEMMA SetupKeeps == ASSUME IInv, NEW r \in Requests, Setup(r) PROVE IInv'
<1>1. r \in Request
  BY ControlAssumption
<1>2. r.wLength \in Nat
  BY <1>1, Numbers
<1>3. /\ setup' = r /\ req' = r /\ flag' = TRUE /\ intOut' = TRUE /\ got' = <<>> /\ sent' = 0
      /\ phase' = IF r.wLength > 0 THEN "data" ELSE "status"
      /\ valid' = Valid(r) /\ raced' = (isr = "test")
      /\ UNCHANGED <<state, configuration, transfer, notified, epIn, epOut, intIn, isr>>
  BY Zenon DEF Setup, device, list
<1>4. ShapeOK'
  <2>1. valid' \in BOOLEAN /\ raced' \in BOOLEAN
    BY <1>3 DEF Valid
  <2>2. phase' \in {"data", "status"} /\ got' \in Seq(Nat)
    BY <1>3
  <2>3. QED
    BY <1>1, <1>3, <2>1, <2>2 DEF IInv, ShapeOK, TypeOK
<1>5. KindOK'
  <2>1. valid' => IsReport(r) \/ IsRead(r) \/ IsNoData(r)
    BY <1>1, <1>3, ValidKinds
  <2>2. QED
    BY <1>3, <2>1 DEF KindOK, IsReport, IsRead, IsNoData, Response
<1>6. WaitingOK'
  <2>1. Valid(req)' = Valid(r)
    BY <1>3 DEF Valid, Supported, Response
  <2>2. QED
    BY <1>3, <2>1 DEF WaitingOK
<1>7. RaceOK'
  BY <1>3 DEF RaceOK
<1>8. RefusedOK' /\ ReadOK' /\ NoDataOK' /\ ReportOK'
  BY <1>3 DEF RefusedOK, ReadOK, NoDataOK, ReportOK, Served, Waiting
<1>9. OverOK'
  BY <1>3 DEF OverOK, DataStageExact, SupportedNotStalled
<1>10. QED
  BY <1>4, <1>5, <1>6, <1>7, <1>8, <1>9 DEF IInv

LEMMA IsrOutKeeps == ASSUME IInv, IsrOut PROVE IInv'
<1>1. /\ isr = "none" /\ intOut /\ intOut' = FALSE /\ isr' = "test"
      /\ UNCHANGED <<state, configuration, transfer, notified, epIn, epOut, setup, flag, intIn>>
      /\ UNCHANGED <<phase, req, got, sent, valid, raced, aborts>>
  BY DEF IsrOut, device, list, host
<1>2. Waiting' = Waiting /\ Served' = Served
  BY <1>1 DEF Waiting, Served, Live
<1>3. ShapeOK' /\ KindOK' /\ OverOK'
  <2>1. ShapeOK'
    BY <1>1 DEF IInv, ShapeOK, TypeOK
  <2>2. KindOK'
    BY <1>1, KindsStay DEF IInv, KindOK
  <2>3. OverOK'
    BY <1>1, <1>2, KindsStay DEF IInv, OverOK, DataStageExact, SupportedNotStalled
  <2>4. QED
    BY <2>1, <2>2, <2>3
<1>4. WaitingOK' /\ RaceOK'
  BY <1>1, <1>2, ValidStays DEF IInv, WaitingOK, RaceOK, Live
<1>5. RefusedOK'
  BY <1>1, <1>2 DEF IInv, RefusedOK
<1>6. ReadOK' /\ NoDataOK'
  BY <1>1, <1>2, KindsStay DEF IInv, ReadOK, NoDataOK, Quiet, Received
<1>7. ReportOK'
  BY <1>1, <1>2, KindsStay DEF IInv, ReportOK, Quiet, Expected, Arrived, Handed
<1>8. QED
  BY <1>3, <1>4, <1>5, <1>6, <1>7 DEF IInv

LEMMA IsrSetupKeeps == ASSUME IInv, IsrSetup PROVE IInv'
<1>1. /\ isr = "test" /\ flag /\ epIn' = Cleared /\ epOut' = Cleared
      /\ intIn' = FALSE /\ flag' = FALSE /\ isr' = "setup"
      /\ UNCHANGED <<state, configuration, transfer, notified, setup, intOut>>
      /\ UNCHANGED <<phase, req, got, sent, valid, raced, aborts>>
  BY DEF IsrSetup, device, host
<1>2. Waiting /\ Waiting'
  BY <1>1 DEF Waiting
<1>3. ShapeOK' /\ KindOK'
  BY <1>1, KindsStay, EntriesAre DEF IInv, ShapeOK, TypeOK, KindOK
<1>4. WaitingOK' /\ RaceOK'
  BY <1>1, <1>2, ValidStays DEF IInv, WaitingOK, RaceOK, Live
<1>5. RefusedOK' /\ ReadOK' /\ NoDataOK' /\ ReportOK'
  BY <1>2 DEF RefusedOK, ReadOK, NoDataOK, ReportOK, Served
<1>6. OverOK'
  <2>1. phase' # "ok"
    BY <1>1, <1>2 DEF IInv, OverOK
  <2>2. QED
    BY <1>1, <2>1 DEF IInv, OverOK, DataStageExact, SupportedNotStalled
<1>7. QED
  BY <1>3, <1>4, <1>5, <1>6 DEF IInv

\* The request is accepted or refused, unless the next SETUP packet has come.
LEMMA SetupCallbackKeeps == ASSUME IInv, EP0setupCallback PROVE IInv'
<1>1. /\ isr = "setup" /\ isr' = "none" /\ controlSetup
      /\ UNCHANGED <<setup, flag, intOut, intIn>>
      /\ UNCHANGED <<phase, req, got, sent, valid, raced, aborts>>
  BY DEF EP0setupCallback, host
<1>2. setup = req /\ req \in Request /\ epIn \in Entry /\ epOut \in Entry
  BY DEF IInv, ShapeOK, TypeOK
<1>3. /\ transfer' \in Transfer /\ epIn' \in Entry /\ epOut' \in Entry
      /\ state' = StateAfter(req) /\ configuration' = ConfigurationAfter(req) /\ notified' = 0
  BY <1>1, <1>2, SetupIs
<1>4. Waiting /\ (Waiting' <=> flag)
  BY <1>1 DEF Waiting
<1>5. phase # "ok" /\ phase' # "ok"
  BY <1>1, <1>4 DEF IInv, OverOK
<1>6. ShapeOK'
  <2>1. StateAfter(req) \in {"powered", "default", "address", "configured"} /\ ConfigurationAfter(req) \in Nat
    BY <1>2, ChosenIs DEF IInv, ShapeOK, TypeOK, StateAfter, ConfigurationAfter
  <2>2. transfer'.remaining \in Nat /\ transfer'.ptr \in Nat
    BY <1>3 DEF Transfer
  <2>3. QED
    BY <1>1, <1>3, <2>1, <2>2 DEF IInv, ShapeOK, TypeOK
<1>7. KindOK' /\ RaceOK' /\ OverOK'
  BY <1>1, <1>5, KindsStay DEF IInv, KindOK, RaceOK, OverOK, DataStageExact, SupportedNotStalled
<1>8. WaitingOK'
  <2>1. Valid(req)' = Valid(req)
    BY <1>1, <1>2, <1>3, SupportedStable
  <2>2. QED
    BY <1>1, <1>4, <2>1 DEF IInv, WaitingOK, Live
\* From here the request has been read and no other waits.
<1>9. ASSUME Served'
      PROVE  /\ ~flag /\ epIn = Cleared /\ epOut = Cleared /\ ~intIn /\ ~intIn' /\ got = <<>> /\ sent = 0
             /\ valid = Valid(req) /\ (~raced => ~intOut)
             /\ phase = IF req.wLength > 0 THEN "data" ELSE "status"
  BY <1>1, <1>4, <1>9 DEF IInv, WaitingOK, RaceOK, Served, Live
<1>10. RefusedOK'
  BY <1>1, <1>2, <1>9, SetupIs, EntriesAre DEF RefusedOK
<1>11. ReadOK'
  <2> SUFFICES ASSUME Served', valid, IsRead(req)
               PROVE  ReadOK'
    BY <1>1, KindsStay DEF ReadOK
  <2>1. /\ transfer'.direction = "in"
        /\ transfer'.ptr + transfer'.remaining = Base(req) + Wanted(req)
        /\ Active(epIn', Base(req), epIn'.n) /\ transfer'.ptr = Base(req) + epIn'.n
        /\ epIn'.n < MaxPacket => transfer'.remaining = 0
        /\ epOut' = epOut
    BY <1>1, <1>2, <1>9, SetupIs
  <2>2. phase' = "data" /\ got' = <<>> /\ Len(got') = 0 /\ epIn'.n \in Nat /\ Base(req) \in Nat
    BY <1>1, <1>2, <1>3, <1>9, Numbers DEF IsRead, Entry
  <2>3. got' = [i \in 1..Len(got') |-> Base(req') + i] /\ Received' = Base(req)
    BY <1>1, <2>2, KindsStay DEF Received
  <2>4. epIn'.is = "active" /\ epIn'.ptr = Base(req) /\ epOut'.is # "stall"
    BY <1>9, <2>1, EntriesAre DEF Active
  <2>5. raced' \/ Quiet'
    BY <1>1, <1>9 DEF Quiet
  <2>6. QED
    BY <1>1, <1>9, <2>1, <2>2, <2>3, <2>4, <2>5, KindsStay DEF ReadOK
<1>12. NoDataOK'
  <2> SUFFICES ASSUME Served', valid, IsNoData(req)
               PROVE  NoDataOK'
    BY <1>1, KindsStay DEF NoDataOK
  <2>1. /\ transfer'.direction = "out" /\ transfer'.remaining = 0
        /\ Active(epIn', 0, 0) /\ epOut' = OutAfter(req)
    BY <1>1, <1>2, <1>9, SetupIs
  <2>2. OutAfter(req).n = MaxPacket
    BY <1>9, EntriesAre, SMT DEF OutAfter, Cleared
  <2>3. phase' = "status" /\ got' = <<>>
    BY <1>1, <1>9 DEF IsNoData
  <2>4. QED
    BY <1>1, <1>9, <2>1, <2>2, <2>3 DEF NoDataOK, Quiet, Active
<1>13. ReportOK'
  <2> SUFFICES ASSUME Served', valid, IsReport(req)
               PROVE  ReportOK'
    BY <1>1, KindsStay DEF ReportOK
  <2>1. /\ transfer'.direction = "out" /\ transfer'.remaining = ReportLength
        /\ transfer'.notify /\ Active(epOut', 0, 0) /\ epIn' = epIn
    BY <1>1, <1>2, <1>9, SetupIs
  <2>2. phase' = "data"
    BY <1>1, <1>9, Sizes DEF IsReport
  <2>3. Expected'
    BY <1>1, <1>3, <1>9, <2>1, <2>2, EntriesAre DEF Expected, Quiet, Active
  <2>4. QED
    BY <1>9, <2>1, <2>3 DEF ReportOK
<1>14. QED
  BY <1>6, <1>7, <1>8, <1>10, <1>11, <1>12, <1>13 DEF IInv

LEMMA OutKeeps == ASSUME IInv, EP0out PROVE IInv'
<1>1. /\ isr = "test" /\ ~flag /\ isr' = "none" /\ controlOut
      /\ UNCHANGED <<state, configuration, setup, flag, intOut, intIn>>
      /\ UNCHANGED <<phase, req, got, sent, valid, raced, aborts>>
  BY DEF EP0out, device, host
<1>2. ~Waiting /\ ~Waiting' /\ Served' = Served
  BY <1>1 DEF Waiting, Served, Live
<1>3. /\ transfer \in Transfer /\ epIn \in Entry /\ epOut \in Entry /\ req \in Request
      /\ notified \in Nat
  BY DEF IInv, ShapeOK, TypeOK
<1>4. /\ epOut.n \in 0..MaxPacket /\ epOut.n \in Nat
      /\ transfer.remaining \in Nat /\ transfer.ptr \in Nat
  BY <1>3, Sizes DEF Entry, Transfer
<1> DEFINE stalls == transfer.direction # "out" \/ epOut.n > transfer.remaining
           t == Advance(transfer, epOut.n)
           last == epOut.n = transfer.remaining
<1>5. stalls => EP0stall /\ UNCHANGED <<transfer, notified>>
  BY <1>1 DEF controlOut
<1>6. ~stalls => /\ t \in Transfer /\ t.ptr = transfer.ptr + epOut.n
                 /\ t.remaining = transfer.remaining - epOut.n
                 /\ t.direction = transfer.direction /\ t.notify = transfer.notify
  BY <1>3, <1>4, AdvanceIs
<1>7. ~stalls /\ last => /\ notified' = IF t.notify THEN notified + 1 ELSE notified
                         /\ transfer' = [t EXCEPT !.notify = FALSE]
                         /\ EP0write(0, 0) /\ epOut' = epOut
  BY <1>1, <1>4, <1>6 DEF controlOut
<1>8. ~stalls /\ ~last => EP0read /\ transfer' = t /\ UNCHANGED <<epIn, notified>>
  BY <1>1, <1>4, <1>6 DEF controlOut
<1> HIDE DEF t
<1>9. ~stalls /\ last => /\ transfer' \in Transfer /\ ~transfer'.notify /\ transfer'.remaining = 0
                         /\ transfer'.direction = transfer.direction /\ Active(epIn', 0, 0)
  <2> SUFFICES ASSUME ~stalls, last
               PROVE  /\ transfer' \in Transfer /\ ~transfer'.notify /\ transfer'.remaining = 0
                      /\ transfer'.direction = transfer.direction /\ Active(epIn', 0, 0)
    OBVIOUS
  <2>1. t \in Transfer /\ transfer' = [t EXCEPT !.notify = FALSE]
    BY <1>6, <1>7
  <2>2. transfer' \in Transfer /\ ~transfer'.notify
    BY <2>1, Zenon DEF Transfer
  <2>3. transfer'.remaining = t.remaining /\ transfer'.direction = t.direction
    BY <2>1, SMT DEF Transfer
  <2>4. Active(epIn', 0, 0)
    BY <1>7, WriteIs, Sizes
  <2>5. QED
    BY <1>4, <1>6, <2>2, <2>3, <2>4
<1>10. /\ transfer' \in Transfer /\ epIn' \in Entry /\ epOut' \in Entry /\ notified' \in Nat
  BY <1>3, <1>5, <1>6, <1>7, <1>8, <1>9, EntriesAre, ReadIs DEF EP0stall, Active
<1>11. ShapeOK'
  <2>1. transfer'.remaining \in Nat /\ transfer'.ptr \in Nat
    BY <1>10 DEF Transfer
  <2>2. QED
    BY <1>1, <1>10, <2>1 DEF IInv, ShapeOK, TypeOK
<1>12. KindOK' /\ WaitingOK' /\ RaceOK'
  BY <1>1, <1>2, KindsStay DEF IInv, KindOK, WaitingOK, RaceOK
<1>13. RefusedOK'
  <2> SUFFICES ASSUME Served, ~valid
               PROVE  RefusedOK'
    BY <1>1, <1>2 DEF RefusedOK
  <2>1. stalls
    BY <1>4 DEF IInv, RefusedOK
  <2>2. QED
    BY <1>1, <1>5, <2>1, EntriesAre DEF IInv, RefusedOK, EP0stall
<1>14. ReadOK'
  <2> SUFFICES ASSUME Served, valid, IsRead(req)
               PROVE  ReadOK'
    BY <1>1, <1>2, KindsStay DEF ReadOK
  <2>1. stalls /\ raced
    BY <1>1 DEF IInv, ReadOK, Quiet
  <2>2. epIn'.is = "stall" /\ transfer' = transfer
    BY <1>5, <2>1, EntriesAre DEF EP0stall
  <2>3. QED
    BY <1>1, <2>1, <2>2, KindsStay DEF IInv, ReadOK, Received
<1>15. NoDataOK'
  <2> SUFFICES ASSUME Served, valid, IsNoData(req)
               PROVE  NoDataOK'
    BY <1>1, <1>2, KindsStay DEF NoDataOK
  <2>1. stalls /\ raced
    BY <1>1, Sizes DEF IInv, NoDataOK, Quiet
  <2>2. epIn' = Stalled /\ epOut' = Stalled /\ transfer' = transfer
    BY <1>5, <2>1 DEF EP0stall
  <2>3. QED
    BY <1>1, <2>1, <2>2, EntriesAre DEF IInv, NoDataOK
<1>16. ReportOK'
  <2> SUFFICES ASSUME Served, valid, IsReport(req)
               PROVE  ReportOK'
    BY <1>1, <1>2, KindsStay DEF ReportOK
  <2>1. transfer.direction = "out" /\ ~intIn /\ (Expected \/ Arrived \/ Handed)
    BY DEF IInv, ReportOK
  <2>2. CASE Expected
    <3>1. ~stalls /\ ~last /\ raced
      BY <1>1, <2>1, <2>2, Sizes DEF Expected, Quiet
    <3>2. transfer'.remaining = ReportLength /\ transfer'.direction = "out"
      BY <1>4, <1>6, <1>8, <2>1, <2>2, <3>1, Sizes DEF Expected
    <3>3. transfer'.notify
      BY <1>6, <1>8, <2>2, <3>1, Zenon DEF Expected
    <3>4. epOut'.is = "active" /\ epOut'.n = 0 /\ UNCHANGED <<epIn, notified>>
      BY <1>8, <3>1, ReadIs DEF Active
    <3>5. QED
      BY <1>1, <2>1, <2>2, <3>1, <3>2, <3>3, <3>4 DEF Expected, ReportOK
  <2>3. CASE Arrived
    <3>1. ~stalls /\ last
      BY <2>1, <2>3, Sizes DEF Arrived
    <3>2. t.notify
      BY <1>6, <2>3, <3>1, Zenon DEF Arrived
    <3>3. notified' = 1 /\ epOut' = epOut
      BY <1>7, <2>3, <3>1, <3>2 DEF Arrived
    <3>4. raced \/ Quiet'
      BY <1>1, <2>3 DEF Arrived, Quiet
    <3>5. QED
      BY <1>1, <1>9, <2>1, <2>3, <3>1, <3>3, <3>4 DEF Arrived, Handed, ReportOK, Active
  <2>4. CASE Handed
    <3>1. stalls /\ raced
      BY <1>1, <1>4, <2>4, Sizes DEF Handed, Quiet
    <3>2. epIn' = Stalled /\ epOut' = Stalled /\ UNCHANGED <<transfer, notified>>
      BY <1>5, <3>1 DEF EP0stall
    <3>3. QED
      BY <1>1, <2>1, <2>4, <3>1, <3>2, EntriesAre DEF Handed, ReportOK
  <2>5. QED
    BY <2>1, <2>2, <2>3, <2>4
<1>17. OverOK'
  <2>1. phase = "ok" /\ req.name = "SET_REPORT" => ~transfer.notify
    BY DEF IInv, OverOK
  <2>2. ~transfer.notify => ~transfer'.notify /\ notified' = notified
    BY <1>5, <1>6, <1>7, <1>8, <1>9
  <2>3. QED
    BY <1>1, <1>2, <2>1, <2>2, KindsStay DEF IInv, OverOK, DataStageExact, SupportedNotStalled
<1>18. QED
  BY <1>11, <1>12, <1>13, <1>14, <1>15, <1>16, <1>17 DEF IInv

LEMMA InKeeps == ASSUME IInv, EP0in PROVE IInv'
<1>1. /\ isr = "none" /\ intIn /\ intIn' = FALSE /\ controlIn
      /\ UNCHANGED <<state, configuration, setup, flag, intOut, isr>>
      /\ UNCHANGED <<phase, req, got, sent, valid, raced, aborts>>
  BY DEF EP0in, device, host
<1>2. Waiting' = Waiting /\ Served' = Served
  BY <1>1 DEF Waiting, Served, Live
<1>3. /\ transfer \in Transfer /\ epIn \in Entry /\ epOut \in Entry /\ req \in Request
      /\ notified \in Nat
  BY DEF IInv, ShapeOK, TypeOK
<1>4. transfer.remaining \in Nat /\ transfer.ptr \in Nat
  BY <1>3 DEF Transfer
<1> DEFINE last == transfer.remaining = 0
           sends == ~last /\ transfer.direction = "in"
<1>5. last => /\ IF transfer.zlp THEN EP0write(0, 0) ELSE UNCHANGED epIn
              /\ EP0read
              /\ notified' = IF transfer.notify THEN notified + 1 ELSE notified
              /\ transfer' = [transfer EXCEPT !.zlp = FALSE, !.notify = FALSE]
  BY <1>1 DEF controlIn
<1>6. sends => SendNext(transfer) /\ UNCHANGED <<epOut, notified>>
  BY <1>1 DEF controlIn
<1>7. ~last /\ ~sends => EP0stall /\ UNCHANGED <<transfer, notified>>
  BY <1>1 DEF controlIn
<1>8. last => /\ transfer' \in Transfer /\ ~transfer'.notify
              /\ transfer'.remaining = 0 /\ transfer'.ptr = transfer.ptr
              /\ transfer'.direction = transfer.direction
              /\ epIn' = epIn \/ Active(epIn', 0, 0)
              /\ Active(epOut', 0, 0)
  <2> SUFFICES ASSUME last
               PROVE  /\ transfer' \in Transfer /\ ~transfer'.notify
                      /\ transfer'.remaining = 0 /\ transfer'.ptr = transfer.ptr
                      /\ transfer'.direction = transfer.direction
                      /\ epIn' = epIn \/ Active(epIn', 0, 0)
                      /\ Active(epOut', 0, 0)
    OBVIOUS
  <2>1. transfer' = [transfer EXCEPT !.zlp = FALSE, !.notify = FALSE]
    BY <1>5
  <2>2. transfer' \in Transfer /\ ~transfer'.notify
    BY <1>3, <2>1, Zenon DEF Transfer
  <2>3. /\ transfer'.remaining = transfer.remaining /\ transfer'.ptr = transfer.ptr
        /\ transfer'.direction = transfer.direction
    BY <1>3, <2>1, SMT DEF Transfer
  <2>4. epIn' = epIn \/ Active(epIn', 0, 0)
    BY <1>5, WriteIs, Sizes
  <2>5. QED
    BY <1>5, <2>2, <2>3, <2>4, ReadIs
<1>9. sends => /\ transfer' \in Transfer
               /\ Active(epIn', transfer.ptr, epIn'.n) /\ epIn'.n \in 0..MaxPacket
               /\ transfer'.ptr = transfer.ptr + epIn'.n
               /\ transfer'.ptr + transfer'.remaining = transfer.ptr + transfer.remaining
               /\ transfer'.direction = transfer.direction
               /\ epIn'.n < MaxPacket => transfer'.remaining = 0
  BY <1>3, <1>6, SendNextIs
<1>10. sends => transfer'.notify = transfer.notify
  BY <1>3, <1>6, SendNextIs
<1>11. /\ transfer' \in Transfer /\ epIn' \in Entry /\ epOut' \in Entry /\ notified' \in Nat
  BY <1>3, <1>5, <1>6, <1>7, <1>8, <1>9, EntriesAre DEF EP0stall, Active
<1>12. ShapeOK'
  <2>1. transfer'.remaining \in Nat /\ transfer'.ptr \in Nat
    BY <1>11 DEF Transfer
  <2>2. QED
    BY <1>1, <1>11, <2>1 DEF IInv, ShapeOK, TypeOK
<1>13. KindOK' /\ RaceOK'
  BY <1>1, KindsStay DEF IInv, KindOK, RaceOK
<1>14. WaitingOK'
  BY <1>1, <1>2, ValidStays DEF IInv, WaitingOK, Live
<1>15. RefusedOK' /\ NoDataOK' /\ ReportOK'
  <2>1. Served => valid /\ ~IsNoData(req) /\ ~IsReport(req)
    BY <1>1 DEF IInv, RefusedOK, NoDataOK, ReportOK
  <2>2. QED
    BY <1>1, <1>2, <2>1, KindsStay DEF RefusedOK, NoDataOK, ReportOK
<1>16. ReadOK'
  <2> SUFFICES ASSUME Served, valid, IsRead(req)
               PROVE  ReadOK'
    BY <1>1, <1>2, KindsStay DEF ReadOK
  <2>1. /\ transfer.direction = "in"
        /\ transfer.ptr + transfer.remaining = Base(req) + Wanted(req)
        /\ got = [i \in 1..Len(got) |-> Base(req) + i] /\ Received <= transfer.ptr
        /\ phase = "data" => epIn.is # "active" /\ transfer.ptr = Received
        /\ phase = "status" => Len(got) = Wanted(req)
        /\ ~raced => Quiet /\ epIn.is # "stall" /\ epOut.is # "stall"
    BY <1>1 DEF IInv, ReadOK
  <2>2. got' = [i \in 1..Len(got') |-> Base(req)' + i] /\ Received' = Received /\ Quiet' = Quiet
    BY <1>1, <2>1, KindsStay DEF Received, Quiet
  <2>3. Received \in Nat
    BY <1>3, Numbers DEF Received, IInv, ShapeOK
  <2>4. CASE last
    <3>1. epIn'.is = "active" => epIn' = epIn \/ epIn'.n = 0
      BY <1>8, <2>4 DEF Active
    <3>2. epIn'.is = "stall" => epIn' = epIn
      BY <1>8, <2>4 DEF Active
    <3>3. epOut'.is # "stall"
      BY <1>8, <2>4 DEF Active
    <3>4. QED
      BY <1>1, <1>4, <1>8, <2>1, <2>2, <2>3, <2>4, <3>1, <3>2, <3>3, KindsStay DEF ReadOK
  <2>5. CASE ~last
    <3>1. sends
      BY <2>1, <2>5
    <3>2. epIn'.is = "active" /\ epIn'.ptr = transfer.ptr /\ epIn'.n \in Nat /\ epOut' = epOut
      BY <1>6, <1>9, <3>1 DEF Active
    <3>3. QED
      BY <1>1, <1>4, <1>9, <2>1, <2>2, <2>3, <3>1, <3>2, KindsStay DEF ReadOK
  <2>6. QED
    BY <2>4, <2>5
<1>17. OverOK'
  <2>1. phase = "ok" /\ req.name = "SET_REPORT" => ~transfer.notify
    BY DEF IInv, OverOK
  <2>2. ~transfer.notify => ~transfer'.notify /\ notified' = notified
    BY <1>5, <1>6, <1>7, <1>8, <1>10
  <2>3. QED
    BY <1>1, <1>2, <2>1, <2>2, KindsStay DEF IInv, OverOK, DataStageExact, SupportedNotStalled
<1>18. QED
  BY <1>12, <1>13, <1>14, <1>15, <1>16, <1>17 DEF IInv

\* A token is answered only once the SETUP packet has been read.
LEMMA AnsweredIsServed ==
    ASSUME IInv, ~flag, Live, epIn.is # "idle" \/ epOut.is # "idle"
    PROVE  Served
BY EntriesAre DEF IInv, WaitingOK, Served, Waiting

LEMMA BytesAre ==
    ASSUME NEW p \in Nat, NEW k \in Nat, NEW s \in Seq(Nat)
    PROVE  LET t == [i \in 1..k |-> p + i] IN
           /\ t \in Seq(Nat) /\ Len(t) = k
           /\ s \o t \in Seq(Nat) /\ Len(s \o t) = Len(s) + k
           /\ \A i \in 1..Len(s) : (s \o t)[i] = s[i]
           /\ \A i \in Len(s) + 1 .. Len(s) + k : (s \o t)[i] = p + i - Len(s)
<1> DEFINE t == [i \in 1..k |-> p + i]
<1>1. \A i \in 1..k : p + i \in Nat
  OBVIOUS
<1>2. t \in Seq(Nat)
  BY <1>1
<1>3. Len(t) = k
  BY <1>1
<1>4. \A i \in 1..k : t[i] = p + i
  OBVIOUS
<1> HIDE DEF t
<1>5. s \o t \in Seq(Nat) /\ Len(s \o t) = Len(s) + k
  BY <1>2, <1>3
<1>6. \A i \in 1..Len(s) : (s \o t)[i] = s[i]
  BY <1>2, <1>3
<1>7. \A i \in Len(s) + 1 .. Len(s) + k : (s \o t)[i] = p + i - Len(s)
  BY <1>2, <1>3, <1>4
<1>8. QED
  BY <1>2, <1>3, <1>5, <1>6, <1>7 DEF t

LEMMA InTokenKeeps == ASSUME IInv, InToken PROVE IInv'
<1> DEFINE n == epIn.n
           data == phase = "data" /\ req.dir = "in"
           status == phase = "status" /\ (req.dir = "out" \/ req.wLength = 0)
<1>1. /\ ~flag /\ epIn.is = "active" /\ epIn' = Cleared /\ intIn' = TRUE
      /\ UNCHANGED <<state, configuration, transfer, notified, epOut, setup, flag, intOut, isr>>
      /\ UNCHANGED <<req, sent, valid, raced, aborts>>
  BY DEF InToken, device
<1>2. \/ /\ data /\ got' = got \o [i \in 1..n |-> epIn.ptr + i]
         /\ phase' = IF n < MaxPacket \/ Len(got) + n >= req.wLength THEN "status" ELSE "data"
      \/ /\ status /\ got' = got
         /\ phase' = IF n = 0 THEN "ok" ELSE "stalled"
  BY DEF InToken
<1>3. Live /\ Served /\ ~Waiting /\ ~Waiting'
  <2>1. Live
    BY <1>2 DEF Live
  <2>2. Served
    BY <1>1, <2>1, AnsweredIsServed
  <2>3. QED
    BY <1>1, <2>1, <2>2 DEF Served, Waiting
<1>4. /\ req \in Request /\ epIn \in Entry /\ n \in 0..MaxPacket /\ n \in Nat
      /\ got \in Seq(Nat) /\ Len(got) \in Nat /\ epIn.ptr \in Nat
      /\ req.wLength \in Nat /\ Response(req) \in Nat /\ Base(req) \in Nat
  BY Sizes, Numbers DEF IInv, ShapeOK, TypeOK, Entry
<1>5. valid
  BY <1>1, <1>3 DEF IInv, RefusedOK
<1>6. ShapeOK' /\ KindOK' /\ WaitingOK' /\ RaceOK'
  <2>1. got' \in Seq(Nat)
    <3>1. got \o [i \in 1..n |-> epIn.ptr + i] \in Seq(Nat)
      BY <1>4, BytesAre
    <3>2. QED
      BY <1>2, <1>4, <3>1
  <2>2. phase' \in {"idle", "data", "status", "ok", "stalled"}
    BY <1>2
  <2>3. ShapeOK'
    BY <1>1, <2>1, <2>2, EntriesAre DEF IInv, ShapeOK, TypeOK
  <2>4. QED
    BY <1>1, <1>3, <2>3, KindsStay DEF IInv, KindOK, WaitingOK, RaceOK, Waiting
<1>7. CASE data
  <2>1. IsRead(req) /\ ~IsReport(req) /\ ~IsNoData(req)
    BY <1>3, <1>5, <1>7 DEF IInv, KindOK, IsReport, NoDataOK, IsRead
  <2>2. /\ transfer.direction = "in" /\ transfer.ptr + transfer.remaining = Base(req) + Wanted(req)
        /\ got = [i \in 1..Len(got) |-> Base(req) + i]
        /\ Received + n = transfer.ptr
        /\ n = 0 \/ epIn.ptr = Received
        /\ n < MaxPacket => transfer.remaining = 0
        /\ ~raced => Quiet /\ epOut.is # "stall"
    BY <1>1, <1>3, <1>5, <1>7, <2>1 DEF IInv, ReadOK
  <2>3. Len(got') = Len(got) + n /\ Received' = transfer.ptr
    <3>1. got' = got \o [i \in 1..n |-> epIn.ptr + i]
      BY <1>2, <1>7
    <3>2. Len(got') = Len(got) + n
      BY <1>4, <3>1, BytesAre
    <3>3. QED
      BY <1>1, <1>4, <2>2, <3>2, KindsStay DEF Received
  <2>4. got' = [i \in 1..Len(got') |-> Base(req) + i]
    <3>1. got' = got \o [i \in 1..n |-> epIn.ptr + i]
      BY <1>2, <1>7
    <3>2. epIn.ptr = Base(req) + Len(got) \/ n = 0
      BY <2>2 DEF Received
    <3>3. \A i \in 1..(Len(got) + n) : got'[i] = Base(req) + i
      <4> SUFFICES ASSUME NEW i \in 1..(Len(got) + n)
                   PROVE  got'[i] = Base(req) + i
        OBVIOUS
      <4>1. CASE i <= Len(got)
        BY <1>4, <2>2, <3>1, <4>1, BytesAre
      <4>2. CASE i > Len(got)
        BY <1>4, <3>1, <3>2, <4>2, BytesAre
      <4>3. QED
        BY <1>4, <4>1, <4>2
    <3>4. got' \in Seq(Nat)
      BY <1>6 DEF ShapeOK
    <3>5. QED
      BY <2>3, <3>3, <3>4
  <2>5. phase' = "status" => Len(got') = Wanted(req)
    <3>1. transfer.remaining \in Nat /\ transfer.ptr \in Nat /\ Wanted(req) \in Nat /\ Wanted(req) <= req.wLength
      BY <1>4 DEF IInv, ShapeOK, TypeOK, Wanted
    <3>2. Base(req) + Len(got') + transfer.remaining = Base(req) + Wanted(req)
      BY <1>4, <2>2, <2>3 DEF Received
    <3>3. phase' = "status" => transfer.remaining = 0 \/ Len(got') >= req.wLength
      BY <1>2, <1>7, <2>2, <2>3
    <3>4. QED
      BY <1>4, <2>3, <3>1, <3>2, <3>3
  <2>6. ReadOK'
    BY <1>1, <1>4, <2>2, <2>3, <2>4, <2>5, KindsStay, EntriesAre DEF ReadOK, Quiet, IInv, ShapeOK, TypeOK
  <2>7. RefusedOK' /\ NoDataOK' /\ ReportOK'
    BY <1>1, <1>5, <2>1, KindsStay DEF RefusedOK, NoDataOK, ReportOK
  <2>8. OverOK'
    <3>1. phase' \in {"data", "status"}
      BY <1>2, <1>7
    <3>2. QED
      BY <3>1 DEF OverOK, DataStageExact, SupportedNotStalled
  <2>9. QED
    BY <1>6, <2>6, <2>7, <2>8 DEF IInv
<1>8. CASE status
  <2>1. got' = got /\ phase' = IF n = 0 THEN "ok" ELSE "stalled"
    BY <1>2, <1>8
  <2>2. RefusedOK' /\ ReadOK' /\ NoDataOK' /\ ReportOK'
    BY <2>1 DEF RefusedOK, ReadOK, NoDataOK, ReportOK, Served, Live
  <2>3. ~IsRead(req)
    BY <1>8 DEF IsRead
  <2>4. CASE IsNoData(req)
    <3>1. got = <<>> /\ n = 0 /\ req.wLength = 0 /\ Response(req) = 0 /\ req.name # "SET_REPORT"
      BY <1>1, <1>3, <1>5, <2>4 DEF IInv, NoDataOK, IsNoData
    <3>2. Min({req.wLength, Response(req)}) = 0
      BY <3>1, MinOfTwo
    <3>3. got' = [i \in 1..Min({req.wLength, Response(req)}) |-> Base(req) + i]
      BY <2>1, <3>1, <3>2
    <3>4. DataStageExact' /\ SupportedNotStalled'
      BY <1>1, <1>5, <2>1, <3>1, <3>3, KindsStay DEF DataStageExact, SupportedNotStalled
    <3>5. QED
      BY <1>1, <1>3, <1>6, <2>2, <3>1, <3>4 DEF IInv, OverOK
  <2>5. CASE IsReport(req)
    <3>1. Handed
      BY <1>1, <1>3, <1>5, <1>8, <2>5 DEF IInv, ReportOK, Expected, Arrived
    <3>2. n = 0 /\ sent = ReportLength /\ notified = 1 /\ ~transfer.notify /\ req.dir = "out"
      BY <1>1, <2>5, <3>1 DEF Handed, IsReport
    <3>3. DataStageExact' /\ SupportedNotStalled'
      BY <1>1, <1>5, <2>1, <3>2 DEF DataStageExact, SupportedNotStalled
    <3>4. QED
      BY <1>1, <1>3, <1>6, <2>2, <3>2, <3>3 DEF IInv, OverOK
  <2>6. QED
    BY <1>5, <2>3, <2>4, <2>5 DEF IInv, KindOK
<1>9. QED
  BY <1>2, <1>7, <1>8

LEMMA OutTokenKeeps == ASSUME IInv, OutToken PROVE IInv'
<1> DEFINE n == Min({MaxPacket, req.wLength - sent})
           data == phase = "data" /\ req.dir = "out"
           status == phase = "status" /\ req.dir = "in" /\ req.wLength > 0
<1>1. /\ ~flag /\ epOut.is = "active" /\ intOut' = TRUE
      /\ UNCHANGED <<state, configuration, transfer, notified, epIn, setup, flag, intIn, isr>>
      /\ UNCHANGED <<req, got, valid, raced, aborts>>
  BY DEF OutToken, device
<1>2. \/ /\ data /\ epOut' = Took(n) /\ sent' = sent + n
         /\ phase' = IF sent' = req.wLength THEN "status" ELSE "data"
      \/ status /\ epOut' = Took(0) /\ phase' = "ok" /\ sent' = sent
  BY DEF OutToken
<1> HIDE DEF n
<1>3. Live /\ Served /\ ~Waiting /\ ~Waiting'
  <2>1. Live
    BY <1>2 DEF Live
  <2>2. Served
    BY <1>1, <2>1, AnsweredIsServed
  <2>3. QED
    BY <1>1, <2>1, <2>2 DEF Served, Waiting
<1>4. valid
  BY <1>1, <1>3 DEF IInv, RefusedOK
<1>5. KindOK' /\ WaitingOK' /\ RaceOK'
  BY <1>1, <1>3, KindsStay DEF IInv, KindOK, WaitingOK, RaceOK, Waiting
<1>6. \A k \in 0..MaxPacket : Took(k) \in Entry
  BY DEF Took, Entry
<1>7. CASE data
  <2>1. IsReport(req) /\ ~IsRead(req) /\ ~IsNoData(req)
    BY <1>3, <1>4, <1>7 DEF IInv, KindOK, IsReport, NoDataOK, IsRead
  <2>2. Expected /\ transfer.direction = "out" /\ ~intIn
    BY <1>1, <1>3, <1>4, <1>7, <2>1 DEF IInv, ReportOK, Arrived, Handed
  <2>3. n = ReportLength
    <3>1. req.wLength - sent = ReportLength
      BY <2>1, <2>2, Sizes DEF IsReport, Expected
    <3>2. QED
      BY <3>1, MinOfTwo, Sizes DEF n
  <2>4. sent' = ReportLength /\ phase' = "status" /\ epOut' = Took(ReportLength)
    BY <1>2, <1>7, <2>1, <2>2, <2>3, Sizes DEF Expected, IsReport
  <2>5. Arrived'
    BY <1>1, <2>2, <2>4 DEF Expected, Arrived, Quiet, Took
  <2>6. ReportOK' /\ RefusedOK' /\ NoDataOK' /\ ReadOK'
    BY <1>1, <1>4, <2>1, <2>2, <2>5, KindsStay DEF ReportOK, RefusedOK, NoDataOK, ReadOK
  <2>7. OverOK'
    BY <2>4 DEF OverOK, DataStageExact, SupportedNotStalled
  <2>8. ShapeOK'
    BY <1>1, <1>6, <2>4, Sizes DEF IInv, ShapeOK, TypeOK
  <2>9. QED
    BY <1>5, <2>6, <2>7, <2>8 DEF IInv
<1>8. CASE status
  <2>1. epOut' = Took(0) /\ phase' = "ok" /\ sent' = sent
    BY <1>2, <1>8
  <2>2. IsRead(req)
    BY <1>4, <1>8 DEF IInv, KindOK, IsReport, IsNoData
  <2>3. got = [i \in 1..Len(got) |-> Base(req) + i] /\ Len(got) = Wanted(req)
    BY <1>3, <1>4, <1>8, <2>2 DEF IInv, ReadOK
  <2>4. req \in Request /\ req.name # "SET_REPORT"
    BY <2>2, KindsDiffer DEF IInv, ShapeOK
  <2>5. Min({req.wLength, Response(req)}) = Wanted(req)
    BY <2>4, Numbers, MinOfTwo DEF Wanted
  <2>6. got' = [i \in 1..Min({req.wLength, Response(req)}) |-> Base(req) + i]
    BY <1>1, <2>3, <2>5
  <2>7. DataStageExact' /\ SupportedNotStalled'
    BY <1>1, <1>4, <2>1, <2>4, <2>6, KindsStay DEF DataStageExact, SupportedNotStalled
  <2>8. OverOK'
    BY <1>1, <1>3, <2>4, <2>7 DEF OverOK
  <2>9. RefusedOK' /\ ReadOK' /\ NoDataOK' /\ ReportOK'
    BY <2>1 DEF RefusedOK, ReadOK, NoDataOK, ReportOK, Served, Live
  <2>10. ShapeOK'
    BY <1>1, <1>6, <2>1, Sizes DEF IInv, ShapeOK, TypeOK
  <2>11. QED
    BY <1>5, <2>8, <2>9, <2>10 DEF IInv
<1>9. QED
  BY <1>2, <1>7, <1>8

LEMMA StallTokenKeeps == ASSUME IInv, StallToken PROVE IInv'
<1>1. /\ ~flag /\ Live /\ phase' = "stalled" /\ (IF AsksIn THEN epIn ELSE epOut).is = "stall"
      /\ UNCHANGED <<state, configuration, transfer, notified, epIn, epOut>>
      /\ UNCHANGED <<setup, flag, intOut, intIn, isr, req, got, sent, valid, raced, aborts>>
  BY DEF StallToken, device, list, Live
<1>2. Served
  BY <1>1, AnsweredIsServed
<1>3. valid => raced
  <2>1. CASE valid /\ IsReport(req)
    BY <1>1, <1>2, <2>1 DEF IInv, ReportOK, Expected, Arrived, Handed, AsksIn, IsReport
  <2>2. CASE valid /\ IsRead(req)
    BY <1>1, <1>2, <2>2 DEF IInv, ReadOK
  <2>3. CASE valid /\ IsNoData(req)
    BY <1>1, <1>2, <2>3, Sizes DEF IInv, NoDataOK, AsksIn, IsNoData
  <2>4. QED
    BY <2>1, <2>2, <2>3 DEF IInv, KindOK
<1>4. ShapeOK' /\ KindOK' /\ WaitingOK' /\ RaceOK'
  BY <1>1, KindsStay DEF IInv, ShapeOK, TypeOK, KindOK, WaitingOK, RaceOK, Live
<1>5. RefusedOK' /\ ReadOK' /\ NoDataOK' /\ ReportOK'
  BY <1>1 DEF RefusedOK, ReadOK, NoDataOK, ReportOK, Served, Live
<1>6. OverOK'
  BY <1>1, <1>3 DEF OverOK, DataStageExact, SupportedNotStalled
<1>7. QED
  BY <1>4, <1>5, <1>6 DEF IInv

LEMMA BusResetKeeps == ASSUME IInv, BusReset PROVE IInv'
<1>1. /\ isr = "none" /\ state' = "default" /\ configuration' = 0 /\ phase' = "idle"
      /\ UNCHANGED <<transfer, notified, epIn, epOut, setup, flag, intOut, intIn, isr>>
      /\ UNCHANGED <<req, got, sent, valid, raced>>
  BY DEF BusReset, list
<1>2. ShapeOK' /\ KindOK' /\ WaitingOK' /\ RaceOK'
  BY <1>1, KindsStay DEF IInv, ShapeOK, TypeOK, KindOK, WaitingOK, RaceOK, Live
<1>3. RefusedOK' /\ ReadOK' /\ NoDataOK' /\ ReportOK'
  BY <1>1 DEF RefusedOK, ReadOK, NoDataOK, ReportOK, Served, Live
<1>4. OverOK'
  BY <1>1 DEF OverOK, DataStageExact, SupportedNotStalled
<1>5. QED
  BY <1>2, <1>3, <1>4 DEF IInv

LEMMA StutterKeeps == ASSUME IInv, UNCHANGED vars PROVE IInv'
<1>1. /\ UNCHANGED <<state, configuration, transfer, notified, epIn, epOut, setup, flag>>
      /\ UNCHANGED <<intOut, intIn, isr, phase, req, got, sent, valid, raced, aborts>>
  BY DEF vars, device, list, host
<1>2. Waiting' = Waiting /\ Live' = Live /\ Served' = Served /\ Quiet' = Quiet /\ Received' = Received
  BY <1>1, KindsStay DEF Waiting, Live, Served, Quiet, Received
<1>3. ShapeOK' /\ KindOK' /\ WaitingOK' /\ RaceOK'
  BY <1>1, <1>2, KindsStay, ValidStays DEF IInv, ShapeOK, TypeOK, KindOK, WaitingOK, RaceOK
<1>4. RefusedOK' /\ NoDataOK' /\ ReadOK'
  BY <1>1, <1>2, KindsStay DEF IInv, RefusedOK, NoDataOK, ReadOK
<1>5. ReportOK'
  BY <1>1, <1>2, KindsStay DEF IInv, ReportOK, Expected, Arrived, Handed
<1>6. OverOK'
  BY <1>1, <1>2, KindsStay DEF IInv, OverOK, DataStageExact, SupportedNotStalled
<1>7. QED
  BY <1>3, <1>4, <1>5, <1>6 DEF IInv

LEMMA NextKeeps == ASSUME IInv, [Next]_vars PROVE IInv'
<1>1. CASE usbisr
  BY <1>1, IsrOutKeeps, IsrSetupKeeps, SetupCallbackKeeps, OutKeeps, InKeeps DEF usbisr
<1>2. CASE \E r \in Requests : Setup(r)
  BY <1>2, SetupKeeps
<1>3. CASE Token
  BY <1>3, InTokenKeeps, OutTokenKeeps, StallTokenKeeps DEF Token
<1>4. CASE Nak \/ UNCHANGED vars
  BY <1>4, StutterKeeps DEF Nak
<1>5. CASE BusReset
  BY <1>5, BusResetKeeps
<1>6. QED
  BY <1>1, <1>2, <1>3, <1>4, <1>5 DEF Next

-----------------------------------------------------------------------------
(* Theorems.                                                               *)

THEOREM Invariant == Spec => []IInv
<1>1. Init => IInv
  BY InitHolds
<1>2. IInv /\ [Next]_vars => IInv'
  BY NextKeeps
<1>3. QED
  BY <1>1, <1>2, PTL DEF Spec

\* The device, the transfer and the entries of endpoint 0 have their types.
THEOREM TypeCorrect == Spec => []TypeOK
<1>1. IInv => TypeOK
  BY DEF IInv, ShapeOK
<1>2. QED
  BY <1>1, Invariant, PTL

\* A control transfer that ends well did what was asked (controlSetup, controlIn
\* and controlOut of src/USBDevice/USBDevice/USBDevice.cpp), whatever requests,
\* aborted transfers, bus resets and races came before it.
THEOREM DataExact == Spec => []DataStageExact
<1>1. IInv => DataStageExact
  BY DEF IInv, OverOK
<1>2. QED
  BY <1>1, Invariant, PTL

\* Only a SETUP packet that came between the two statements of usbisr makes
\* the device stall a request it supports.
THEOREM NotStalled == Spec => []SupportedNotStalled
<1>1. IInv => SupportedNotStalled
  BY DEF IInv, OverOK
<1>2. QED
  BY <1>1, Invariant, PTL
=============================================================================
