-------------------------- MODULE MCControlTransfer --------------------------
(***************************************************************************)
(* Instances of ControlTransfer for TLC.                                   *)
(***************************************************************************)
EXTENDS ControlTransfer

\* Bounds: packets of 2 bytes, responses of a half, one, two, and two and a half
\* packets.  Of the configurations 0, 1 and 2, one is asked for in more than a byte.
MCMaxPacket == 2
MCByte == 4
MCDescriptor == {1, 2, 4, 5}
MCReportLength == 1
MCMaxAborts == 2

Req(n, d, v, i, w) == [name |-> n, dir |-> d, value |-> v, wIndex |-> i, wLength |-> w]

\* Descriptors there are and there is not, asked for in part, exactly, and with
\* room to spare; each other request as it should be and once as it should not.
MCRequests ==
    {Req("GET_DESCRIPTOR", "in", p[1], 0, p[2]) :
        p \in {<<1, 0>>, <<1, 3>>, <<3, 3>>, <<4, 4>>, <<4, 6>>, <<5, 3>>, <<5, 6>>}}
    \cup {Req("GET_STATUS", "in", 0, i, 2) : i \in {0, 1}}
    \cup {Req("SET_ADDRESS", "out", v, 0, 0) : v \in {0, 1}}
    \cup {Req("SET_CONFIGURATION", "out", v, 0, 0) : v \in {0, 1, 2, 5}}
    \cup {Req("SET_FEATURE", "out", 0, i, 0) : i \in {0, 1}}
    \cup {Req("SET_REPORT", "out", 0, 0, w) : w \in {1, 2}}
    \cup {Req("GET_CONFIGURATION", "in", 0, 0, 1), Req("GET_INTERFACE", "in", 0, 0, 1),
          Req("SET_ADDRESS", "in", 1, 0, 1), Req("OTHER", "out", 0, 0, 0),
          Req("CLEAR_FEATURE", "out", 0, 0, 0), Req("SET_INTERFACE", "out", 0, 0, 0),
          Req("GET_HID_DESCRIPTOR", "in", 0, 0, 3)}
=============================================================================
