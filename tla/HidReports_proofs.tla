-------------------------- MODULE HidReports_proofs --------------------------
(***************************************************************************)
(* Theorems about the report endpoints, for every set of commands and any  *)
(* number of resets and drops: whatever main, the interrupt and the host do, one *)
(* report at most is on its way from the OUT endpoint to the IN endpoint.  *)
(***************************************************************************)
EXTENDS HidReports, TLAPS, SequenceTheorems

-----------------------------------------------------------------------------
(* The inductive invariant.                                                *)

\* Where a command can be on its way: its interrupt, the completion, main, the
\* IN endpoint.
Copied == pc \in {"serve", "write", "go"} \/ (pc \in {"use", "arm"} /\ read)
MainHolds == pc \in {"which", "copy"} \/ Copied
InHolds == \E b \in Buffer : "A" \in in[b]
Pending == intOut \/ complete \/ MainHolds \/ InHolds

\* At one place at a time; main waits while the IN endpoint has it, unless a
\* reset took the endpoints away.
OnePlace ==
    /\ intOut => ~complete /\ ~MainHolds /\ ~InHolds
    /\ complete => ~MainHolds /\ ~InHolds
    /\ InHolds => ~MainHolds
    /\ InHolds /\ configured => pc = "pend"
    /\ \A b \in Buffer : "A" \in in[b] => b = inUse
    /\ pc = "go" => bf = inUse
    /\ pc \in {"result", "clear"} => ~read
    /\ pc = "clear" => complete

Last == asked[Len(asked)]

\* It is the command the host asked last.
IsLast ==
    /\ Pending => asked # <<>>
    /\ intOut \/ complete \/ pc \in {"which", "copy"} => ctOut = Last.cmd
    /\ Copied => report.of = Last.cmd
    /\ \A b \in Buffer : "A" \in in[b] => inData[b].of = Last.cmd

\* The host asks again only when there is none on its way.
AsksInTurn ==
    /\ waiting = "send" => ~Pending
    /\ configured /\ settled /\ waiting # "reply" => ~Pending

\* What main has in its report, or the IN endpoint, is of a command without an
\* answer; main empties its report once it was sent.
Unanswered(c) == c # 0 => \E i \in DOMAIN asked : asked[i].cmd = c
DataUnanswered ==
    /\ pc \notin {"pend", "empty"} => Unanswered(report.data)
    /\ \A b \in Buffer : "A" \in in[b] => Unanswered(inData[b].data)

\* A report is dropped while the host waits for its reply, and nothing is left.
DroppedWaits == dropped => waiting = "reply" /\ ~Pending

\* All commands but the one the host waits for were lost, and their numbers
\* differ.
LostBefore ==
    /\ \A i \in DOMAIN asked : i < Len(asked) \/ waiting # "reply" => asked[i].lost
    /\ \A i, j \in DOMAIN asked : asked[i].cmd = asked[j].cmd => i = j

IInv == /\ TypeOK /\ OnePlace /\ IsLast /\ AsksInTurn /\ LostBefore
        /\ DataUnanswered /\ DroppedWaits

-----------------------------------------------------------------------------
(* Main keeps it: it takes a report from the completion and carries it on. *)

LEMMA InitEstablishes == Init => IInv
<1> SUFFICES ASSUME Init PROVE IInv
  OBVIOUS
<1> USE DEF Init, Clear, Empty, Buffer
<1>1. TypeOK
  <2>1. out \in Flags /\ in \in Flags
    BY DEF Flags
  <2>2. asked \in Seq([cmd : Command, lost : BOOLEAN])
    OBVIOUS
  <2>3. inData \in [Buffer -> Reports] /\ report \in Reports
    BY DEF Reports
  <2>4. got \in [of : Command \cup {0}, data : Command \cup {0}, turn : {0, 1}]
    OBVIOUS
  <2> QED
    BY <2>1, <2>2, <2>3, <2>4, HidAssumption DEF TypeOK, Labels
<1>2. ~Pending
  BY DEF Pending, InHolds, MainHolds, Copied
<1>3. OnePlace /\ IsLast /\ AsksInTurn
  BY <1>2 DEF OnePlace, IsLast, AsksInTurn, Pending, InHolds, MainHolds, Copied
<1>4. LostBefore
  BY DEF LostBefore
<1>5. DataUnanswered /\ DroppedWaits
  BY DEF DataUnanswered, Unanswered, DroppedWaits
<1> QED
  BY <1>1, <1>3, <1>4, <1>5 DEF IInv

LEMMA ReadEP_NBKeeps == ASSUME IInv, ReadEP_NB PROVE IInv'
<1> USE DEF ReadEP_NB, At, Goto, IInv, list, device, host, configured
<1>1. TypeOK'
  <2>1. pc' \in Labels /\ read' \in BOOLEAN /\ parsed' \in BOOLEAN
    BY DEF Labels
  <2>2. report' \in Reports
    BY DEF TypeOK, Reports, Empty
  <2> QED
    BY <2>1, <2>2 DEF TypeOK
<1>2. OnePlace'
  BY DEF TypeOK, OnePlace, MainHolds, Copied, InHolds
<1>3. IsLast'
  BY DEF TypeOK, OnePlace, IsLast, Pending, MainHolds, Copied, InHolds, Last
<1>4. AsksInTurn'
  BY DEF TypeOK, OnePlace, AsksInTurn, Pending, MainHolds, Copied, InHolds
<1>5. LostBefore'
  BY DEF LostBefore
<1>6. DataUnanswered'
  BY DEF TypeOK, OnePlace, IsLast, DataUnanswered, Unanswered, Pending, MainHolds, Copied, InHolds, Last, Empty
<1>7. DroppedWaits'
  BY DEF TypeOK, OnePlace, DroppedWaits, Pending, MainHolds, Copied, InHolds, Empty
<1> QED
  BY <1>1, <1>2, <1>3, <1>4, <1>5, <1>6, <1>7

LEMMA ReadResultKeeps == ASSUME IInv, ReadResult PROVE IInv'
<1> USE DEF ReadResult, At, Goto, IInv, list, device
<1>1. TypeOK'
  BY DEF TypeOK, Labels
<1>2. OnePlace'
  BY DEF TypeOK, OnePlace, MainHolds, Copied, InHolds, configured
<1>3. IsLast'
  BY DEF TypeOK, OnePlace, IsLast, Pending, MainHolds, Copied, InHolds, Last
<1>4. AsksInTurn'
  BY DEF TypeOK, OnePlace, AsksInTurn, Pending, MainHolds, Copied, InHolds,
     configured
<1>5. LostBefore'
  BY DEF LostBefore
<1>6. DataUnanswered'
  BY DEF TypeOK, OnePlace, IsLast, DataUnanswered, Unanswered, Pending, MainHolds, Copied, InHolds, Last
<1>7. DroppedWaits'
  BY DEF TypeOK, OnePlace, DroppedWaits, Pending, MainHolds, Copied, InHolds
<1> QED
  BY <1>1, <1>2, <1>3, <1>4, <1>5, <1>6, <1>7

LEMMA ReadCompleteKeeps == ASSUME IInv, ReadComplete PROVE IInv'
<1> USE DEF ReadComplete, At, Goto, IInv, list, host
<1>1. TypeOK'
  BY DEF TypeOK, Labels, CompleteAfterRead
<1>2. OnePlace'
  BY DEF TypeOK, OnePlace, MainHolds, Copied, InHolds, configured, CompleteAfterRead
<1>3. IsLast'
  BY DEF TypeOK, OnePlace, IsLast, Pending, MainHolds, Copied, InHolds, Last,
     CompleteAfterRead
<1>4. AsksInTurn'
  BY DEF TypeOK, OnePlace, AsksInTurn, Pending, MainHolds, Copied, InHolds,
     configured, CompleteAfterRead
<1>5. LostBefore'
  BY DEF LostBefore
<1>6. DataUnanswered'
  BY DEF TypeOK, OnePlace, IsLast, DataUnanswered, Unanswered, Pending, MainHolds, Copied, InHolds, Last
<1>7. DroppedWaits'
  BY DEF TypeOK, OnePlace, DroppedWaits, Pending, MainHolds, Copied, InHolds
<1> QED
  BY <1>1, <1>2, <1>3, <1>4, <1>5, <1>6, <1>7

LEMMA ReadWhichKeeps == ASSUME IInv, ReadWhich PROVE IInv'
<1> USE DEF ReadWhich, At, Goto, IInv, list, device, host
<1>1. TypeOK'
  BY DEF TypeOK, Labels, Buffer, Other
<1>2. OnePlace'
  BY DEF TypeOK, OnePlace, MainHolds, Copied, InHolds, configured, Buffer
<1>3. IsLast'
  BY DEF TypeOK, OnePlace, IsLast, Pending, MainHolds, Copied, InHolds, Last, Buffer
<1>4. AsksInTurn'
  BY DEF TypeOK, OnePlace, AsksInTurn, Pending, MainHolds, Copied, InHolds, configured
<1>5. LostBefore'
  BY DEF LostBefore
<1>6. DataUnanswered'
  BY DEF TypeOK, OnePlace, IsLast, DataUnanswered, Unanswered, Pending, MainHolds, Copied, InHolds, Last
<1>7. DroppedWaits'
  BY DEF TypeOK, OnePlace, DroppedWaits, Pending, MainHolds, Copied, InHolds
<1> QED
  BY <1>1, <1>2, <1>3, <1>4, <1>5, <1>6, <1>7

LEMMA ReadCopyKeeps == ASSUME IInv, ReadCopy PROVE IInv'
<1> USE DEF ReadCopy, At, Goto, IInv, list, device, host
<1>1. TypeOK'
  BY DEF TypeOK, Reports, Labels
<1>2. OnePlace'
  BY DEF TypeOK, OnePlace, MainHolds, Copied, InHolds, configured
<1>3. IsLast'
  BY DEF TypeOK, OnePlace, IsLast, Pending, MainHolds, Copied, InHolds, Last
<1>4. AsksInTurn'
  BY DEF TypeOK, OnePlace, AsksInTurn, Pending, MainHolds, Copied, InHolds, configured
<1>5. LostBefore'
  BY DEF LostBefore
<1>6. DataUnanswered'
  BY DEF TypeOK, OnePlace, IsLast, DataUnanswered, Unanswered, Pending, MainHolds, Copied, InHolds, Last
<1>7. DroppedWaits'
  BY DEF TypeOK, OnePlace, DroppedWaits, Pending, MainHolds, Copied, InHolds
<1> QED
  BY <1>1, <1>2, <1>3, <1>4, <1>5, <1>6, <1>7

LEMMA ReadStartKeeps == ASSUME IInv, ReadStart PROVE IInv'
<1> USE DEF ReadStart, At, Goto, IInv, list, device, host
<1>1. TypeOK'
  BY DEF TypeOK, Labels, Buffer
<1>2. OnePlace'
  BY DEF TypeOK, OnePlace, MainHolds, Copied, InHolds, configured, Buffer
<1>3. IsLast'
  BY DEF TypeOK, OnePlace, IsLast, Pending, MainHolds, Copied, InHolds, Last, Buffer
<1>4. AsksInTurn'
  BY DEF TypeOK, OnePlace, AsksInTurn, Pending, MainHolds, Copied, InHolds, configured
<1>5. LostBefore'
  BY DEF LostBefore
<1>6. DataUnanswered'
  BY DEF TypeOK, OnePlace, IsLast, DataUnanswered, Unanswered, Pending, MainHolds, Copied, InHolds, Last
<1>7. DroppedWaits'
  BY DEF TypeOK, OnePlace, DroppedWaits, Pending, MainHolds, Copied, InHolds
<1> QED
  BY <1>1, <1>2, <1>3, <1>4, <1>5, <1>6, <1>7

LEMMA EndpointReadKeeps == ASSUME IInv, EndpointRead PROVE IInv'
<1> USE DEF EndpointRead, Dropping, At, Goto, IInv, host
<1>1. TypeOK'
  BY DEF TypeOK, Flags, Labels, Buffer, Armed
<1>2. OnePlace'
  BY DEF TypeOK, OnePlace, MainHolds, Copied, InHolds, configured, Buffer
<1>3. IsLast'
  BY DEF TypeOK, OnePlace, IsLast, Pending, MainHolds, Copied, InHolds, Last, Buffer
<1>4. AsksInTurn'
  BY DEF TypeOK, OnePlace, AsksInTurn, Pending, MainHolds, Copied, InHolds, configured
<1>5. LostBefore'
  BY DEF LostBefore
<1>6. DataUnanswered'
  BY DEF TypeOK, OnePlace, IsLast, DataUnanswered, Unanswered, Pending, MainHolds, Copied, InHolds, Last
<1>7. DroppedWaits'
  BY DEF TypeOK, OnePlace, DroppedWaits, Pending, MainHolds, Copied, InHolds
<1> QED
  BY <1>1, <1>2, <1>3, <1>4, <1>5, <1>6, <1>7

LEMMA DispatchKeeps == ASSUME IInv, Dispatch PROVE IInv'
<1> USE DEF Dispatch, At, Goto, IInv, list, device, host
<1>1. TypeOK'
  BY DEF TypeOK, Labels
<1>2. OnePlace'
  BY DEF TypeOK, OnePlace, MainHolds, Copied, InHolds, configured
<1>3. IsLast'
  BY DEF TypeOK, OnePlace, IsLast, Pending, MainHolds, Copied, InHolds, Last
<1>4. AsksInTurn'
  BY DEF TypeOK, OnePlace, AsksInTurn, Pending, MainHolds, Copied, InHolds, configured
<1>5. LostBefore'
  BY DEF LostBefore
<1>6. DataUnanswered'
  BY DEF TypeOK, OnePlace, IsLast, DataUnanswered, Unanswered, Pending, MainHolds, Copied, InHolds, Last
<1>7. DroppedWaits'
  BY DEF TypeOK, OnePlace, DroppedWaits, Pending, MainHolds, Copied, InHolds
<1> QED
  BY <1>1, <1>2, <1>3, <1>4, <1>5, <1>6, <1>7

LEMMA WriteKeeps == ASSUME IInv, Write PROVE IInv'
<1> USE DEF Write, At, Goto, IInv, list, device, host, configured
<1>1. TypeOK'
  BY DEF TypeOK, Labels, Buffer
<1>2. OnePlace'
  BY DEF TypeOK, OnePlace, MainHolds, Copied, InHolds, Buffer
<1>3. IsLast'
  BY DEF TypeOK, OnePlace, IsLast, Pending, MainHolds, Copied, InHolds, Last, Buffer
<1>4. AsksInTurn'
  BY DEF TypeOK, OnePlace, AsksInTurn, Pending, MainHolds, Copied, InHolds
<1>5. LostBefore'
  BY DEF LostBefore
<1>6. DataUnanswered'
  BY DEF TypeOK, OnePlace, IsLast, DataUnanswered, Unanswered, Pending, MainHolds, Copied, InHolds, Last
<1>7. DroppedWaits'
  BY DEF TypeOK, OnePlace, DroppedWaits, Pending, MainHolds, Copied, InHolds
<1> QED
  BY <1>1, <1>2, <1>3, <1>4, <1>5, <1>6, <1>7

LEMMA EndpointWriteKeeps == ASSUME IInv, EndpointWrite PROVE IInv'
<1> USE DEF EndpointWrite, At, Goto, IInv, host
<1>1. TypeOK'
  BY DEF TypeOK, Reports, Flags, Labels, Buffer
<1>2. OnePlace'
  BY DEF TypeOK, OnePlace, MainHolds, Copied, InHolds, configured, Buffer
<1>3. IsLast'
  BY DEF TypeOK, OnePlace, IsLast, Pending, MainHolds, Copied, InHolds, Last, Buffer
<1>4. AsksInTurn'
  BY DEF TypeOK, OnePlace, AsksInTurn, Pending, MainHolds, Copied, InHolds, configured
<1>5. LostBefore'
  BY DEF LostBefore
<1>6. DataUnanswered'
  BY DEF TypeOK, OnePlace, IsLast, DataUnanswered, Unanswered, Pending, MainHolds, Copied, InHolds, Last, Buffer
<1>7. DroppedWaits'
  BY DEF TypeOK, OnePlace, DroppedWaits, Pending, MainHolds, Copied, InHolds, Buffer
<1> QED
  BY <1>1, <1>2, <1>3, <1>4, <1>5, <1>6, <1>7

LEMMA WriteResultKeeps == ASSUME IInv, WriteResult PROVE IInv'
<1> USE DEF WriteResult, At, Goto, IInv, list, device, host, configured
<1>1. TypeOK'
  BY DEF TypeOK, Labels
<1>2. OnePlace'
  BY DEF TypeOK, OnePlace, MainHolds, Copied, InHolds
<1>3. IsLast'
  BY DEF TypeOK, OnePlace, IsLast, Pending, MainHolds, Copied, InHolds, Last
<1>4. AsksInTurn'
  BY DEF TypeOK, OnePlace, AsksInTurn, Pending, MainHolds, Copied, InHolds
<1>5. LostBefore'
  BY DEF LostBefore
<1>6. DataUnanswered'
  BY DEF TypeOK, OnePlace, IsLast, DataUnanswered, Unanswered, Pending, MainHolds, Copied, InHolds, Last
<1>7. DroppedWaits'
  BY DEF TypeOK, OnePlace, DroppedWaits, Pending, MainHolds, Copied, InHolds
<1> QED
  BY <1>1, <1>2, <1>3, <1>4, <1>5, <1>6, <1>7

LEMMA EmptyReportsKeeps == ASSUME IInv, EmptyReports PROVE IInv'
<1> USE DEF EmptyReports, At, Goto, IInv, list, device, host
<1>1. TypeOK'
  BY DEF TypeOK, Reports, Labels, Empty
<1>2. OnePlace'
  BY DEF TypeOK, OnePlace, MainHolds, Copied, InHolds, configured
<1>3. IsLast'
  BY DEF TypeOK, OnePlace, IsLast, Pending, MainHolds, Copied, InHolds, Last
<1>4. AsksInTurn'
  BY DEF TypeOK, OnePlace, AsksInTurn, Pending, MainHolds, Copied, InHolds, configured
<1>5. LostBefore'
  BY DEF LostBefore
<1>6. DataUnanswered'
  BY DEF TypeOK, OnePlace, IsLast, DataUnanswered, Unanswered, Pending, MainHolds, Copied, InHolds, Last, Empty
<1>7. DroppedWaits'
  BY DEF TypeOK, OnePlace, DroppedWaits, Pending, MainHolds, Copied, InHolds, Empty
<1> QED
  BY <1>1, <1>2, <1>3, <1>4, <1>5, <1>6, <1>7

-----------------------------------------------------------------------------
(* The interrupt and the host.                                             *)

LEMMA usbisrKeeps == ASSUME IInv, usbisr PROVE IInv'
<1> USE DEF usbisr, IInv, list, main, host
<1>1. TypeOK'
  BY DEF TypeOK
<1>2. OnePlace'
  BY DEF TypeOK, OnePlace, MainHolds, Copied, InHolds
<1>3. IsLast'
  BY DEF TypeOK, OnePlace, IsLast, Pending, MainHolds, Copied, InHolds, Last
<1>4. AsksInTurn'
  BY DEF TypeOK, OnePlace, AsksInTurn, Pending, MainHolds, Copied, InHolds, configured
<1>5. LostBefore'
  BY DEF LostBefore
<1>6. DataUnanswered'
  BY DEF TypeOK, OnePlace, IsLast, DataUnanswered, Unanswered, Pending, MainHolds, Copied, InHolds, Last
<1>7. DroppedWaits'
  BY DEF TypeOK, OnePlace, DroppedWaits, Pending, MainHolds, Copied, InHolds
<1> QED
  BY <1>1, <1>2, <1>3, <1>4, <1>5, <1>6, <1>7

LEMMA SetConfigurationKeeps == ASSUME IInv, SetConfiguration PROVE IInv'
<1> USE DEF SetConfiguration, IInv, main, configured
<1>1. TypeOK'
  <2>1. out' \in Flags /\ in' \in Flags
    BY DEF TypeOK, Flags, Buffer, Clear
  <2> QED
    BY <2>1 DEF TypeOK
<1>2. OnePlace'
  BY SMTT(30) DEF TypeOK, OnePlace, MainHolds, Copied, InHolds, Buffer, Clear, Flags
<1>3. IsLast'
  BY DEF TypeOK, OnePlace, IsLast, Pending, MainHolds, Copied, InHolds, Last, Buffer,
     Clear, Flags
<1>4. AsksInTurn'
  BY DEF TypeOK, OnePlace, AsksInTurn, Pending, MainHolds, Copied, InHolds, Buffer,
     Clear, Flags
<1>5. LostBefore'
  BY DEF LostBefore
<1>6. DataUnanswered'
  BY DEF TypeOK, OnePlace, IsLast, DataUnanswered, Unanswered, Pending, MainHolds, Copied, InHolds, Last,
     Buffer, Clear, Flags
<1>7. DroppedWaits'
  BY DEF TypeOK, OnePlace, DroppedWaits, Pending, MainHolds, Copied, InHolds,
     Buffer, Clear, Flags
<1> QED
  BY <1>1, <1>2, <1>3, <1>4, <1>5, <1>6, <1>7

LEMMA HaltKeeps == ASSUME IInv, Halt PROVE IInv'
<1> USE DEF Halt, IInv, main, configured
<1>1. TypeOK'
  <2>1. out' \in Flags /\ in' \in Flags
    BY DEF TypeOK, Flags, Buffer, Halted
  <2> QED
    BY <2>1 DEF TypeOK
<1>2. OnePlace'
  BY DEF TypeOK, OnePlace, MainHolds, Copied, InHolds, Buffer, Halted, Flags
<1>3. IsLast'
  BY DEF TypeOK, OnePlace, IsLast, Pending, MainHolds, Copied, InHolds, Last, Buffer,
     Halted, Flags
<1>4. AsksInTurn'
  BY DEF TypeOK, OnePlace, AsksInTurn, Pending, MainHolds, Copied, InHolds, Buffer,
     Halted, Flags
<1>5. LostBefore'
  BY DEF LostBefore
<1>6. DataUnanswered'
  BY DEF TypeOK, OnePlace, IsLast, DataUnanswered, Unanswered, Pending, MainHolds, Copied, InHolds, Last,
     Buffer, Halted, Flags
<1>7. DroppedWaits'
  BY DEF TypeOK, OnePlace, DroppedWaits, Pending, MainHolds, Copied, InHolds,
     Buffer, Halted, Flags
<1> QED
  BY <1>1, <1>2, <1>3, <1>4, <1>5, <1>6, <1>7

LEMMA UnhaltKeeps == ASSUME IInv, Unhalt PROVE IInv'
<1> USE DEF Unhalt, IInv, main, configured
<1>1. TypeOK'
  <2>1. out' \in Flags /\ in' \in Flags
    BY DEF TypeOK, Flags, Buffer, Clear
  <2>2. halted' \subseteq {"out", "in"}
    BY DEF TypeOK
  <2>3. UNCHANGED <<outUse, inUse, ctOut, inData, intOut, complete, state, main,
                    waiting, asked, got, dropped, settled, losses>>
    OBVIOUS
  <2> HIDE DEF Unhalt
  <2> QED
    BY <2>1, <2>2, <2>3 DEF TypeOK
<1>2. OnePlace'
  BY DEF TypeOK, OnePlace, MainHolds, Copied, InHolds, Buffer, Clear, Flags
<1>3. IsLast'
  BY DEF TypeOK, OnePlace, IsLast, Pending, MainHolds, Copied, InHolds, Last, Buffer,
     Clear, Flags
<1>4. AsksInTurn'
  BY DEF TypeOK, OnePlace, AsksInTurn, Pending, MainHolds, Copied, InHolds, Buffer,
     Clear, Flags
<1>5. LostBefore'
  BY DEF LostBefore
<1>6. DataUnanswered'
  BY DEF TypeOK, OnePlace, IsLast, DataUnanswered, Unanswered, Pending, MainHolds, Copied, InHolds, Last,
     Buffer, Clear, Flags
<1>7. DroppedWaits'
  BY DEF TypeOK, OnePlace, DroppedWaits, Pending, MainHolds, Copied, InHolds,
     Buffer, Clear, Flags
<1> QED
  BY <1>1, <1>2, <1>3, <1>4, <1>5, <1>6, <1>7

LEMMA AskCommandKeeps == ASSUME IInv, AskCommand PROVE IInv'
<1> USE DEF AskCommand, IInv, list, device, main, configured
<1>1. TypeOK'
  BY DEF TypeOK
<1>2. OnePlace'
  BY DEF TypeOK, OnePlace, MainHolds, Copied, InHolds
<1>3. IsLast'
  BY DEF TypeOK, OnePlace, IsLast, Pending, MainHolds, Copied, InHolds, Last
<1>4. AsksInTurn'
  BY DEF TypeOK, OnePlace, AsksInTurn, Pending, MainHolds, Copied, InHolds
<1>5. LostBefore'
  BY DEF LostBefore
<1>6. DataUnanswered'
  BY DEF TypeOK, OnePlace, IsLast, DataUnanswered, Unanswered, Pending, MainHolds, Copied, InHolds, Last
<1>7. DroppedWaits'
  BY DEF TypeOK, OnePlace, DroppedWaits, Pending, MainHolds, Copied, InHolds
<1> QED
  BY <1>1, <1>2, <1>3, <1>4, <1>5, <1>6, <1>7

LEMMA LostRecord ==
    ASSUME NEW r \in [cmd : Command, lost : BOOLEAN], NEW s, s = [r EXCEPT !.lost = TRUE]
    PROVE  s \in [cmd : Command, lost : BOOLEAN] /\ s.cmd = r.cmd /\ s.lost
BY Zenon

\* Commands that are lost stay the same commands.
LEMMA LosingKeeps ==
    ASSUME IInv, asked' = AllLost
    PROVE  /\ asked' \in Seq([cmd : Command, lost : BOOLEAN])
           /\ Len(asked') = Len(asked) /\ DOMAIN asked' = DOMAIN asked
           /\ \A i \in DOMAIN asked : asked'[i].cmd = asked[i].cmd /\ asked'[i].lost
           /\ asked # <<>> => asked' # <<>> /\ Last'.cmd = Last.cmd
           /\ LostBefore'
           /\ \A c : Unanswered(c) => (c # 0 => \E i \in DOMAIN asked' : asked'[i].cmd = c)
<1> DEFINE R == [cmd : Command, lost : BOOLEAN]
           lostOf(i) == [asked[i] EXCEPT !.lost = TRUE]
<1>1. asked \in Seq(R)
  BY DEF IInv, TypeOK
<1>2. asked' = [i \in DOMAIN asked |-> lostOf(i)]
  BY Zenon DEF AllLost
<1>3. \A i \in DOMAIN asked : asked[i] \in R
  <2> HIDE DEF R, lostOf
  <2> QED
    BY <1>1
<1>4. \A i \in DOMAIN asked : lostOf(i) \in R /\ lostOf(i).cmd = asked[i].cmd /\ lostOf(i).lost
  BY <1>3, LostRecord, Zenon
<1> HIDE DEF R, lostOf
<1>5. asked' = [i \in 1..Len(asked) |-> lostOf(i)] /\ Len(asked) \in Nat
  BY <1>1, <1>2
<1>6. asked' \in Seq(R) /\ Len(asked') = Len(asked) /\ DOMAIN asked' = DOMAIN asked
  BY <1>1, <1>4, <1>5
<1>7. \A i \in DOMAIN asked : asked'[i].cmd = asked[i].cmd /\ asked'[i].lost
  BY <1>1, <1>4, <1>5
<1>8. asked # <<>> => asked' # <<>> /\ Last'.cmd = Last.cmd
  <2>1. asked # <<>> => Len(asked) \in DOMAIN asked
    BY <1>1
  <2> QED
    BY <1>1, <1>6, <1>7, <2>1 DEF Last
<1>9. LostBefore'
  BY <1>6, <1>7 DEF LostBefore, IInv
<1>10. \A c : Unanswered(c) => (c # 0 => \E i \in DOMAIN asked' : asked'[i].cmd = c)
  BY <1>6, <1>7 DEF Unanswered
<1> QED
  BY <1>6, <1>7, <1>8, <1>9, <1>10 DEF R

\* A reset takes the endpoints away; the commands on their way are lost.
LEMMA BusResetKeeps == ASSUME IInv, BusReset PROVE IInv'
<1>1. asked' = AllLost
  BY DEF BusReset
<1>2. /\ state' = "default" /\ waiting' = "no" /\ halted' = {} /\ dropped' = FALSE
      /\ losses' = losses + 1 /\ \A b \in Buffer : out'[b] = {"D"} /\ in'[b] = {"D"}
      /\ UNCHANGED <<outUse, inUse, ctOut, inData, intOut, complete, main, got, settled>>
  BY DEF BusReset
<1> USE DEF IInv, main
<1>3. TypeOK'
  <2>1. out' \in Flags /\ in' \in Flags
    BY Zenon DEF BusReset, Flags
  <2>2. losses' \in Nat
    BY <1>2 DEF TypeOK
  <2> QED
    BY <1>1, <1>2, <2>1, <2>2, LosingKeeps DEF TypeOK
<1>4. ~InHolds' /\ ~configured' /\ \A b \in Buffer : "A" \notin in'[b]
  BY <1>2 DEF InHolds, configured
<1>5. OnePlace'
  BY <1>2, <1>4 DEF OnePlace, MainHolds, Copied, InHolds
<1>6. IsLast'
  BY <1>1, <1>2, <1>4, LosingKeeps DEF IsLast, Pending, MainHolds, Copied, InHolds
<1>7. AsksInTurn'
  BY <1>2, <1>4 DEF AsksInTurn
<1>8. LostBefore'
  BY <1>1, LosingKeeps
<1>9. DataUnanswered'
  BY <1>1, <1>2, <1>4, LosingKeeps DEF DataUnanswered, Unanswered
<1>10. DroppedWaits'
  BY <1>2 DEF DroppedWaits
<1> QED
  BY <1>3, <1>5, <1>6, <1>7, <1>8, <1>9, <1>10

\* Nothing is on its way when the host gives up.
LEMMA GiveUpKeeps == ASSUME IInv, GiveUp PROVE IInv'
<1>1. asked' = AllLost /\ dropped /\ dropped' = FALSE /\ waiting' = "no"
      /\ UNCHANGED <<device, main, halted, got, settled, losses>>
  BY DEF GiveUp
<1>2. ~Pending /\ ~Pending'
  BY <1>1 DEF IInv, DroppedWaits, Pending, MainHolds, Copied, InHolds, device, list, main
<1> USE DEF IInv, main, device, list
<1>3. TypeOK'
  BY <1>1, LosingKeeps DEF TypeOK
<1>4. OnePlace'
  BY <1>1 DEF OnePlace, MainHolds, Copied, InHolds, configured
<1>5. IsLast'
  BY <1>1, <1>2 DEF IsLast, Pending, MainHolds, Copied, InHolds
<1>6. AsksInTurn'
  BY <1>2 DEF AsksInTurn
<1>7. LostBefore'
  BY <1>1, LosingKeeps
<1>8. DataUnanswered'
  BY <1>1, LosingKeeps DEF DataUnanswered, Unanswered
<1>9. DroppedWaits'
  BY <1>1 DEF DroppedWaits
<1> QED
  BY <1>3, <1>4, <1>5, <1>6, <1>7, <1>8, <1>9

\* A command starts on its way: nothing else is, and all before it were lost.
LEMMA OutTokenKeeps == ASSUME IInv, OutToken PROVE IInv'
<1> USE DEF IInv
<1>1. PICK c \in Command :
        /\ Fresh(c) /\ ctOut' = c /\ asked' = Append(asked, [cmd |-> c, lost |-> FALSE])
  BY DEF OutToken, Fresh
<1>2. /\ out' = [out EXCEPT ![outUse] = @ \ {"A"}] /\ outUse' = 1 - outUse
      /\ intOut' = TRUE /\ waiting' = "reply" /\ waiting = "send"
      /\ UNCHANGED <<in, inUse, inData, complete, state, main, halted, got, dropped, settled,
                     losses>>
  BY DEF OutToken
<1>3. asked \in Seq([cmd : Command, lost : BOOLEAN])
  BY DEF TypeOK
<1>4. /\ asked' \in Seq([cmd : Command, lost : BOOLEAN])
      /\ Len(asked') = Len(asked) + 1 /\ Len(asked) \in Nat
      /\ asked'[Len(asked')] = [cmd |-> c, lost |-> FALSE]
      /\ \A i \in 1..Len(asked) : asked'[i] = asked[i]
      /\ DOMAIN asked' = 1..(Len(asked) + 1) /\ DOMAIN asked = 1..Len(asked)
  BY <1>1, <1>3
<1>5. ~Pending /\ ~InHolds
  BY <1>2 DEF AsksInTurn, Pending
<1>6. TypeOK'
  <2>1. out' \in Flags /\ outUse' \in Buffer
    BY <1>2 DEF TypeOK, Flags, Buffer
  <2> QED
    BY <1>1, <1>2, <1>4, <2>1 DEF TypeOK, main
<1>7. OnePlace'
  BY <1>2, <1>5 DEF OnePlace, Pending, InHolds, MainHolds, Copied, main, configured
<1>8. Last'.cmd = c /\ asked' # <<>>
  BY <1>4 DEF Last
<1>9. IsLast'
  BY <1>1, <1>2, <1>5, <1>8 DEF IsLast, Pending, InHolds, MainHolds, Copied, main
<1>10. AsksInTurn'
  BY <1>2 DEF AsksInTurn
<1>11. LostBefore'
  <2>1. \A i \in 1..Len(asked) : asked[i].lost /\ asked[i].cmd # c
    BY <1>1, <1>2, <1>4 DEF LostBefore, Fresh
  <2>2. \A i \in DOMAIN asked' : i \in 1..Len(asked) \/ i = Len(asked')
    BY <1>4
  <2>3. asked'[Len(asked')].cmd = c
    BY <1>4
  <2> QED
    BY <1>2, <1>4, <2>1, <2>2, <2>3 DEF LostBefore
<1>12. DataUnanswered'
  <2>1. \A x : Unanswered(x) => (x # 0 => \E i \in DOMAIN asked' : asked'[i].cmd = x)
    BY <1>4 DEF Unanswered
  <2> QED
    BY <1>2, <2>1 DEF DataUnanswered, Unanswered, main
<1>13. DroppedWaits'
  BY <1>2 DEF DroppedWaits
<1> QED
  BY <1>6, <1>7, <1>9, <1>10, <1>11, <1>12, <1>13

\* What the host fetches answers the command asked last.
LEMMA AnswersLast ==
    ASSUME IInv, InToken
    PROVE  /\ asked # <<>> /\ Len(asked) \in DOMAIN asked
           /\ inData[inUse].of = Last.cmd /\ asked' = <<>> /\ After(Len(asked)) = <<>>
           /\ Unanswered(inData[inUse].data)
<1> USE DEF IInv
<1>1. asked \in Seq([cmd : Command, lost : BOOLEAN]) /\ inUse \in Buffer
  BY DEF TypeOK
<1>2. "A" \in in[inUse]
  BY DEF InToken
<1>3. asked # <<>> /\ inData[inUse].of = Last.cmd
  BY <1>1, <1>2 DEF IsLast, Pending, InHolds
<1>4. Len(asked) \in DOMAIN asked /\ DOMAIN asked = 1..Len(asked) /\ Len(asked) \in Nat
  BY <1>1, <1>3
<1>5. \A i \in DOMAIN asked : asked[i].cmd = inData[inUse].of <=> i = Len(asked)
  BY <1>3, <1>4 DEF LostBefore, Last
<1>6. (CHOOSE i \in DOMAIN asked : asked[i].cmd = inData[inUse].of) = Len(asked)
  BY <1>4, <1>5
<1>7. After(Len(asked)) = <<>>
  BY <1>1, <1>4 DEF After
<1>8. asked' = After(CHOOSE i \in DOMAIN asked : asked[i].cmd = inData[inUse].of)
  BY <1>4, <1>5 DEF InToken
<1>9. Unanswered(inData[inUse].data)
  BY <1>1, <1>2 DEF DataUnanswered
<1> QED
  BY <1>3, <1>4, <1>6, <1>7, <1>8, <1>9

LEMMA InTokenKeeps == ASSUME IInv, InToken PROVE IInv'
<1> USE DEF IInv
<1>1. asked' = <<>>
  BY AnswersLast
<1>2. /\ "A" \in in[inUse] /\ in' = [in EXCEPT ![inUse] = @ \ {"A"}]
      /\ inUse' = 1 - inUse
      /\ got' = [of |-> inData[inUse].of, data |-> inData[inUse].data, turn |-> 1 - got.turn]
      /\ waiting' = (IF waiting = "reply" THEN "no" ELSE waiting)
      /\ UNCHANGED <<out, outUse, ctOut, inData, intOut, complete, state, main,
                     halted, dropped, settled, losses>>
  BY DEF InToken
<1>3. InHolds /\ ~MainHolds /\ ~intOut /\ ~complete /\ inUse \in Buffer /\ pc = "pend"
  BY <1>2 DEF OnePlace, InHolds, TypeOK, InToken
<1>4. \A b \in Buffer : "A" \notin in'[b]
  BY <1>2, <1>3 DEF OnePlace, TypeOK, Flags
<1>5. ~Pending' /\ ~MainHolds' /\ ~InHolds'
  BY <1>2, <1>3, <1>4 DEF Pending, MainHolds, Copied, InHolds, main
<1>6. TypeOK'
  <2>1. in' \in Flags /\ inUse' \in Buffer
    BY <1>2 DEF TypeOK, Flags, Buffer
  <2>2. inData[inUse] \in Reports
    BY <1>3 DEF TypeOK
  <2>3. got' \in [of : Command \cup {0}, data : Command \cup {0}, turn : {0, 1}]
    BY <1>2, <2>2 DEF TypeOK, Reports
  <2>4. asked' \in Seq([cmd : Command, lost : BOOLEAN])
    BY <1>1
  <2> QED
    BY <1>2, <2>1, <2>3, <2>4 DEF TypeOK, main
<1>7. OnePlace'
  BY <1>2, <1>3, <1>4, <1>5 DEF OnePlace, main
<1>8. IsLast'
  BY <1>2, <1>4, <1>5 DEF IsLast, Pending, MainHolds
<1>9. AsksInTurn'
  BY <1>5 DEF AsksInTurn
<1>10. LostBefore'
  BY <1>1 DEF LostBefore
<1>11. DataUnanswered'
  BY <1>2, <1>3, <1>4 DEF DataUnanswered, main
<1>12. DroppedWaits'
  BY <1>2, <1>3 DEF DroppedWaits, Pending
<1> QED
  BY <1>6, <1>7, <1>8, <1>9, <1>10, <1>11, <1>12

LEMMA StutterKeeps == ASSUME IInv, UNCHANGED vars PROVE IInv'
BY DEF vars, device, list, main, host, IInv, TypeOK, OnePlace, IsLast, AsksInTurn, LostBefore,
   DataUnanswered, Unanswered, DroppedWaits, Pending, MainHolds, Copied, InHolds, Last, configured

LEMMA Inductive == Spec => []IInv
<1>1. IInv /\ [Next]_vars => IInv'
  BY ReadEP_NBKeeps, ReadResultKeeps, ReadCompleteKeeps, ReadWhichKeeps, ReadCopyKeeps, ReadStartKeeps,
     EndpointReadKeeps, DispatchKeeps, WriteKeeps, EndpointWriteKeeps, WriteResultKeeps,
     EmptyReportsKeeps, usbisrKeeps, BusResetKeeps, SetConfigurationKeeps, HaltKeeps,
     UnhaltKeeps, AskCommandKeeps, GiveUpKeeps, OutTokenKeeps, InTokenKeeps, StutterKeeps
  DEF Next, Main, Call
<1> QED
  BY InitEstablishes, <1>1, PTL DEF Spec

-----------------------------------------------------------------------------
(* The theorems.                                                           *)

\* The endpoint calls of src/USBDevice/USBDevice/USBHAL_LPC11U.cpp index the two
\* entries of an endpoint and none behind them.
THEOREM TypeCorrect == Spec => []TypeOK
<1>1. IInv => TypeOK
  BY DEF IInv
<1> QED
  BY <1>1, Inductive, PTL

\* Nothing is left in the endpoints, the interrupt or main (src/main.cpp:233)
\* when the host has an answer to everything it asked.
THEOREM NothingLeft == Spec => []NothingLeftOver
<1>1. IInv => NothingLeftOver
  BY DEF IInv, TypeOK, IsLast, Pending, MainHolds, Copied, InHolds, NothingLeftOver, Labels,
     OnePlace, DataUnanswered, Unanswered
<1> QED
  BY <1>1, Inductive, PTL

-----------------------------------------------------------------------------
(* The refinement: a command is asked when the controller takes it, and    *)
(* answered when the host fetches the reply.                               *)

LEMMA AskedByOut == ASSUME IInv, OutToken PROVE \E c \in Command : Pipe!Ask(c)
<1>1. PICK c \in Command : asked' = Append(asked, [cmd |-> c, lost |-> FALSE])
  BY DEF OutToken, Fresh
<1>2. \A i \in DOMAIN asked : asked[i].lost
  BY DEF IInv, LostBefore, OutToken
<1> QED
  BY <1>1, <1>2 DEF Pipe!Ask, OutToken

LEMMA AnsweredByIn ==
    ASSUME IInv, InToken
    PROVE  \E i \in DOMAIN asked, d \in Command \cup {0} : Pipe!Answer(i, d)
<1>1. /\ asked # <<>> /\ Len(asked) \in DOMAIN asked /\ inData[inUse].of = Last.cmd
      /\ asked' = <<>> /\ After(Len(asked)) = <<>> /\ Unanswered(inData[inUse].data)
  BY AnswersLast
<1>2. inData[inUse].data \in Command \cup {0}
  BY DEF IInv, TypeOK, Reports
<1>3. asked \in Seq([cmd : Command, lost : BOOLEAN])
  BY DEF IInv, TypeOK
<1>4. \A j \in 1..(Len(asked) - 1) : asked[j].lost
  BY <1>1, <1>3 DEF IInv, LostBefore
<1>5. got' = [of |-> asked[Len(asked)].cmd, data |-> inData[inUse].data, turn |-> 1 - got.turn]
  BY <1>1 DEF InToken, Last
<1>6. Pipe!Answer(Len(asked), inData[inUse].data)
  <2>1. DOMAIN asked = 1..Len(asked)
    BY <1>3
  <2> QED
    BY <1>1, <1>4, <1>5, <2>1 DEF Pipe!Answer, After, Unanswered
<1> QED
  BY <1>1, <1>2, <1>6

LEMMA NextAnswers == ASSUME IInv, Next PROVE Pipe!PipeNext \/ UNCHANGED Pipe!pipeVars
<1>1. ASSUME Main PROVE UNCHANGED <<asked, got>>
  BY <1>1 DEF Main, Call, ReadEP_NB, ReadResult, ReadComplete, ReadWhich, ReadCopy, ReadStart, EndpointRead,
     Dispatch, Write, EndpointWrite, WriteResult, EmptyReports, host
<1>2. ASSUME usbisr \/ SetConfiguration \/ Halt \/ Unhalt \/ AskCommand
      PROVE  UNCHANGED <<asked, got>>
  BY <1>2 DEF usbisr, SetConfiguration, Halt, Unhalt, AskCommand, host
<1>3. ASSUME BusReset \/ GiveUp PROVE Pipe!Lose
  BY <1>3 DEF BusReset, GiveUp, AllLost, Pipe!Lose
<1> QED
  BY <1>1, <1>2, <1>3, AskedByOut, AnsweredByIn DEF Next, Pipe!PipeNext, Pipe!pipeVars

\* Main and the endpoints answer no command twice, none out of order and invent
\* none, through any halts and bus resets at any statement of readNB and send, and
\* any reports that main drops after a UART command.
THEOREM PipeImplemented == Spec => ImplementsPipe
<1>1. Init => Pipe!PipeInit
  BY DEF Init, Pipe!PipeInit
<1>2. IInv /\ [Next]_vars => [Pipe!PipeNext]_(Pipe!pipeVars)
  BY NextAnswers DEF vars, host, Pipe!pipeVars
<1> QED
  BY <1>1, <1>2, Inductive, PTL DEF Spec, ImplementsPipe, Pipe!PipeSpec
=============================================================================
