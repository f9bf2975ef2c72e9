----------------------- MODULE HighSideLatency_proofs -----------------------
(***************************************************************************)
(* The dead time that the handler leaves between the two sides of a leg,   *)
(* for every set of step counts, times and commands and every width of     *)
(* uint32_t, on top of the invariants of the motor control.                *)
(***************************************************************************)
EXTENDS HighSideLatency, SMC_proofs

-----------------------------------------------------------------------------
(* The invariant.                                                          *)

\* The high-side FETs that are on, or still conduct, in the handler are those of
\* the row it applies or of the row before it.
LagInv == isr # "none" => hi \cup lag \subseteq High(Driven, dir) \cup High(walker, dir)

\* Neither the row of a high-side FET nor the next one switches the low side of
\* its leg on, in both directions, and in row 9, where the handler sets the pin of
\* L3, H3 has been off for a row.
LEMMA TablesLeaveRow ==
    ASSUME NEW w \in Index, NEW d \in {-1, 1}, NEW c \in High((w + 31) % 32, d) \cup High(w, d)
    PROVE  /\ c \in Channel /\ LowDuty(w, d, c) = "off"
           /\ w = 9 => c # 2
<1>1. c \in Channel /\ Table(c, d) \in Channel /\ (c = 2 => Table(c, d) = 2)
  BY DEF High, Table, Channel
<1>2. (w + 31) % 32 = IF w = 0 THEN 31 ELSE w - 1
  BY DEF Index
<1>3. \A k \in Channel :
        (w \in LUT_H[k] \/ (IF w = 0 THEN 31 ELSE w - 1) \in LUT_H[k]) => w \notin LUT_L[k]
  BY DEF LUT_H, LUT_L, Channel, Index
<1>4. 9 \notin LUT_H[2] /\ 8 \notin LUT_H[2]
  BY DEF LUT_H, Channel
<1>5. w \in LUT_H[Table(c, d)] \/ (IF w = 0 THEN 31 ELSE w - 1) \in LUT_H[Table(c, d)]
  BY <1>2 DEF High
<1>6. LowDuty(w, d, c) = "off"
  BY <1>1, <1>3, <1>5 DEF Low, LowDuty
<1>7. w = 9 => c # 2
  <2> SUFFICES ASSUME w = 9, c = 2 PROVE FALSE
    OBVIOUS
  <2>1. Table(c, d) = 2 /\ (IF w = 0 THEN 31 ELSE w - 1) = 8
    BY <1>1
  <2>2. QED
    BY <1>4, <1>5, <2>1
<1> QED
  BY <1>1, <1>6, <1>7

LEMMA LagKept ==
    ASSUME Inv, RowInv, LagInv, [LatencyNext]_latencyVars
    PROVE  LagInv'
<1>1. CASE isr' = "none"
  BY <1>1 DEF LagInv
<1>2. CASE RoutineStart /\ SwitchesOff
  <2>1. lag' = {} /\ UNCHANGED <<hi, walker, dir>> /\ isr = "none" /\ attached
    BY <1>2 DEF RoutineStart, SwitchesOff, statics, bridge
  <2>2. pc \notin {"init_hi", "deinit_hi"}
    BY <2>1 DEF Inv, ControlInv, Detached
  <2>3. hi = {} \/ hi = High(Driven, dir)
    BY <2>1, <2>2 DEF RowInv, RowOK
  <2>4. Driven' = Driven
    BY <2>1 DEF Driven
  <2> QED
    BY <2>1, <2>3, <2>4 DEF LagInv
<1>3. CASE isr # "none" /\ isr' # "none" /\ SMC_routine /\ SwitchesOff
  <2>1. UNCHANGED <<walker, dir>> /\ hi' \subseteq hi \cup High(walker, dir)
    BY <1>3 DEF SMC_routine, RoutineStart, PhaseAHigh, PhaseALow, PhaseBHigh, PhaseBLow,
                StageSwap, StageSwapped, Walk, statics
  <2>2. Driven' = Driven
    BY <2>1 DEF Driven
  <2>3. lag' = lag \cup (hi \ hi')
    BY <1>3 DEF SwitchesOff
  <2> QED
    BY <1>3, <2>1, <2>2, <2>3 DEF LagInv
<1>4. CASE (Call \/ Statement) /\ isr' # "none"
  BY <1>4 DEF Call, Ready, SMC_step, SMC_stop, SMC_reset, SMC_brake, SMC_free, SMC_pause,
     SMC_continue, SMC_getState, Statement, At, InitHi, InitPwm, InitStart, Attach, Resumed,
     PauseDetach, Paused, Detach, DeinitPwm, DeinitHi, DeinitVars, LowSide, StatePaused, StateRead
<1>5. CASE UNCHANGED latencyVars
  <2>1. UNCHANGED <<walker, dir, hi, isr, lag>>
    BY <1>5 DEF latencyVars, vars, statics, bridge
  <2>2. Driven' = Driven
    BY <2>1 DEF Driven
  <2> QED
    BY <2>1, <2>2 DEF LagInv
<1>6. SMC_routine /\ isr = "none" => RoutineStart
  BY DEF SMC_routine, RoutineStart, PhaseAHigh, PhaseALow, PhaseBHigh, PhaseBLow, StageSwap,
     StageSwapped, Walk
<1> QED
  BY <1>1, <1>2, <1>3, <1>4, <1>5, <1>6 DEF LatencyNext, Next

-----------------------------------------------------------------------------
(* The steps of the handler.                                               *)

\* Setting an output leaves what the others show as it was.
LEMMA SetElsewhere ==
    ASSUME NEW p \in Pwm, Configured(p), NEW k \in Channel, NEW c \in Channel, c # k,
           NEW x \in Duty
    PROVE  Conducts(CT32B0_set(p, k, x), c) <=> Conducts(p, c)
<1> DEFINE q == [p EXCEPT !.mat[k] = x]
           r == CT32B0_set(p, k, x)
<1>1. /\ q \in Pwm /\ q.mat[c] = p.mat[c] /\ q.MR = p.MR /\ q.stage = p.stage
      /\ q.PWMC = p.PWMC /\ q.TCR = p.TCR /\ q.IOCON = p.IOCON /\ q.DIR = p.DIR /\ q.OUT = p.OUT
  BY DEF Pwm
<1> HIDE DEF q
<1>2. r = CT32B0_reload_mat(q)
  BY DEF CT32B0_set, q
<1>3. /\ r.MR[c] = IF c = PeriodChannel(p.stage) THEN p.MR[c] ELSE p.mat[c]
      /\ r.PWMC = p.PWMC /\ r.TCR = p.TCR /\ r.IOCON = p.IOCON /\ r.DIR = p.DIR /\ r.OUT = p.OUT
  BY <1>1, <1>2 DEF CT32B0_reload_mat, Pwm
<1>4. r.MR[c] = p.MR[c]
  BY <1>3 DEF Configured, SetUp, Chopped
<1> HIDE DEF r
<1>5. Gate(r, c) = Gate(p, c)
  BY <1>3, <1>4 DEF Gate
<1> QED
  BY <1>5 DEF Conducts, r

\* The swap to stage 1 lets nothing conduct but the output it gives back to the
\* timer, L3.
LEMMA SwapConducts ==
    ASSUME NEW p \in Pwm, Configured(p), NEW c \in Channel, c # 2
    PROVE  Conducts(StageLatch(p, 1), c) => Conducts(p, c)
<1> DEFINE q == StageLatch(p, 1)
<1>1. /\ q.PWMC = {0, 1, 2} /\ q.MR[c] = (IF c = 3 THEN "period" ELSE p.MR[c])
      /\ q.OUT = (p.OUT \ {3}) \cup {2}
      /\ q.TCR = p.TCR /\ q.IOCON = p.IOCON /\ q.DIR = p.DIR
  BY DEF StageLatch, PeriodChannel, Chopped, Channel, Pwm
<1> HIDE DEF q
<1>2. CASE c = 3
  <2>1. Gate(q, c) \in {"off", "float"}
    BY <1>1, <1>2 DEF Gate
  <2> QED
    BY <2>1 DEF Conducts, q
<1>3. CASE c \in {0, 1}
  <2>1. c \in p.IOCON /\ c \in p.PWMC
    BY <1>3 DEF Configured, SetUp, Chopped, PeriodChannel, Channel, Pwm
  <2>2. Gate(q, c) = Gate(p, c)
    BY <1>1, <1>3, <2>1 DEF Gate
  <2> QED
    BY <2>2 DEF Conducts, q
<1> QED
  BY <1>2, <1>3 DEF Channel

LEMMA StepLeavesDeadTime ==
    ASSUME Inv, Inv', LagInv, LagInv', LatencyNext, isr # "none", ~SwapsAtLastRow
    PROVE  LeavesDeadTime
<1>1. /\ pwm \in Pwm /\ walker \in Index /\ dir \in {-1, 1} /\ hi \in SUBSET Channel
      /\ pwm' \in Pwm /\ (isr \notin {"none", "pins"} => Configured(pwm))
      /\ isr = "latch" => walker \in DOMAIN StageAt
  BY DEF Inv, TypeInv, TypeOK, SwapOK, BridgeInv, RoutineOK
<1>2. SMC_routine /\ ~RoutineStart
  BY DEF LatencyNext, Next, RoutineStart, Call, Ready, SMC_step, SMC_stop, SMC_reset, SMC_brake,
     SMC_free, SMC_pause, SMC_continue, SMC_getState, Statement, At, InitHi, InitPwm, InitStart,
     Attach, Resumed, PauseDetach, Paused, Detach, DeinitPwm, DeinitHi, DeinitVars, LowSide,
     StatePaused, StateRead
<1>3. lag' = lag \cup (hi \ hi')
  BY DEF LatencyNext, SwitchesOff
<1>4. CASE PhaseAHigh \/ PhaseBHigh
  BY <1>4 DEF PhaseAHigh, PhaseBHigh, LeavesDeadTime
<1>5. CASE UNCHANGED hi
  <2> SUFFICES ASSUME NEW c \in hi' \cup lag', Conducts(pwm', c) PROVE Conducts(pwm, c)
    BY DEF LeavesDeadTime
  <2>1. /\ c \in Channel /\ LowDuty(walker, dir, c) = "off"
        /\ walker = 9 => c # 2
    <3>1. c \in hi \cup lag
      BY <1>3, <1>5
    <3>2. c \in High((walker + 31) % 32, dir) \cup High(walker, dir)
      BY <3>1 DEF LagInv, Driven
    <3> QED
      BY <1>1, <3>2, TablesLeaveRow
  <2>2. \A x, k \in Channel : LowDuty(walker, dir, x) \in Duty /\ k \in Channel
    BY LowDutyType
  <2>3. CASE PhaseALow
    <3>1. CASE c \in {0, 1}
      <4>1. isr' = "hiB" /\ UNCHANGED <<walker, dir>>
        BY <2>3 DEF PhaseALow, statics
      <4>2. Configured(pwm') /\ pwm'.mat[c] = "off"
        BY <2>1, <3>1, <4>1 DEF Inv, BridgeInv, RoutineOK, LoA, LowDuty, Low
      <4> QED
        BY <1>1, <2>1, <4>2, OffDoesNotConduct
    <3>2. CASE c \notin {0, 1}
      <4> DEFINE q == CT32B0_set(pwm, 0, LowDuty(walker, dir, 0))
      <4>1. 0 \in Channel /\ 1 \in Channel /\ Configured(pwm) /\ c # 0 /\ c # 1
        BY <1>1, <2>3, <3>2 DEF PhaseALow, Channel
      <4>2. q \in Pwm /\ Configured(q) /\ (Conducts(q, c) <=> Conducts(pwm, c))
        BY <1>1, <2>1, <2>2, <4>1, SetType, SetConfigured, SetElsewhere
      <4> HIDE DEF q
      <4>3. pwm' = CT32B0_set(q, 1, LowDuty(walker, dir, 1))
        BY <2>3 DEF PhaseALow, q
      <4>4. Conducts(pwm', c) <=> Conducts(q, c)
        BY <2>1, <2>2, <4>1, <4>2, <4>3, SetElsewhere
      <4> QED
        BY <4>2, <4>4
    <3> QED
      BY <3>1, <3>2
  <2>4. CASE PhaseBLow \/ StageSwapped
    <3>1. isr' \in {"latch", "walk"} /\ UNCHANGED <<walker, dir>>
      BY <2>4 DEF PhaseBLow, StageSwapped, statics
    <3>2. Configured(pwm') /\ pwm'.mat[c] = "off"
      BY <2>1, <3>1 DEF Inv, BridgeInv, RoutineOK, LoB, LowDuty, Low
    <3> QED
      BY <1>1, <2>1, <3>2, OffDoesNotConduct
  <2>5. CASE StageSwap
    <3>1. isr = "latch" /\ walker = 9 /\ StageAt[walker] = 1
      BY <1>1, <2>5 DEF StageSwap, SwapsAtLastRow, StageAt
    <3>2. pwm' = StageLatch(pwm, 1) /\ Configured(pwm)
      BY <1>1, <2>5, <3>1 DEF StageSwap
    <3> QED
      BY <1>1, <2>1, <3>1, <3>2, SwapConducts
  <2>6. CASE Walk
    <3> DEFINE q == CT32B0_reload_mat(pwm)
    <3>1. Configured(pwm) /\ pwm.mat[c] = "off"
      BY <1>1, <2>1, <2>6 DEF Walk, Inv, BridgeInv, RoutineOK, LoB
    <3>2. q \in Pwm /\ Configured(q) /\ q.mat[c] = "off"
      BY <1>1, <3>1, ReloadType, ReloadConfigured
    <3> HIDE DEF q
    <3>3. pwm' = q \/ pwm' = CT32B0_deinit(q, 0)
      BY <2>6 DEF Walk, q
    <3>4. CASE pwm' = q
      BY <2>1, <3>2, <3>4, OffDoesNotConduct
    <3>5. CASE pwm' = CT32B0_deinit(q, 0)
      <4>1. pwm'.IOCON = {} /\ pwm'.OUT = {}
        BY <3>2, <3>5, DeinitPins
      <4> QED
        BY <1>1, <2>1, <4>1, PinsLowDoNotConduct
    <3> QED
      BY <3>3, <3>4, <3>5
  <2> QED
    BY <1>2, <1>5, <2>3, <2>4, <2>5, <2>6, <1>4 DEF SMC_routine, PhaseAHigh, PhaseBHigh
<1>6. CASE Walk /\ ~UNCHANGED hi
  <2>1. hi' = {} /\ pwm' = CT32B0_deinit(CT32B0_reload_mat(pwm), 0)
    BY <1>6 DEF Walk
  <2>2. \A c \in hi' \cup lag' : c \in Channel
    <3>1. hi \cup lag \subseteq High(Driven, dir) \cup High(walker, dir)
      BY DEF LagInv
    <3>2. High(Driven, dir) \cup High(walker, dir) \subseteq Channel
      BY DEF High
    <3> QED
      BY <1>3, <2>1, <3>1, <3>2
  <2>3. CT32B0_reload_mat(pwm) \in Pwm
    BY <1>1, ReloadType
  <2>4. pwm'.IOCON = {} /\ pwm'.OUT = {}
    BY <2>1, <2>3, DeinitPins
  <2>5. \A c \in hi' \cup lag' : ~Conducts(pwm', c)
    BY <1>1, <2>2, <2>4, PinsLowDoNotConduct
  <2> QED
    BY <2>5 DEF LeavesDeadTime
<1> QED
  BY <1>2, <1>4, <1>5, <1>6 DEF SMC_routine, PhaseALow, PhaseBLow, StageSwap, StageSwapped

-----------------------------------------------------------------------------
(* The theorem.                                                            *)

LEMMA LatencyIsSpec == LatencySpec => Spec
<1>1. LatencyInit => Init
  BY DEF LatencyInit
<1>2. [LatencyNext]_latencyVars => [Next]_vars
  BY DEF LatencyNext, latencyVars
<1> QED
  BY <1>1, <1>2, PTL DEF LatencySpec, Spec

LEMMA LagCorrect == LatencySpec => []LagInv
<1>1. LatencyInit => LagInv
  BY DEF LatencyInit, Init, LagInv
<1>2. Inv /\ RowInv /\ LagInv /\ [LatencyNext]_latencyVars => LagInv'
  BY LagKept
<1> QED
  BY <1>1, <1>2, LatencyIsSpec, BridgeCorrect, RowCorrect, PTL DEF LatencySpec

\* The handler leaves a dead time of a step between the two sides of a leg, for
\* moves of any length and any mix of commands: only the swap to stage 0, in row
\* 24, does not.
THEOREM DeadTimeLeft == LatencySpec => HandlerLeavesDeadTime
<1> DEFINE Leaves == (isr # "none" /\ ~SwapsAtLastRow) => LeavesDeadTime
<1>1. Inv /\ Inv' /\ LagInv /\ LagInv' /\ [LatencyNext]_latencyVars => [Leaves]_latencyVars
  BY StepLeavesDeadTime
<1>2. LatencySpec => [][Leaves]_latencyVars
  BY <1>1, LagCorrect, LatencyIsSpec, BridgeCorrect, PTL DEF LatencySpec
<1> QED
  BY <1>2 DEF HandlerLeavesDeadTime
=============================================================================
