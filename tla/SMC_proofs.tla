----------------------------- MODULE SMC_proofs -----------------------------
(***************************************************************************)
(* Proofs about the stepper motor control of SMC.tla, for every set of     *)
(* step counts, times and commands and every width of uint32_t.            *)
(***************************************************************************)
EXTENDS SMC_invariants, TLAPS

-----------------------------------------------------------------------------
(* The driver CT32B0_PWM keeps its record well-typed.                      *)

LEMMA InitpwmType ==
    ASSUME NEW p \in Pwm, NEW default \in Duty
    PROVE  CT32B0_initpwm(p, default) \in Pwm
BY DEF CT32B0_initpwm, Pwm, Chopped, PeriodChannel, Channel, Match, Duty

LEMMA StartType ==
    ASSUME NEW p \in Pwm
    PROVE  CT32B0_start(p) \in Pwm
BY DEF CT32B0_start, Pwm

LEMMA DeinitType ==
    ASSUME NEW p \in Pwm, NEW state \in {0, 1}
    PROVE  CT32B0_deinit(p, state) \in Pwm
<1>1. PICK out \in SUBSET Channel : out = IF state = 1 THEN Channel ELSE {}
  OBVIOUS
<1>2. CT32B0_deinit(p, state) =
        [p EXCEPT !.TCR = 2, !.IOCON = {}, !.DIR = Channel, !.OUT = out]
  BY <1>1 DEF CT32B0_deinit
<1>3. {} \in SUBSET Channel /\ Channel \in SUBSET Channel /\ 2 \in 0..2
  OBVIOUS
<1> HIDE <1>1
<1> QED
  BY <1>2, <1>3 DEF Pwm

LEMMA ReloadType ==
    ASSUME NEW p \in Pwm
    PROVE  CT32B0_reload_mat(p) \in Pwm
BY DEF CT32B0_reload_mat, Pwm, PeriodChannel, Channel, Match, Duty

LEMMA SetType ==
    ASSUME NEW p \in Pwm, NEW c \in Channel, NEW duty \in Duty
    PROVE  CT32B0_set(p, c, duty) \in Pwm
<1>1. [p EXCEPT !.mat[c] = duty] \in Pwm
  BY DEF Pwm
<1> QED
  BY <1>1, ReloadType DEF CT32B0_set

LEMMA StageLatchType ==
    ASSUME NEW p \in Pwm, NEW stage \in {0, 1}
    PROVE  StageLatch(p, stage) \in Pwm
<1> DEFINE s == PeriodChannel(stage)
           other == PeriodChannel(1 - stage)
<1>1. s \in Channel /\ other \in Channel
  BY DEF PeriodChannel, Channel
<1>2. [p.MR EXCEPT ![s] = "period", ![other] = p.mat[other]] \in [Channel -> Match]
  BY <1>1 DEF Pwm, Match
<1>3. (p.OUT \ {s}) \cup {other} \in SUBSET Channel
  BY <1>1 DEF Pwm
<1>4. Chopped(stage) \in SUBSET Channel
  BY DEF Chopped
<1> QED
  BY <1>1, <1>2, <1>3, <1>4 DEF StageLatch, Pwm

LEMMA StagePinsType ==
    ASSUME NEW p \in Pwm
    PROVE  StagePins(p) \in Pwm
BY DEF StagePins, Pwm, Chopped, PeriodChannel, Channel

LEMMA PowerOnType == PowerOn \in Pwm
BY DEF PowerOn, Pwm, Channel, Match, Duty

LEMMA StepTimeType ==
    ASSUME NEW n \in Int, n >= 1, NEW t \in Nat
    PROVE  StepTime(n, t) \in Nat
<1>1. t * Milli \in Nat
  BY SMCAssumption
<1>2. (t * Milli) % Word \in Nat
  BY <1>1, SMCAssumption
<1> QED
  BY <1>2 DEF StepTime

-----------------------------------------------------------------------------
(* Type correctness.                                                       *)

LEMMA LowDutyType ==
    ASSUME NEW w, NEW d, NEW c
    PROVE  LowDuty(w, d, c) \in Duty
BY DEF LowDuty, Duty

LEMMA NextCountType ==
    ASSUME NEW s \in Nat \cup {-1}
    PROVE  NextCount(s) \in Nat \cup {-1}
BY DEF NextCount

LEMMA NextIndexType ==
    ASSUME NEW w \in Index
    PROVE  NextIndex(w) \in Index
BY DEF NextIndex, Index

\* The main loop keeps TypeInv when it calls a function.
LEMMA CallType ==
    ASSUME TypeInv, Call
    PROVE  TypeInv'
<1> USE DEF TypeInv, SwapOK
<1>1. ASSUME NEW n \in StepCounts, NEW d \in {0, 1}, NEW f \in {0, 1}, NEW t \in Times,
             SMC_step(n, d, t, f)
      PROVE  TypeInv'
  <2>1. n \in Int /\ n >= 1 /\ t \in Nat
    BY <1>1, SMCAssumption DEF SMC_step, Accepted
  <2>2. StepTime(n, t) \in Nat
    BY <2>1, StepTimeType
  <2>3. steps' \in Nat /\ dir' \in {-1, 1} /\ steptime' \in Nat
    BY <1>1, <2>1, <2>2 DEF SMC_step
  <2> QED
    BY <1>1, <2>3 DEF TypeOK, SMC_step, Enter, Ready, Calls, MainLabels, bridge
<1>2. CASE SMC_stop
  BY <1>2 DEF TypeOK, SMC_stop, Enter, statics, bridge, Calls, MainLabels
<1>3. CASE SMC_reset
  BY <1>3 DEF TypeOK, SMC_reset, Enter, statics, bridge, Calls, MainLabels
<1>4. CASE SMC_brake
  BY <1>4 DEF TypeOK, SMC_brake, Enter, statics, bridge, Calls, MainLabels
<1>5. CASE SMC_free
  BY <1>5 DEF TypeOK, SMC_free, Enter, statics, bridge, Calls, MainLabels
<1>6. CASE SMC_pause
  BY <1>6 DEF TypeOK, SMC_pause, Enter, statics, bridge, Calls, MainLabels
<1>7. CASE SMC_continue
  BY <1>7 DEF TypeOK, SMC_continue, Enter, statics, bridge, Calls, MainLabels
<1>8. CASE SMC_getState
  BY <1>8 DEF TypeOK, SMC_getState, Enter, statics, bridge, Calls, MainLabels
<1> QED
  BY <1>1, <1>2, <1>3, <1>4, <1>5, <1>6, <1>7, <1>8 DEF Call

\* Each statement of main keeps TypeInv.
LEMMA StatementType ==
    ASSUME TypeInv, Statement
    PROVE  TypeInv'
<1> USE DEF TypeInv, SwapOK, At, Goto, Return, statics, bridge, Calls, MainLabels
<1>1. CASE InitHi
  BY <1>1 DEF TypeOK, InitHi
<1>2. CASE InitPwm
  <2>1. pwm' \in Pwm
    BY <1>2, InitpwmType DEF TypeOK, InitPwm, Duty
  <2> QED
    BY <1>2, <2>1 DEF TypeOK, InitPwm
<1>3. CASE InitStart
  <2>1. pwm' \in Pwm
    BY <1>3, StartType DEF TypeOK, InitStart
  <2> QED
    BY <1>3, <2>1 DEF TypeOK, InitStart
<1>4. CASE Attach
  BY <1>4 DEF TypeOK, Attach
<1>5. CASE Resumed
  BY <1>5 DEF TypeOK, Resumed
<1>6. CASE PauseDetach
  BY <1>6 DEF TypeOK, PauseDetach
<1>7. CASE Paused
  BY <1>7 DEF TypeOK, Paused
<1>8. CASE Detach
  BY <1>8 DEF TypeOK, Detach
<1>9. CASE DeinitPwm
  <2>1. pwm' \in Pwm
    BY <1>9, DeinitType DEF TypeOK, DeinitPwm
  <2> QED
    BY <1>9, <2>1 DEF TypeOK, DeinitPwm
<1>10. CASE DeinitHi
  BY <1>10 DEF TypeOK, DeinitHi
<1>11. CASE DeinitVars
  BY <1>11 DEF TypeOK, DeinitVars, Index
<1>12. CASE LowSide
  <2>1. pwm' \in Pwm
    BY <1>12, DeinitType DEF TypeOK, LowSide
  <2> QED
    BY <1>12, <2>1 DEF TypeOK, LowSide
<1>13. CASE StatePaused
  BY <1>13 DEF TypeOK, StatePaused
<1>14. CASE StateRead
  <2>1. report' \in Int
    BY <1>14 DEF TypeOK, StateRead
  <2> QED
    BY <1>14, <2>1 DEF TypeOK, StateRead
<1> QED
  BY <1>1, <1>2, <1>3, <1>4, <1>5, <1>6, <1>7, <1>8, <1>9, <1>10, <1>11, <1>12,
     <1>13, <1>14 DEF Statement

\* Each statement of the interrupt handler keeps TypeInv.
LEMMA RoutineType ==
    ASSUME TypeInv, SMC_routine
    PROVE  TypeInv'
<1> USE DEF TypeInv, SwapOK, IsrKeeps, statics, bridge, RoutineLabels
<1>1. CASE RoutineStart
  BY <1>1 DEF TypeOK, RoutineStart
<1>2. CASE PhaseAHigh
  <2>1. hi' \in SUBSET Channel
    BY <1>2 DEF TypeOK, PhaseAHigh, High
  <2> QED
    BY <1>2, <2>1 DEF TypeOK, PhaseAHigh
<1>3. CASE PhaseALow
  <2>1. pwm' \in Pwm
    BY <1>3, SetType, LowDutyType DEF TypeOK, PhaseALow, Channel
  <2> QED
    BY <1>3, <2>1 DEF TypeOK, PhaseALow
<1>4. CASE PhaseBHigh
  <2>1. hi' \in SUBSET Channel
    BY <1>4 DEF TypeOK, PhaseBHigh, High
  <2> QED
    BY <1>4, <2>1 DEF TypeOK, PhaseBHigh
<1>5. CASE PhaseBLow
  <2>1. pwm' \in Pwm
    BY <1>5, SetType, LowDutyType DEF TypeOK, PhaseBLow, Channel
  <2> QED
    BY <1>5, <2>1 DEF TypeOK, PhaseBLow
<1>6. CASE StageSwap
  <2>1. StageAt[walker] \in {0, 1}
    BY <1>6 DEF StageSwap, StageAt
  <2>2. pwm' \in Pwm
    BY <1>6, <2>1, StageLatchType DEF TypeOK, StageSwap
  <2> QED
    BY <1>6, <2>2 DEF TypeOK, StageSwap
<1>7. CASE StageSwapped
  <2>1. pwm' \in Pwm
    BY <1>7, StagePinsType DEF TypeOK, StageSwapped
  <2> QED
    BY <1>7, <2>1 DEF TypeOK, StageSwapped
<1>8. CASE Walk
  <2>1. walker' \in Index /\ steps' \in Nat \cup {-1}
    BY <1>8, NextCountType, NextIndexType DEF TypeOK, Walk
  <2>2. CT32B0_reload_mat(pwm) \in Pwm
    BY ReloadType DEF TypeOK
  <2>3. pwm' \in Pwm
    BY <1>8, <2>2, DeinitType DEF Walk
  <2> QED
    BY <1>8, <2>1, <2>3 DEF TypeOK, Walk
<1> QED
  BY <1>1, <1>2, <1>3, <1>4, <1>5, <1>6, <1>7, <1>8 DEF SMC_routine

LEMMA TypeInit ==
    ASSUME Init
    PROVE  TypeInv
<1>1. walker \in Index /\ dir \in {-1, 1} /\ steps \in Nat \cup {-1}
  BY DEF Init, Index
<1>2. hi \in SUBSET Channel /\ pwm \in Pwm
  BY PowerOnType DEF Init
<1>3. call \in Calls /\ pc \in MainLabels /\ isr \in RoutineLabels
  BY DEF Init, Calls, MainLabels, RoutineLabels
<1>4. free \in {0, 1} /\ abort = 0 /\ steptime \in Nat /\ isPaused \in {0, 1}
  BY DEF Init
<1>5. attached \in BOOLEAN
  BY DEF Init
<1>6. report \in Int
  BY DEF Init
<1>7. SwapOK
  BY DEF Init, SwapOK
<1> QED
  BY <1>1, <1>2, <1>3, <1>4, <1>5, <1>6, <1>7, Zenon DEF TypeInv, TypeOK

LEMMA TypeStep ==
    ASSUME TypeInv, [Next]_vars
    PROVE  TypeInv'
<1>1. CASE Call
  BY <1>1, CallType
<1>2. CASE Statement
  BY <1>2, StatementType
<1>3. CASE SMC_routine
  BY <1>3, RoutineType
<1>4. CASE UNCHANGED vars
  BY <1>4 DEF TypeInv, TypeOK, SwapOK, vars, statics, bridge
<1> QED
  BY <1>1, <1>2, <1>3, <1>4 DEF Next

\* In every reachable state the variables of src/SMC.cpp keep their ranges:
\* the index stays inside the tables and the count never falls below -1.
THEOREM TypeCorrect == Spec => []TypeOK
<1>1. Init => TypeInv
  BY TypeInit
<1>2. TypeInv /\ [Next]_vars => TypeInv'
  BY TypeStep
<1>3. TypeInv => TypeOK
  BY DEF TypeInv
<1> QED
  BY <1>1, <1>2, <1>3, PTL DEF Spec

-----------------------------------------------------------------------------
(* Control: who may run when.                                              *)

\* A function that main calls finds the ticker and the flag in agreement.
LEMMA CallControl ==
    ASSUME TypeInv, ControlInv, Call
    PROVE  ControlInv'
<1> USE DEF TypeInv, TypeOK, ControlInv, InitOK, AttachOK, ResumedOK, PauseOK,
            Ready, Enter, Detached, HalfWay, Idle, statics, bridge
<1>1. ASSUME NEW n \in StepCounts, NEW d \in {0, 1}, NEW f \in {0, 1}, NEW t \in Times,
             SMC_step(n, d, t, f)
      PROVE  ControlInv'
  <2>1. n \in Int /\ n >= 1
    BY <1>1, SMCAssumption DEF SMC_step, Accepted
  <2> QED
    BY <1>1, <2>1 DEF SMC_step, Accepted
<1>2. CASE SMC_stop
  BY <1>2 DEF SMC_stop
<1>3. CASE SMC_reset
  BY <1>3 DEF SMC_reset
<1>4. CASE SMC_brake
  BY <1>4 DEF SMC_brake
<1>5. CASE SMC_free
  BY <1>5 DEF SMC_free
<1>6. CASE SMC_pause
  BY <1>6 DEF SMC_pause
<1>7. CASE SMC_continue
  BY <1>7 DEF SMC_continue
<1>8. CASE SMC_getState
  BY <1>8 DEF SMC_getState
<1> QED
  BY <1>1, <1>2, <1>3, <1>4, <1>5, <1>6, <1>7, <1>8 DEF Call

\* main's own statements.
LEMMA StatementControl ==
    ASSUME TypeInv, ControlInv, Statement
    PROVE  ControlInv'
<1> USE DEF TypeInv, TypeOK, ControlInv, InitOK, AttachOK, ResumedOK, PauseOK,
            At, Goto, Return, Detached, HalfWay, Idle, statics, bridge
<1>1. CASE InitHi
  BY <1>1 DEF InitHi
<1>2. CASE InitPwm
  BY <1>2 DEF InitPwm
<1>3. CASE InitStart
  BY <1>3 DEF InitStart
<1>4. CASE Attach
  BY <1>4 DEF Attach
<1>5. CASE Resumed
  BY <1>5 DEF Resumed
<1>6. CASE PauseDetach
  BY <1>6 DEF PauseDetach
<1>7. CASE Paused
  BY <1>7 DEF Paused
<1>8. CASE Detach
  BY <1>8 DEF Detach
<1>9. CASE DeinitPwm
  BY <1>9 DEF DeinitPwm
<1>10. CASE DeinitHi
  BY <1>10 DEF DeinitHi
<1>11. CASE DeinitVars
  BY <1>11 DEF DeinitVars
<1>12. CASE LowSide
  BY <1>12 DEF LowSide
<1>13. CASE StatePaused
  BY <1>13 DEF StatePaused
<1>14. CASE StateRead
  BY <1>14 DEF StateRead
<1> QED
  BY <1>1, <1>2, <1>3, <1>4, <1>5, <1>6, <1>7, <1>8, <1>9, <1>10, <1>11, <1>12,
     <1>13, <1>14 DEF Statement

\* The handler: only its last statement touches the ticker and the count.
LEMMA RoutineControl ==
    ASSUME TypeInv, ControlInv, SMC_routine
    PROVE  ControlInv'
<1> USE DEF TypeInv, TypeOK, ControlInv, InitOK, AttachOK, ResumedOK, PauseOK,
            IsrKeeps, Detached, HalfWay, Idle, statics, bridge
<1>1. CASE RoutineStart
  BY <1>1 DEF RoutineStart
<1>2. CASE PhaseAHigh
  BY <1>2 DEF PhaseAHigh
<1>3. CASE PhaseALow
  BY <1>3 DEF PhaseALow
<1>4. CASE PhaseBHigh
  BY <1>4 DEF PhaseBHigh
<1>5. CASE PhaseBLow
  BY <1>5 DEF PhaseBLow
<1>6. CASE StageSwap
  BY <1>6 DEF StageSwap
<1>7. CASE StageSwapped
  BY <1>7 DEF StageSwapped
<1>8. CASE Walk
  <2>1. attached /\ steps >= 0 /\ pc \notin Detached
    BY <1>8 DEF Walk
  <2>2. CASE steps = 0
    <3>1. steps' = -1 /\ ~attached' /\ isPaused' = 0
      BY <1>8, <2>2 DEF Walk, Done, NextCount
    <3> QED
      BY <1>8, <2>1, <3>1 DEF Walk
  <2>3. CASE steps > 0
    <3>1. steps' >= 0
      BY <1>8, <2>3 DEF Walk, NextCount
    <3>2. ~Done
      BY <2>3 DEF Done
    <3>3. attached' = attached /\ isPaused' = isPaused
      BY <1>8, <3>2, Zenon DEF Walk
    <3> QED
      BY <1>8, <2>1, <3>1, <3>3 DEF Walk
  <2> QED
    BY <2>1, <2>2, <2>3
<1> QED
  BY <1>1, <1>2, <1>3, <1>4, <1>5, <1>6, <1>7, <1>8 DEF SMC_routine

LEMMA ControlStep ==
    ASSUME TypeInv, ControlInv, [Next]_vars
    PROVE  ControlInv'
<1>1. CASE Call
  BY <1>1, CallControl
<1>2. CASE Statement
  BY <1>2, StatementControl
<1>3. CASE SMC_routine
  BY <1>3, RoutineControl
<1>4. CASE UNCHANGED vars
  BY <1>4 DEF ControlInv, InitOK, AttachOK, ResumedOK, PauseOK, Idle, vars, statics, bridge
<1> QED
  BY <1>1, <1>2, <1>3, <1>4 DEF Next

LEMMA ControlInit ==
    ASSUME Init
    PROVE  ControlInv
BY DEF Init, ControlInv, InitOK, AttachOK, ResumedOK, PauseOK, Detached, HalfWay, Idle

THEOREM ControlCorrect == Spec => [](TypeInv /\ ControlInv)
<1>1. Init => TypeInv /\ ControlInv
  BY TypeInit, ControlInit
<1>2. TypeInv /\ ControlInv /\ [Next]_vars => (TypeInv /\ ControlInv)'
  BY TypeStep, ControlStep
<1> QED
  BY <1>1, <1>2, PTL DEF Spec

\* No interrupt walks the motor while SMC_idle() is true.
THEOREM TickerSafe == Spec => []TickerOnlyWhileMoving
<1>1. TypeInv /\ ControlInv => TickerOnlyWhileMoving
  BY DEF ControlInv, TickerOnlyWhileMoving
<1> QED
  BY <1>1, ControlCorrect, PTL

\* Whenever main may call, an unfinished move runs or can be continued.
THEOREM NeverStuck == Spec => []NotStuck
<1>1. TypeInv /\ ControlInv => NotStuck
  BY DEF ControlInv, PauseOK, NotStuck, Detached, HalfWay
<1> QED
  BY <1>1, ControlCorrect, PTL

-----------------------------------------------------------------------------
(* Bridge: what the functions of the driver do to a configured driver.     *)

LEMMA InitpwmConfigures ==
    ASSUME NEW p \in Pwm
    PROVE  Configured(CT32B0_initpwm(p, "full"))
BY DEF CT32B0_initpwm, Configured, SetUp, Chopped, PeriodChannel, Pwm, Channel

LEMMA StartConfigured ==
    ASSUME NEW p \in Pwm, Configured(p)
    PROVE  Configured(CT32B0_start(p))
BY DEF CT32B0_start, Configured, SetUp, Pwm

LEMMA ReloadConfigured ==
    ASSUME NEW p \in Pwm, Configured(p)
    PROVE  Configured(CT32B0_reload_mat(p)) /\ CT32B0_reload_mat(p).mat = p.mat
BY DEF CT32B0_reload_mat, Configured, SetUp, Chopped, PeriodChannel, Pwm

LEMMA SetConfigured ==
    ASSUME NEW p \in Pwm, NEW c \in Channel, NEW duty \in Duty, Configured(p)
    PROVE  /\ Configured(CT32B0_set(p, c, duty))
           /\ CT32B0_set(p, c, duty).mat = [p.mat EXCEPT ![c] = duty]
<1> DEFINE q == [p EXCEPT !.mat[c] = duty]
<1>1. q.mat = [p.mat EXCEPT ![c] = duty]
  BY DEF Pwm
<1>2. q.stage = p.stage /\ q.PWMC = p.PWMC /\ q.OUT = p.OUT /\ q.IOCON = p.IOCON
  BY DEF Pwm
<1>3. CT32B0_set(p, c, duty) =
        [q EXCEPT !.MR = [k \in Channel |->
                            IF k = PeriodChannel(q.stage) THEN @[k] ELSE q.mat[k]]]
  BY DEF CT32B0_set, CT32B0_reload_mat
<1>4. q \in Pwm
  BY DEF Pwm
<1> HIDE DEF q
<1> QED
  BY <1>1, <1>2, <1>3, <1>4 DEF Configured, SetUp, Chopped, PeriodChannel, Pwm

LEMMA LatchSetsUp ==
    ASSUME NEW p \in Pwm, NEW stage \in {0, 1}, Configured(p)
    PROVE  /\ SetUp(StageLatch(p, stage))
           /\ StageLatch(p, stage).IOCON \cap {0, 1} = {0, 1}
           /\ StageLatch(p, stage).mat = p.mat
BY DEF StageLatch, Configured, SetUp, Chopped, PeriodChannel, Pwm, Channel

LEMMA PinsConfigure ==
    ASSUME NEW p \in Pwm, SetUp(p), p.IOCON \cap {0, 1} = {0, 1}
    PROVE  Configured(StagePins(p)) /\ StagePins(p).mat = p.mat
BY DEF StagePins, Configured, SetUp, Chopped, PeriodChannel, Pwm, Channel

LEMMA DeinitPins ==
    ASSUME NEW p \in Pwm
    PROVE  CT32B0_deinit(p, 0).IOCON = {} /\ CT32B0_deinit(p, 0).OUT = {}
BY DEF CT32B0_deinit, Pwm

\* The low-side FET of a channel set to "off" does not conduct.
LEMMA OffDoesNotConduct ==
    ASSUME NEW p \in Pwm, NEW c \in Channel, Configured(p), p.mat[c] = "off"
    PROVE  ~Conducts(p, c)
<1>1. CASE c = PeriodChannel(p.stage)
  <2>1. c \notin p.IOCON /\ c \notin p.OUT
    BY <1>1 DEF Configured, SetUp, Chopped
  <2> QED
    BY <2>1 DEF Conducts, Gate
<1>2. CASE c # PeriodChannel(p.stage)
  <2>1. c \in p.IOCON /\ p.MR[c] = "off"
    BY <1>2 DEF Configured, SetUp, Chopped
  <2> QED
    BY <2>1 DEF Conducts, Gate
<1> QED
  BY <1>1, <1>2

LEMMA PinsLowDoNotConduct ==
    ASSUME NEW p \in Pwm, NEW c \in Channel, p.IOCON = {}, p.OUT = {}
    PROVE  ~Conducts(p, c)
BY DEF Conducts, Gate

\* No row of the tables switches both FETs of a leg on, in either direction.
LEMMA TablesExclude ==
    ASSUME NEW w \in Index, NEW d \in {-1, 1}, NEW c \in High(w, d)
    PROVE  c \in Channel /\ LowDuty(w, d, c) = "off"
<1>1. c \in Channel /\ Table(c, d) \in Channel
  BY DEF High, Table, Channel
<1>2. \A k \in Channel : w \in LUT_H[k] => w \notin LUT_L[k]
  BY DEF LUT_H, LUT_L, Channel, Index
<1> QED
  BY <1>1, <1>2 DEF High, Low, LowDuty

LEMMA BridgeInit ==
    ASSUME Init
    PROVE  BridgeInv
BY DEF Init, BridgeInv, RoutineOK, RestOK, ReadyOK

\* A call changes no FET; the deinitialising ones leave the ticker for their
\* first statement.
LEMMA CallBridge ==
    ASSUME TypeInv, ControlInv, BridgeInv, Call
    PROVE  BridgeInv'
<1> USE DEF BridgeInv, RestOK, ReadyOK, Ready, Enter, Idle, statics, bridge
<1>1. isr = "none" /\ isr' = "none" /\ UNCHANGED bridge /\ pc = "ready"
  BY DEF Call, SMC_step, SMC_stop, SMC_reset, SMC_brake, SMC_free, SMC_pause,
         SMC_continue, SMC_getState
<1>2. RoutineOK'
  BY <1>1 DEF RoutineOK
<1>3. pc' \in {"ready", "init_hi", "detach", "pause_detach", "attach", "state_paused"}
  BY <1>1 DEF Call, SMC_step, SMC_stop, SMC_reset, SMC_brake, SMC_free, SMC_pause,
         SMC_continue, SMC_getState
<1>4. \/ steps' = steps /\ free' = free
      \/ steps' # -1 /\ pc' = "init_hi"
  BY SMCAssumption DEF Call, SMC_step, Accepted, SMC_stop, SMC_reset, SMC_brake,
         SMC_free, SMC_pause, SMC_continue, SMC_getState
<1> QED
  BY <1>1, <1>2, <1>3, <1>4

\* main's statements: SMC_init puts the bridge together with the high side
\* off, SMC_deinit takes it apart low side first.
LEMMA StatementBridge ==
    ASSUME TypeInv, ControlInv, BridgeInv, Statement
    PROVE  BridgeInv'
<1> USE DEF BridgeInv, RestOK, ReadyOK, At, Goto, Return, Idle, statics, bridge
<1>1. isr = "none" /\ isr' = "none"
  BY DEF Statement, InitHi, InitPwm, InitStart, Attach, Resumed, PauseDetach, Paused,
         Detach, DeinitPwm, DeinitHi, DeinitVars, LowSide, StatePaused, StateRead
<1>2. RoutineOK'
  BY <1>1 DEF RoutineOK
<1>3. pwm \in Pwm
  BY DEF TypeInv, TypeOK
<1>4. CASE InitHi
  BY <1>1, <1>2, <1>4 DEF InitHi
<1>5. CASE InitPwm
  <2>1. Configured(pwm') /\ hi' = {} /\ pc' = "init_start"
    BY <1>3, <1>5, InitpwmConfigures DEF InitPwm
  <2> QED
    BY <1>1, <1>2, <2>1
<1>6. CASE InitStart
  <2>1. Configured(pwm') /\ hi' = {} /\ pc' \in {"attach", "ready"}
    BY <1>3, <1>6, StartConfigured DEF InitStart
  <2> QED
    BY <1>1, <1>2, <2>1
<1>7. CASE Attach
  BY <1>1, <1>2, <1>7 DEF Attach
<1>8. CASE Resumed
  BY <1>1, <1>2, <1>8 DEF Resumed
<1>9. CASE PauseDetach
  BY <1>1, <1>2, <1>9 DEF PauseDetach
<1>10. CASE Paused
  BY <1>1, <1>2, <1>10 DEF Paused
<1>11. CASE Detach
  BY <1>1, <1>2, <1>11 DEF Detach
<1>12. CASE DeinitPwm
  <2>1. pwm'.IOCON = {} /\ pwm'.OUT = {} /\ pc' = "deinit_hi" /\ hi' = hi
    BY <1>3, <1>12, DeinitPins DEF DeinitPwm
  <2> QED
    BY <1>1, <1>2, <1>12, <2>1 DEF DeinitPwm
<1>13. CASE DeinitHi
  BY <1>1, <1>2, <1>13 DEF DeinitHi
<1>14. CASE DeinitVars
  BY <1>1, <1>2, <1>14 DEF DeinitVars
<1>15. CASE LowSide
  <2>1. hi' = {} /\ steps' = -1 /\ pc' = "ready"
    BY <1>15 DEF LowSide, ControlInv
  <2> QED
    BY <1>1, <1>2, <2>1
<1>16. CASE StatePaused
  BY <1>1, <1>2, <1>16 DEF StatePaused
<1>17. CASE StateRead
  BY <1>1, <1>2, <1>17 DEF StateRead
<1> QED
  BY <1>4, <1>5, <1>6, <1>7, <1>8, <1>9, <1>10, <1>11, <1>12, <1>13, <1>14, <1>15,
     <1>16, <1>17 DEF Statement

\* The handler: it applies one row of the tables, high side first, and what it
\* leaves behind is that row.
LEMMA RoutineBridge ==
    ASSUME TypeInv, ControlInv, BridgeInv, SMC_routine
    PROVE  BridgeInv'
<1> USE DEF BridgeInv, IsrKeeps, statics, bridge
<1>1. pwm \in Pwm /\ hi \in SUBSET Channel /\ walker \in Index /\ dir \in {-1, 1}
  BY DEF TypeInv, TypeOK
<1>2. attached /\ steps >= 0 /\ pc \notin Detached
  BY DEF SMC_routine, RoutineStart, PhaseAHigh, PhaseALow, PhaseBHigh, PhaseBLow,
         StageSwap, StageSwapped, Walk, ControlInv
<1>3. pc \notin {"init_hi", "init_pwm", "init_start", "deinit_pwm", "deinit_hi",
                 "deinit_vars", "low_side"} /\ UNCHANGED pc
  BY <1>2 DEF Detached, SMC_routine, RoutineStart, PhaseAHigh, PhaseALow, PhaseBHigh,
         PhaseBLow, StageSwap, StageSwapped, Walk
<1>4. \A c \in Channel : LowDuty(walker, dir, c) \in Duty
  BY LowDutyType
<1>5. CASE RoutineStart
  BY <1>2, <1>3, <1>5 DEF RoutineStart, RoutineOK, RestOK, ReadyOK
<1>6. CASE PhaseAHigh
  <2>1. hi' \cap {0, 1} = High(walker, dir) \cap {0, 1}
    BY <1>6 DEF PhaseAHigh
  <2> QED
    BY <1>3, <1>6, <2>1 DEF PhaseAHigh, RoutineOK, RestOK, ReadyOK, HiA
<1>7. CASE PhaseALow
  <2> DEFINE q == CT32B0_set(pwm, 0, LowDuty(walker, dir, 0))
  <2>1. 0 \in Channel /\ 1 \in Channel
    BY DEF Channel
  <2>2. Configured(pwm)
    BY <1>7 DEF PhaseALow, RoutineOK
  <2>3. q \in Pwm /\ Configured(q) /\ q.mat = [pwm.mat EXCEPT ![0] = LowDuty(walker, dir, 0)]
    BY <1>1, <1>4, <2>1, <2>2, SetType, SetConfigured
  <2> HIDE DEF q
  <2>4. pwm' = CT32B0_set(q, 1, LowDuty(walker, dir, 1))
    BY <1>7 DEF PhaseALow, q
  <2>5. Configured(pwm') /\ pwm'.mat = [q.mat EXCEPT ![1] = LowDuty(walker, dir, 1)]
    BY <1>4, <2>1, <2>3, <2>4, SetConfigured
  <2>6. pwm.mat \in [Channel -> Duty]
    BY <1>1 DEF Pwm
  <2>7. \A c \in {0, 1} : pwm'.mat[c] = LowDuty(walker, dir, c)
    BY <2>1, <2>3, <2>5, <2>6
  <2> QED
    BY <1>3, <1>7, <2>5, <2>7 DEF PhaseALow, RoutineOK, RestOK, ReadyOK, HiA, LoA
<1>8. CASE PhaseBHigh
  <2>1. hi' = High(walker, dir)
    <3>1. High(walker, dir) \subseteq Channel /\ Channel = {0, 1} \cup {2, 3}
      BY DEF High, Channel
    <3>2. hi \cap {0, 1} = High(walker, dir) \cap {0, 1}
      BY <1>8 DEF PhaseBHigh, RoutineOK, HiA
    <3>3. hi' = (hi \ {2, 3}) \cup (High(walker, dir) \cap {2, 3})
      BY <1>8 DEF PhaseBHigh
    <3> QED
      BY <1>1, <3>1, <3>2, <3>3
  <2> QED
    BY <1>3, <1>8, <2>1 DEF PhaseBHigh, RoutineOK, RestOK, ReadyOK, HiB, LoA
<1>9. CASE PhaseBLow
  <2> DEFINE q == CT32B0_set(pwm, 2, LowDuty(walker, dir, 2))
  <2>1. 2 \in Channel /\ 3 \in Channel
    BY DEF Channel
  <2>2. Configured(pwm)
    BY <1>9 DEF PhaseBLow, RoutineOK
  <2>3. q \in Pwm /\ Configured(q) /\ q.mat = [pwm.mat EXCEPT ![2] = LowDuty(walker, dir, 2)]
    BY <1>1, <1>4, <2>1, <2>2, SetType, SetConfigured
  <2> HIDE DEF q
  <2>4. pwm' = CT32B0_set(q, 3, LowDuty(walker, dir, 3))
    BY <1>9 DEF PhaseBLow, q
  <2>5. Configured(pwm') /\ pwm'.mat = [q.mat EXCEPT ![3] = LowDuty(walker, dir, 3)]
    BY <1>4, <2>1, <2>3, <2>4, SetConfigured
  <2>6. pwm.mat \in [Channel -> Duty]
    BY <1>1 DEF Pwm
  <2>7. \A c \in Channel : pwm'.mat[c] = LowDuty(walker, dir, c)
    <3>1. pwm.mat[0] = LowDuty(walker, dir, 0) /\ pwm.mat[1] = LowDuty(walker, dir, 1)
      BY <1>9 DEF PhaseBLow, RoutineOK, LoA
    <3> QED
      BY <2>3, <2>5, <2>6, <3>1 DEF Channel
  <2> QED
    BY <1>3, <1>9, <2>5, <2>7 DEF PhaseBLow, RoutineOK, RestOK, ReadyOK, HiB, LoB
<1>10. CASE StageSwap
  <2>1. StageAt[walker] \in {0, 1}
    BY <1>10 DEF StageSwap, StageAt, TypeInv, SwapOK
  <2>2. Configured(pwm)
    BY <1>10 DEF StageSwap, RoutineOK
  <2>3. SetUp(pwm') /\ pwm'.IOCON \cap {0, 1} = {0, 1} /\ pwm'.mat = pwm.mat
    BY <1>1, <1>10, <2>1, <2>2, LatchSetsUp DEF StageSwap
  <2> QED
    BY <1>3, <1>10, <2>3 DEF StageSwap, RoutineOK, RestOK, ReadyOK, HiB, LoB
<1>11. CASE StageSwapped
  <2>1. Configured(pwm') /\ pwm'.mat = pwm.mat
    BY <1>1, <1>11, PinsConfigure DEF StageSwapped, RoutineOK
  <2> QED
    BY <1>3, <1>11, <2>1 DEF StageSwapped, RoutineOK, RestOK, ReadyOK, HiB, LoB
<1>12. CASE Walk
  <2> DEFINE q == CT32B0_reload_mat(pwm)
  <2>1. isr' = "none"
    BY <1>12 DEF Walk
  <2>2. Configured(q) /\ q.mat = pwm.mat
    BY <1>1, <1>12, ReloadConfigured DEF Walk, RoutineOK
  <2>3. \A c \in hi : pwm.mat[c] = "off"
    BY <1>1, <1>12, TablesExclude DEF Walk, RoutineOK, HiB, LoB
  <2> HIDE DEF q
  <2>4. CASE Done /\ FreeWhenDone
    <3>1. hi' = {} /\ steps' = -1
      BY <1>2, <1>12, <2>4 DEF Walk, Done, NextCount, TypeInv, TypeOK
    <3> QED
      BY <1>3, <2>1, <3>1 DEF RoutineOK, RestOK, ReadyOK
  <2>5. CASE Done /\ ~FreeWhenDone
    <3>1. hi' = hi /\ pwm' = q /\ steps' = -1 /\ free' # 1
      BY <1>2, <1>12, <2>5 DEF Walk, Done, NextCount, FreeWhenDone, TypeInv, TypeOK, q
    <3> QED
      BY <1>3, <2>1, <2>2, <2>3, <3>1 DEF RoutineOK, RestOK, ReadyOK
  <2>6. CASE ~Done
    <3>1. hi' = hi /\ pwm' = q
      BY <1>12, <2>6 DEF Walk, q
    <3>2. steps' >= 0
      BY <1>2, <1>12, <2>6 DEF Walk, Done, NextCount, TypeInv, TypeOK
    <3> QED
      BY <1>3, <2>1, <2>2, <2>3, <3>1, <3>2 DEF RoutineOK, RestOK, ReadyOK, Idle
  <2> QED
    BY <2>4, <2>5, <2>6
<1> QED
  BY <1>5, <1>6, <1>7, <1>8, <1>9, <1>10, <1>11, <1>12 DEF SMC_routine

LEMMA BridgeStep ==
    ASSUME TypeInv, ControlInv, BridgeInv, [Next]_vars
    PROVE  BridgeInv'
<1>1. CASE Call
  BY <1>1, CallBridge
<1>2. CASE Statement
  BY <1>2, StatementBridge
<1>3. CASE SMC_routine
  BY <1>3, RoutineBridge
<1>4. CASE UNCHANGED vars
  BY <1>4 DEF BridgeInv, RoutineOK, RestOK, ReadyOK, HiA, HiB, LoA, LoB, Idle, vars,
              statics, bridge
<1> QED
  BY <1>1, <1>2, <1>3, <1>4 DEF Next

THEOREM BridgeCorrect == Spec => []Inv
<1>1. Init => Inv
  BY TypeInit, ControlInit, BridgeInit DEF Inv
<1>2. Inv /\ [Next]_vars => Inv'
  BY TypeStep, ControlStep, BridgeStep DEF Inv
<1> QED
  BY <1>1, <1>2, PTL DEF Spec

\* No bridge leg is short-circuited outside the interrupt handler, for moves
\* of any length and any mix of commands.
THEOREM NoShootThrough == Spec => []NoShootThroughAtRest
<1>1. Inv => NoShootThroughAtRest
  <2> SUFFICES ASSUME Inv, isr = "none", NEW c \in hi
               PROVE  ~Conducts(pwm, c)
    BY DEF NoShootThroughAtRest
  <2>1. c \in Channel /\ pwm \in Pwm
    BY DEF Inv, TypeInv, TypeOK
  <2>2. CASE pc = "deinit_hi"
    BY <2>1, <2>2, PinsLowDoNotConduct DEF Inv, BridgeInv, RestOK
  <2>3. CASE pc # "deinit_hi"
    BY <2>1, <2>3, OffDoesNotConduct DEF Inv, BridgeInv, RestOK
  <2> QED
    BY <2>2, <2>3
<1> QED
  BY <1>1, BridgeCorrect, PTL

\* An idle motor that was not asked to stay locked carries no current.
THEOREM IdleWithoutCurrent == Spec => []NoCurrentWhenIdle
<1>1. Inv => NoCurrentWhenIdle
  BY DEF Inv, BridgeInv, NoCurrentWhenIdle, Idle
<1> QED
  BY <1>1, BridgeCorrect, PTL

-----------------------------------------------------------------------------
(* Refinement: the control implements Motion.                              *)

LEMMA NextIndexIsModulo ==
    ASSUME NEW w \in Index
    PROVE  NextIndex(w) = (w + 1) % 32
BY DEF NextIndex, Index

LEMMA MotionInitially ==
    ASSUME Init
    PROVE  Motion!MotionInit
BY DEF Init, Idle, Motion!MotionInit

\* What Motion sees of a state; a step that keeps it is a stutter of Motion.
Seen == <<steps, dir, walker, isPaused, attached>>

LEMMA UnseenStutters ==
    ASSUME UNCHANGED Seen
    PROVE  UNCHANGED Motion!motionVars
BY DEF Seen, Idle, Motion!motionVars

LEMMA MotionStep ==
    ASSUME TypeInv, ControlInv, [Next]_vars
    PROVE  [Motion!MotionNext]_Motion!motionVars
<1> USE DEF Idle, statics, bridge
<1>1. walker \in Index /\ steps \in Nat \cup {-1} /\ isPaused \in {0, 1}
  BY DEF TypeInv, TypeOK
<1>2. ASSUME NEW n \in StepCounts, NEW d \in {0, 1}, NEW f \in {0, 1}, NEW t \in Times,
             SMC_step(n, d, t, f)
      PROVE  Motion!MotionNext
  <2>1. n \in {k \in StepCounts : k >= 1} /\ dir' \in {-1, 1} /\ n # -1
    BY <1>2, SMCAssumption DEF SMC_step, Accepted
  <2>2. Motion!Start(n, dir')
    BY <1>2, <2>1 DEF SMC_step, Accepted, Motion!Start
  <2> QED
    BY <2>1, <2>2 DEF Motion!MotionNext
<1>3. CASE SMC_stop \/ SMC_reset \/ SMC_brake \/ SMC_free \/ SMC_pause
           \/ SMC_continue \/ SMC_getState
  <2>1. UNCHANGED Seen
    BY <1>3 DEF SMC_stop, SMC_reset, SMC_brake, SMC_free, SMC_pause, SMC_continue,
                SMC_getState, Seen
  <2> QED
    BY <2>1, UnseenStutters
<1>4. CASE InitHi \/ InitPwm \/ InitStart \/ DeinitPwm \/ DeinitHi \/ LowSide
           \/ StatePaused \/ StateRead
  <2>1. UNCHANGED Seen
    BY <1>4 DEF InitHi, InitPwm, InitStart, DeinitPwm, DeinitHi, LowSide, StatePaused,
                StateRead, Seen
  <2> QED
    BY <2>1, UnseenStutters
<1>5. CASE Attach
  <2>1. steps >= 0 /\ ~attached /\ attached'
    BY <1>5 DEF Attach, At, ControlInv, AttachOK, Detached
  <2>2. UNCHANGED <<steps, dir, walker, isPaused>>
    BY <1>5 DEF Attach
  <2>3. CASE isPaused = 1
    <3>1. Motion!Continue
      BY <2>1, <2>2, <2>3 DEF Motion!Continue
    <3> QED
      BY <3>1 DEF Motion!MotionNext
  <2>4. CASE isPaused = 0
    BY <2>1, <2>2, <2>4 DEF Motion!motionVars
  <2> QED
    BY <1>1, <2>3, <2>4
<1>6. CASE Resumed
  <2>1. steps = -1 \/ attached
    BY <1>1, <1>6 DEF Resumed, At, ControlInv, ResumedOK
  <2>2. UNCHANGED <<steps, dir, walker, attached>>
    BY <1>6 DEF Resumed
  <2> QED
    BY <2>1, <2>2 DEF Motion!motionVars
<1>7. CASE PauseDetach \/ Detach
  <2>1. steps = -1 \/ (attached <=> isPaused = 0)
    BY <1>1, <1>7 DEF PauseDetach, Detach, At, ControlInv, PauseOK, Detached, HalfWay
  <2>2. UNCHANGED <<steps, dir, walker, isPaused>> /\ ~attached'
    BY <1>7 DEF PauseDetach, Detach
  <2> QED
    BY <1>1, <2>1, <2>2 DEF Motion!motionVars
<1>8. CASE Paused
  <2>1. ~attached /\ isPaused' = 1
    BY <1>8 DEF Paused, At, ControlInv, Detached
  <2>2. UNCHANGED <<steps, dir, walker, attached>>
    BY <1>8 DEF Paused
  <2>3. CASE steps # -1 /\ isPaused = 0
    <3>1. Motion!Pause
      BY <2>1, <2>2, <2>3 DEF Motion!Pause
    <3> QED
      BY <3>1 DEF Motion!MotionNext
  <2>4. CASE steps = -1 \/ isPaused = 1
    BY <2>1, <2>2, <2>4 DEF Motion!motionVars
  <2> QED
    BY <1>1, <2>3, <2>4
<1>9. CASE DeinitVars
  <2>1. Motion!Abort
    BY <1>9 DEF DeinitVars, Motion!Abort
  <2> QED
    BY <2>1 DEF Motion!MotionNext
<1>10. CASE RoutineStart \/ PhaseAHigh \/ PhaseALow \/ PhaseBHigh \/ PhaseBLow
            \/ StageSwap \/ StageSwapped
  <2>1. UNCHANGED Seen
    BY <1>10 DEF RoutineStart, PhaseAHigh, PhaseALow, PhaseBHigh, PhaseBLow, StageSwap,
                 StageSwapped, Seen
  <2> QED
    BY <2>1, UnseenStutters
<1>11. CASE Walk
  <2>1. attached /\ steps >= 0
    BY <1>11 DEF Walk, ControlInv
  <2>2. walker' = (walker + 1) % 32 /\ dir' = dir
    BY <1>1, <1>11, NextIndexIsModulo DEF Walk
  <2>3. steps' = steps - 1
    BY <1>11, <2>1 DEF Walk, NextCount
  <2>4. CASE steps # 0
    <3>1. ~Done
      BY <2>4 DEF Done, TypeInv, TypeOK
    <3>2. attached'
      BY <1>11, <2>1, <3>1, Zenon DEF Walk
    <3>3. isPaused' = isPaused
      BY <1>11, <3>1 DEF Walk
    <3>4. Motion!Tick
      BY <1>1, <2>1, <2>2, <2>3, <2>4, <3>2, <3>3 DEF Motion!Tick
    <3> QED
      BY <3>4 DEF Motion!MotionNext
  <2>5. CASE steps = 0
    <3>1. Motion!End
      BY <1>1, <2>1, <2>2, <2>3, <2>5 DEF Motion!End
    <3> QED
      BY <3>1 DEF Motion!MotionNext
  <2> QED
    BY <2>4, <2>5
<1>12. CASE UNCHANGED vars
  <2>1. UNCHANGED Seen
    BY <1>12 DEF vars, Seen
  <2> QED
    BY <2>1, UnseenStutters
<1> QED
  BY <1>2, <1>3, <1>4, <1>5, <1>6, <1>7, <1>8, <1>9, <1>10, <1>11, <1>12
  DEF Next, Call, Statement, SMC_routine

\* Every behaviour of the control is a motion as Motion.tla promises it.
THEOREM MotionImplemented == Spec => ImplementsMotion
<1>1. Init => Motion!MotionInit
  BY MotionInitially
<1>2. TypeInv /\ ControlInv /\ [Next]_vars => [Motion!MotionNext]_Motion!motionVars
  BY MotionStep
<1> QED
  BY <1>1, <1>2, ControlCorrect, PTL DEF Spec, ImplementsMotion, Motion!MotionSpec

-----------------------------------------------------------------------------
(* What the functions of the driver do to the stage and the timer.         *)

LEMMA ReloadKeeps ==
    ASSUME NEW p \in Pwm
    PROVE  /\ CT32B0_reload_mat(p).stage = p.stage
           /\ CT32B0_reload_mat(p).TCR = p.TCR
           /\ CT32B0_reload_mat(p).mat = p.mat
BY DEF CT32B0_reload_mat, Pwm

LEMMA SetKeeps ==
    ASSUME NEW p \in Pwm, NEW c \in Channel, NEW duty \in Duty
    PROVE  CT32B0_set(p, c, duty).stage = p.stage /\ CT32B0_set(p, c, duty).TCR = p.TCR
<1>1. [p EXCEPT !.mat[c] = duty] \in Pwm
  BY DEF Pwm
<1>2. /\ [p EXCEPT !.mat[c] = duty].stage = p.stage
      /\ [p EXCEPT !.mat[c] = duty].TCR = p.TCR
  BY DEF Pwm
<1> QED
  BY <1>1, <1>2, ReloadKeeps DEF CT32B0_set

LEMMA TwoSetsKeep ==
    ASSUME NEW p \in Pwm, NEW c \in Channel, NEW k \in Channel,
           NEW x \in Duty, NEW y \in Duty
    PROVE  LET q == CT32B0_set(CT32B0_set(p, c, x), k, y) IN
           q.stage = p.stage /\ q.TCR = p.TCR
BY SetKeeps, SetType

LEMMA SwapStages ==
    ASSUME NEW p \in Pwm, NEW s \in {0, 1}
    PROVE  StageLatch(p, s).stage = s /\ StageLatch(p, s).TCR = p.TCR
BY DEF StageLatch, Pwm

LEMMA PinsKeep ==
    ASSUME NEW p \in Pwm
    PROVE  StagePins(p).stage = p.stage /\ StagePins(p).TCR = p.TCR
BY DEF StagePins, Pwm

LEMMA InitpwmKeeps ==
    ASSUME NEW p \in Pwm
    PROVE  CT32B0_initpwm(p, "full").stage = p.stage
BY DEF CT32B0_initpwm

LEMMA StartKeeps ==
    ASSUME NEW p \in Pwm
    PROVE  CT32B0_start(p).stage = p.stage /\ CT32B0_start(p).TCR = 1
BY DEF CT32B0_start, Pwm

LEMMA DeinitKeeps ==
    ASSUME NEW p \in Pwm, NEW s \in {0, 1}
    PROVE  CT32B0_deinit(p, s).stage = p.stage
<1>1. p = [p EXCEPT !.stage = p.stage] /\ "stage" \in DOMAIN p
  BY DEF Pwm
<1> QED
  BY <1>1 DEF CT32B0_deinit, Pwm

-----------------------------------------------------------------------------
(* The invariant.                                                          *)

\* The row that drives the bridge after a walk is the row before it.
LEMMA DrivenIsWalked ==
    ASSUME NEW w \in Index
    PROVE  (NextIndex(w) + 31) % 32 = w
BY DEF NextIndex, Index

LEMMA RowInit == Init => RowInv
BY DEF Init, Idle, RowInv, StageOK, ClockOK, RowOK, PowerOn

LEMMA CallRow ==
    ASSUME Inv, RowInv, Call
    PROVE  RowInv'
<1>1. CASE \E n \in StepCounts, d, f \in {0, 1}, t \in Times : SMC_step(n, d, t, f)
  BY <1>1 DEF SMC_step, Ready, Enter, bridge, RowInv, StageOK, ClockOK, RowOK, Swapped
<1>2. CASE SMC_stop \/ SMC_reset \/ SMC_brake \/ SMC_free \/ SMC_pause \/ SMC_continue
           \/ SMC_getState
  <2>1. UNCHANGED <<walker, dir, steps, hi, pwm, isr>> /\ pc = "ready" /\ isr = "none"
    BY <1>2 DEF SMC_stop, SMC_reset, SMC_brake, SMC_free, SMC_pause, SMC_continue,
                SMC_getState, Ready, statics, bridge
  <2>2. Driven' = Driven
    BY <2>1 DEF Driven
  <2> QED
    BY <2>1, <2>2 DEF RowInv, StageOK, ClockOK, RowOK, Swapped
<1> QED
  BY <1>1, <1>2 DEF Call

LEMMA StatementRow ==
    ASSUME Inv, RowInv, Statement
    PROVE  RowInv'
<1>1. /\ pwm \in Pwm /\ walker \in Index /\ steps \in Nat \cup {-1}
      /\ pc \in {"init_pwm", "init_start", "deinit_vars", "low_side"} => hi = {}
      /\ pc = "low_side" => steps = -1
      /\ pc = "init_start" /\ steps >= 0 => call = "step"
  BY DEF Inv, TypeInv, TypeOK, BridgeInv, ControlInv, InitOK, Idle
<1>2. CASE InitHi
  BY <1>2 DEF InitHi, At, Goto, statics, RowInv, StageOK, ClockOK, RowOK, Swapped
<1>3. CASE InitPwm
  <2>1. pwm'.stage = pwm.stage
    BY <1>1, <1>3, InitpwmKeeps DEF InitPwm
  <2> QED
    BY <1>1, <1>3, <2>1
    DEF InitPwm, At, Goto, statics, RowInv, StageOK, ClockOK, RowOK, Swapped
<1>4. CASE InitStart
  <2>1. pwm'.stage = pwm.stage /\ pwm'.TCR = 1
    BY <1>1, <1>4, StartKeeps DEF InitStart
  <2> QED
    BY <1>1, <1>4, <2>1
    DEF InitStart, At, statics, RowInv, StageOK, ClockOK, RowOK, Swapped
<1>5. CASE Attach \/ Resumed \/ PauseDetach \/ Paused \/ Detach \/ StatePaused \/ StateRead
  <2>1. /\ UNCHANGED <<walker, dir, steps, hi, pwm, isr>>
        /\ pc \notin {"init_hi", "init_pwm", "init_start", "deinit_hi", "deinit_vars"}
    BY <1>5 DEF Attach, Resumed, PauseDetach, Paused, Detach, StatePaused, StateRead, At,
                statics, bridge
  <2>2. Driven' = Driven
    BY <2>1 DEF Driven
  <2> QED
    BY <2>1, <2>2 DEF RowInv, StageOK, ClockOK, RowOK, Swapped
<1>6. CASE DeinitPwm
  <2>1. pwm'.stage = pwm.stage
    BY <1>1, <1>6, DeinitKeeps DEF DeinitPwm
  <2> QED
    BY <1>1, <1>6, <2>1
    DEF DeinitPwm, At, Goto, statics, RowInv, StageOK, ClockOK, RowOK, Swapped
<1>7. CASE DeinitHi
  BY <1>7 DEF DeinitHi, At, Goto, statics, RowInv, StageOK, ClockOK, RowOK, Swapped
<1>8. CASE DeinitVars
  BY <1>1, <1>8 DEF DeinitVars, At, bridge, RowInv, StageOK, ClockOK, RowOK, Swapped
<1>9. CASE LowSide
  <2>1. pwm'.stage = pwm.stage
    BY <1>1, <1>9, DeinitKeeps DEF LowSide
  <2> QED
    BY <1>1, <1>9, <2>1
    DEF LowSide, At, Return, statics, RowInv, StageOK, ClockOK, RowOK, Swapped
<1> QED
  BY <1>2, <1>3, <1>4, <1>5, <1>6, <1>7, <1>8, <1>9 DEF Statement

\* A statement of the handler before the last one keeps the invariant, if it
\* keeps the stage and is not the swap.
LEMMA HandlerRow ==
    ASSUME RowInv, UNCHANGED <<walker, steps, pc>>, isr' # "none",
           pwm'.stage = pwm.stage, pwm'.TCR = 1,
           Swapped => Swapped', Swapped' => Swapped \/ walker \notin {9, 24}
    PROVE  RowInv'
<1>1. StageOK'
  BY Zenon DEF RowInv, StageOK
<1>2. ClockOK' /\ RowOK'
  BY DEF ClockOK, RowOK
<1> QED
  BY <1>1, <1>2 DEF RowInv

\* The last statement: the row that was applied is the one before the walker.
LEMMA WalkRow ==
    ASSUME Inv, RowInv, Walk
    PROVE  RowInv'
<1> DEFINE p == CT32B0_reload_mat(pwm)
<1>1. /\ pwm \in Pwm /\ walker \in Index /\ steps \in Nat \cup {-1} /\ abort = 0
      /\ isr = "walk" /\ attached /\ steps >= 0
      /\ hi = High(walker, dir)
      /\ \A c \in Channel : pwm.mat[c] = LowDuty(walker, dir, c)
  BY DEF Inv, TypeInv, TypeOK, ControlInv, BridgeInv, RoutineOK, HiB, LoB, Walk
<1>2. /\ walker' = NextIndex(walker) /\ isr' = "none" /\ steps' = steps - 1
      /\ UNCHANGED <<dir, pc>>
  BY <1>1 DEF Walk, NextCount, IsrKeeps
<1>3. p \in Pwm /\ p.stage = pwm.stage /\ p.TCR = 1 /\ p.mat = pwm.mat
  BY <1>1, ReloadKeeps, ReloadType DEF RowInv, ClockOK
<1> HIDE DEF p
<1>4. \/ hi' = {} /\ pwm' = CT32B0_deinit(p, 0) /\ steps = 0
      \/ hi' = hi /\ pwm' = p
  <2>1. Done => steps = 0
    BY <1>1 DEF Done
  <2> QED
    BY <2>1, Zenon DEF Walk, p
<1>5. pwm'.stage = pwm.stage
  BY <1>3, <1>4, DeinitKeeps
<1>6. StageOK'
  <2>1. \/ walker \in 0..8 /\ walker' \in 0..9
        \/ walker = 31 /\ walker' = 0
        \/ walker \in 9..23 /\ walker' = walker + 1
        \/ walker \in 24..30 /\ walker' = walker + 1
    BY <1>1, <1>2 DEF NextIndex, Index
  <2>2. /\ walker \in 9..23 => pwm.stage = 1
        /\ walker \in 24..30 => pwm.stage = 0
    BY <1>1 DEF RowInv, StageOK, Swapped
  <2> QED
    BY <1>2, <1>5, <2>1, <2>2 DEF StageOK, Swapped
<1>7. ClockOK'
  BY <1>1, <1>2, <1>3, <1>4 DEF ClockOK
<1>8. RowOK'
  <2>1. Driven' = walker
    BY <1>1, <1>2, DrivenIsWalked DEF Driven
  <2> QED
    BY <1>1, <1>2, <1>3, <1>4, <2>1 DEF RowOK
<1> QED
  BY <1>6, <1>7, <1>8 DEF RowInv

LEMMA RoutineRow ==
    ASSUME Inv, RowInv, SMC_routine
    PROVE  RowInv'
<1>1. /\ pwm \in Pwm /\ walker \in Index /\ steps \in Nat \cup {-1}
      /\ attached => steps >= 0 /\ pc \notin Detached
      /\ isr = "latch" => walker \in DOMAIN StageAt
      /\ \A c \in Channel : LowDuty(walker, dir, c) \in Duty
      /\ isr # "none" => pwm.TCR = 1
  BY LowDutyType DEF Inv, TypeInv, TypeOK, SwapOK, ControlInv, RowInv, ClockOK
<1>2. CASE RoutineStart
  <2>1. pwm.TCR = 1
    BY <1>1, <1>2 DEF RoutineStart, RowInv, ClockOK, Detached
  <2> QED
    BY <1>2, <2>1, HandlerRow DEF RoutineStart, IsrKeeps, statics, bridge, Swapped
<1>3. CASE PhaseAHigh \/ PhaseBHigh
  BY <1>1, <1>3, HandlerRow DEF PhaseAHigh, PhaseBHigh, IsrKeeps, statics, Swapped
<1>4. CASE PhaseALow
  <2>1. pwm'.stage = pwm.stage /\ pwm'.TCR = 1
    BY <1>1, <1>4, TwoSetsKeep DEF PhaseALow, Channel
  <2> QED
    BY <1>4, <2>1, HandlerRow DEF PhaseALow, IsrKeeps, statics, Swapped
<1>5. CASE PhaseBLow
  <2>1. pwm'.stage = pwm.stage /\ pwm'.TCR = 1
    BY <1>1, <1>5, TwoSetsKeep DEF PhaseBLow, Channel
  <2> QED
    BY <1>5, <2>1, HandlerRow DEF PhaseBLow, IsrKeeps, statics, Swapped, StageAt
<1>6. CASE StageSwap
  <2>1. walker \in {9, 24} /\ StageAt[walker] = IF walker = 9 THEN 1 ELSE 0
    BY <1>1, <1>6 DEF StageSwap, StageAt
  <2>2. pwm'.stage = (IF walker = 9 THEN 1 ELSE 0) /\ pwm'.TCR = 1
    BY <1>1, <1>6, <2>1, SwapStages DEF StageSwap
  <2>3. /\ UNCHANGED <<walker, steps, pc>> /\ isr' = "pins"
    BY <1>6 DEF StageSwap, IsrKeeps, statics
  <2> QED
    BY <2>1, <2>2, <2>3 DEF RowInv, StageOK, ClockOK, RowOK, Swapped
<1>7. CASE StageSwapped
  <2>1. pwm'.stage = pwm.stage /\ pwm'.TCR = 1
    BY <1>1, <1>7, PinsKeep DEF StageSwapped
  <2> QED
    BY <1>7, <2>1, HandlerRow DEF StageSwapped, IsrKeeps, statics, Swapped
<1>8. CASE Walk
  BY <1>8, WalkRow
<1> QED
  BY <1>2, <1>3, <1>4, <1>5, <1>6, <1>7, <1>8 DEF SMC_routine

LEMMA RowStep ==
    ASSUME Inv, RowInv, [Next]_vars
    PROVE  RowInv'
<1>1. CASE UNCHANGED vars
  <2>1. UNCHANGED <<walker, dir, steps, hi, pwm, isr, pc>>
    BY <1>1 DEF vars, statics, bridge
  <2>2. Driven' = Driven
    BY <2>1 DEF Driven
  <2> QED
    BY <2>1, <2>2 DEF RowInv, StageOK, ClockOK, RowOK, Swapped
<1> QED
  BY <1>1, CallRow, StatementRow, RoutineRow DEF Next

-----------------------------------------------------------------------------
(* What the bridge shows.                                                  *)

\* The sacrificed output of a stage has no part in the rows of that stage.
LEMMA SacrificedIsOff ==
    ASSUME NEW w \in Index, NEW d \in {-1, 1}, NEW s \in {0, 1},
           w \in 9..23 => s = 1, s = 1 => w \in 9..23
    PROVE  PeriodChannel(s) \notin Low(w, d)
BY DEF PeriodChannel, Low, Table, LUT_L, Channel, Index

\* A configured driver whose timer counts chops what its statics say.
LEMMA ShowsMat ==
    ASSUME NEW p \in Pwm, NEW c \in Channel, Configured(p), p.TCR = 1, p.mat[c] # "full",
           c = PeriodChannel(p.stage) => p.mat[c] = "off"
    PROVE  Conducts(p, c) <=> p.mat[c] = "chop"
<1>1. CASE c = PeriodChannel(p.stage)
  BY <1>1, OffDoesNotConduct
<1>2. CASE c # PeriodChannel(p.stage)
  <2>1. c \in p.IOCON /\ c \in p.PWMC /\ p.MR[c] = p.mat[c]
    BY <1>2 DEF Configured, SetUp, Chopped
  <2>2. Gate(p, c) = p.mat[c] /\ p.mat[c] \in {"full", "chop", "off"}
    BY <2>1 DEF Gate, Pwm, Duty
  <2> QED
    BY <2>2 DEF Conducts
<1> QED
  BY <1>1, <1>2

LEMMA RowShown == Inv /\ RowInv => PhaseFollowsTable
<1> SUFFICES ASSUME Inv, RowInv, Ready, hi # {}, Driven \in 9..30 \/ pwm.stage = 0
             PROVE  /\ hi = High(Driven, dir)
                    /\ \A c \in Channel : Conducts(pwm, c) <=> c \in Low(Driven, dir)
  BY DEF PhaseFollowsTable
<1>1. /\ pwm \in Pwm /\ walker \in Index /\ dir \in {-1, 1}
      /\ pc = "ready" /\ isr = "none" /\ Configured(pwm)
  BY DEF Ready, Inv, TypeInv, TypeOK, BridgeInv, RestOK
<1>2. /\ pwm.TCR = 1 /\ hi = High(Driven, dir)
      /\ \A c \in Channel : pwm.mat[c] = LowDuty(Driven, dir, c)
  BY <1>1 DEF RowInv, RowOK
<1>3. /\ Driven \in Index
      /\ Driven \in 9..23 => walker \in 10..24
      /\ Driven \in 24..30 => walker \in 25..31
  BY <1>1 DEF Driven, Index
<1>4. pwm.stage \in {0, 1} /\ (Driven \in 9..23 => pwm.stage = 1)
      /\ (pwm.stage = 1 => Driven \in 9..23)
  BY <1>1, <1>3 DEF Pwm, RowInv, StageOK, Swapped
<1>5. PeriodChannel(pwm.stage) \notin Low(Driven, dir)
  BY <1>1, <1>3, <1>4, SacrificedIsOff
<1>6. ASSUME NEW c \in Channel
      PROVE  Conducts(pwm, c) <=> c \in Low(Driven, dir)
  <2>1. pwm.mat[c] = IF c \in Low(Driven, dir) THEN "chop" ELSE "off"
    BY <1>2 DEF LowDuty
  <2>2. pwm.mat[c] # "full" /\ (c = PeriodChannel(pwm.stage) => pwm.mat[c] = "off")
    BY <1>5, <2>1
  <2>3. Conducts(pwm, c) <=> pwm.mat[c] = "chop"
    BY <1>1, <1>2, <2>2, ShowsMat
  <2> QED
    BY <2>1, <2>3
<1> QED
  BY <1>2, <1>6

LEMMA RowCorrect == Spec => []RowInv
<1>1. Init => RowInv
  BY RowInit
<1>2. Inv /\ RowInv /\ [Next]_vars => RowInv'
  BY RowStep
<1> QED
  BY <1>1, <1>2, BridgeCorrect, PTL DEF Spec

\* Between two interrupts the bridge shows the row of the tables before the
\* walker, in both directions, also when the motor is paused or locked.
THEOREM RowFollowed == Spec => []PhaseFollowsTable
BY BridgeCorrect, RowCorrect, RowShown, PTL
=============================================================================
