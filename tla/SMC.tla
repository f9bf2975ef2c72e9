--------------------------------- MODULE SMC ---------------------------------
(***************************************************************************)
(* Stepper motor control (src/SMC.cpp, src/smc.h).  Two threads of control *)
(* share its statics, four high-side FET pins and the PWM driver:          *)
(*                                                                         *)
(*   - the main loop calls one SMC_ function after another; a function     *)
(*     whose writes matter one by one is a sequence of statements, `call'  *)
(*     says which function runs and `pc' which statement is next;          *)
(*   - the interrupt of Ticker smc runs SMC_routine while it is attached.  *)
(*     It preempts main between any two statements and main does not run   *)
(*     until it returns; `isr' is its next statement, because the FETs     *)
(*     follow the registers at once, also inside the handler.              *)
(***************************************************************************)
EXTENDS Integers, CT32B0_PWM

CONSTANTS StepCounts,   \* values of the argument `steps'
          Times,        \* values of the argument `time_ms'
          Commands,     \* the functions the main loop calls
          Word,         \* range of uint32_t: 2^32 on the board
          Milli,        \* microseconds in a millisecond: 1000
          MinStepTime   \* MIN_STEPTIME_US: 100

ASSUME SMCAssumption ==
    /\ StepCounts \subseteq Int /\ Times \subseteq Nat
    /\ Word \in Nat \ {0} /\ Milli \in Nat \ {0} /\ MinStepTime \in Nat \ {0}

VARIABLES walker,     \* smc_walker, index in the lookup tables
          dir,        \* smc_dir
          steps,      \* smc_steps, -1 when idle
          free,       \* smc_free
          abort,      \* smc_abort
          steptime,   \* smc_steptime
          isPaused,   \* smc_isPaused
          attached,   \* Ticker smc is attached to SMC_routine
          hi,         \* the high-side FETs that are switched on
          pwm,        \* the record of CT32B0_PWM
          report,     \* what SMC_getState returned last
          call, pc,   \* main: the function it is in and its next statement
          isr         \* SMC_routine: its next statement, "none" outside it

statics == <<walker, dir, steps, free, abort, steptime, isPaused>>
bridge  == <<hi, pwm>>
vars == <<statics, attached, bridge, report, call, pc, isr>>

-----------------------------------------------------------------------------
(* The lookup tables: the indices at which the table of each FET is not 0. *)

Index == 0..31

LUT_H == [c \in Channel |-> CASE c = 0 -> 17..31 [] c = 1 -> 1..15
                              [] c = 2 -> (0..7) \cup (25..31) [] c = 3 -> 9..23]

\* Mutant: the low side of phase B begins in the row its high side ends in.
LUT_LAtOnce == [c \in Channel |-> CASE c = 0 -> 1..15 [] c = 1 -> 17..31
                                    [] c = 2 -> 8..23 [] c = 3 -> (0..7) \cup (24..31)]
LUT_L == [c \in Channel |-> CASE c = 0 -> 1..15 [] c = 1 -> 17..31
                              [] c = 2 -> 9..23 [] c = 3 -> (0..7) \cup (25..31)]

\* Direction -1 swaps the two channels of phase A.
Table(c, d) == IF d < 0 /\ c \in {0, 1} THEN 1 - c ELSE c

High(w, d) == {c \in Channel : w \in LUT_H[Table(c, d)]}

\* Mutant: direction -1 swaps the high side only.
LowUnswapped(w, d) == {c \in Channel : w \in LUT_L[c]}
Low(w, d) == {c \in Channel : w \in LUT_L[Table(c, d)]}

\* The indices at which SMC_routine swaps the stage, and the new stage.
\* Mutant: stage 1 comes an index too late.
StageAtLate == [w \in {10, 24} |-> IF w = 10 THEN 1 ELSE 0]
StageAt == [w \in {9, 24} |-> IF w = 9 THEN 1 ELSE 0]

LowDuty(w, d, c) == IF c \in Low(w, d) THEN "chop" ELSE "off"

-----------------------------------------------------------------------------
(* main enters SMC_init with every static at its initial value.            *)

Init ==
    /\ walker = 0 /\ dir = 1 /\ steps = -1 /\ free = 1 /\ abort = 0
    /\ steptime = 0 /\ isPaused = 0
    /\ attached = FALSE /\ hi = {} /\ pwm = PowerOn /\ report = 0
    /\ call = "boot" /\ pc = "init_hi" /\ isr = "none"

-----------------------------------------------------------------------------
(* The main loop.                                                          *)

Idle == steps = -1

\* Main is about to call a function, and no interrupt is being served.
Ready == pc = "ready" /\ isr = "none"

Enter(c, s) == call' = c /\ pc' = s
Goto(s)     == pc' = s /\ UNCHANGED call
Return      == call' = "none" /\ pc' = "ready"

At(s) == pc = s /\ isr = "none"

\* The quotient of SMC_step, in uint32_t; only asked for n > 0.
StepTime(n, t) == ((t * Milli) % Word) \div n

\* A call that returns -1 changes nothing and is no step.
\* Mutant: a move may be replaced while it runs.
AcceptedBusy(n, t) == n >= 1 /\ StepTime(n, t) >= MinStepTime
Accepted(n, t) == Idle /\ n >= 1 /\ StepTime(n, t) >= MinStepTime

SMC_step(n, d, t, f) ==
    /\ Ready /\ "step" \in Commands
    /\ Accepted(n, t)
    /\ dir' = (IF d = 0 THEN -1 ELSE 1) /\ steps' = n /\ free' = f
    /\ steptime' = StepTime(n, t) /\ isPaused' = 0
    /\ Enter("step", "init_hi")
    /\ UNCHANGED <<walker, abort, attached, bridge, report, isr>>

SMC_stop == /\ Ready /\ "stop" \in Commands
            /\ Enter("stop", "detach")
            /\ UNCHANGED <<statics, attached, bridge, report, isr>>

\* CMD_SYS_RESET: SMC_deinit(), then SMC_init().
SMC_reset == /\ Ready /\ "reset" \in Commands
             /\ Enter("reset", "detach")
             /\ UNCHANGED <<statics, attached, bridge, report, isr>>

\* "Do not brake when active control" is a test of the walker.
SMC_brake == /\ Ready /\ "brake" \in Commands
             /\ ~(walker > 0)
             /\ Enter("brake", "detach")
             /\ UNCHANGED <<statics, attached, bridge, report, isr>>

SMC_free == /\ Ready /\ "free" \in Commands
            /\ ~(walker > 0)
            /\ Enter("free", "detach")
            /\ UNCHANGED <<statics, attached, bridge, report, isr>>

SMC_pause == /\ Ready /\ "pause" \in Commands
             /\ ~Idle
             /\ Enter("pause", "pause_detach")
             /\ UNCHANGED <<statics, attached, bridge, report, isr>>

SMC_continue == /\ Ready /\ "continue" \in Commands
                /\ ~Idle /\ isPaused = 1
                /\ Enter("continue", "attach")
                /\ UNCHANGED <<statics, attached, bridge, report, isr>>

SMC_getState == /\ Ready /\ "state" \in Commands
                /\ IF steps < 0
                   THEN report' = 0 /\ UNCHANGED <<call, pc>>
                   ELSE Enter("state", "state_paused") /\ UNCHANGED report
                /\ UNCHANGED <<statics, attached, bridge, isr>>

Call ==
    \/ \E n \in StepCounts, d, f \in {0, 1}, t \in Times : SMC_step(n, d, t, f)
    \/ SMC_stop \/ SMC_reset \/ SMC_brake \/ SMC_free
    \/ SMC_pause \/ SMC_continue \/ SMC_getState

-----------------------------------------------------------------------------
(* The statements of SMC_init, SMC_deinit and their callers.               *)

InitHi == /\ At("init_hi")
          /\ hi' = {} /\ Goto("init_pwm")
          /\ UNCHANGED <<statics, attached, pwm, report, isr>>

InitPwm == /\ At("init_pwm")
           /\ pwm' = CT32B0_initpwm(pwm, "full") /\ Goto("init_start")
           /\ UNCHANGED <<statics, attached, hi, report, isr>>

InitStart == /\ At("init_start")
             /\ pwm' = CT32B0_start(pwm)
             /\ IF call = "step" THEN Goto("attach") ELSE Return
             /\ UNCHANGED <<statics, attached, hi, report, isr>>

\* SMC_step ends here; SMC_continue still has to clear the flag.
Attach == /\ At("attach")
          /\ attached' = TRUE
          /\ IF call = "continue" THEN Goto("resumed") ELSE Return
          /\ UNCHANGED <<statics, bridge, report, isr>>

\* Mutant: the flag is left set.
ResumedStillPaused == /\ At("resumed") /\ Return
                      /\ UNCHANGED <<statics, attached, bridge, report, isr>>
Resumed == /\ At("resumed")
           /\ isPaused' = 0 /\ Return
           /\ UNCHANGED <<walker, dir, steps, free, abort, steptime,
                          attached, bridge, report, isr>>

PauseDetach == /\ At("pause_detach")
               /\ attached' = FALSE /\ Goto("paused")
               /\ UNCHANGED <<statics, bridge, report, isr>>

Paused == /\ At("paused")
          /\ isPaused' = 1 /\ Return
          /\ UNCHANGED <<walker, dir, steps, free, abort, steptime,
                         attached, bridge, report, isr>>

Detach == /\ At("detach")
          /\ attached' = FALSE /\ Goto("deinit_pwm")
          /\ UNCHANGED <<statics, bridge, report, isr>>

DeinitPwm == /\ At("deinit_pwm")
             /\ pwm' = CT32B0_deinit(pwm, 0) /\ Goto("deinit_hi")
             /\ UNCHANGED <<statics, attached, hi, report, isr>>

DeinitHi == /\ At("deinit_hi")
            /\ hi' = {} /\ Goto("deinit_vars")
            /\ UNCHANGED <<statics, attached, pwm, report, isr>>

DeinitVars ==
    /\ At("deinit_vars")
    /\ walker' = 0 /\ dir' = 1 /\ steps' = -1 /\ free' = 1
    /\ abort' = 0 /\ isPaused' = 0
    /\ CASE call = "stop" -> Return
         [] call = "reset" -> Goto("init_hi")
         [] OTHER -> Goto("low_side")
    /\ UNCHANGED <<steptime, attached, bridge, report, isr>>

\* The last call of SMC_brake and SMC_free.
LowSide == /\ At("low_side")
           /\ pwm' = CT32B0_deinit(pwm, IF call = "brake" THEN 1 ELSE 0)
           /\ Return
           /\ UNCHANGED <<statics, attached, hi, report, isr>>

\* SMC_getState reads smc_isPaused, then smc_steps again.
StatePaused == /\ At("state_paused")
               /\ Goto(IF isPaused = 1 THEN "state_minus" ELSE "state_plus")
               /\ UNCHANGED <<statics, attached, bridge, report, isr>>

StateRead == /\ isr = "none" /\ pc \in {"state_minus", "state_plus"}
             /\ report' = (IF pc = "state_minus" THEN -steps ELSE steps)
             /\ Return
             /\ UNCHANGED <<statics, attached, bridge, isr>>

Statement ==
    \/ InitHi \/ InitPwm \/ InitStart \/ Attach \/ Resumed
    \/ PauseDetach \/ Paused
    \/ Detach \/ DeinitPwm \/ DeinitHi \/ DeinitVars \/ LowSide
    \/ StatePaused \/ StateRead

-----------------------------------------------------------------------------
(* SMC_routine.  The wait for the start of a PWM period is part of the     *)
(* entry: it ends, since the timer counts whenever the ticker is attached. *)

IsrKeeps == UNCHANGED <<report, call, pc>>

RoutineStart == /\ isr = "none" /\ attached
                /\ isr' = "hiA"
                /\ UNCHANGED <<statics, attached, bridge>> /\ IsrKeeps

PhaseAHigh == /\ isr = "hiA"
              /\ hi' = (hi \ {0, 1}) \cup (High(walker, dir) \cap {0, 1})
              /\ isr' = "loA"
              /\ UNCHANGED <<statics, attached, pwm>> /\ IsrKeeps

PhaseALow == /\ isr = "loA"
             /\ pwm' = CT32B0_set(CT32B0_set(pwm, 0, LowDuty(walker, dir, 0)),
                                  1, LowDuty(walker, dir, 1))
             /\ isr' = "hiB"
             /\ UNCHANGED <<statics, attached, hi>> /\ IsrKeeps

PhaseBHigh == /\ isr = "hiB"
              /\ hi' = (hi \ {2, 3}) \cup (High(walker, dir) \cap {2, 3})
              /\ isr' = "loB"
              /\ UNCHANGED <<statics, attached, pwm>> /\ IsrKeeps

PhaseBLow == /\ isr = "loB"
             /\ pwm' = CT32B0_set(CT32B0_set(pwm, 2, LowDuty(walker, dir, 2)),
                                  3, LowDuty(walker, dir, 3))
             /\ isr' = IF walker \in DOMAIN StageAt THEN "latch" ELSE "walk"
             /\ UNCHANGED <<statics, attached, hi>> /\ IsrKeeps

StageSwap == /\ isr = "latch"
             /\ pwm' = StageLatch(pwm, StageAt[walker])
             /\ isr' = "pins"
             /\ UNCHANGED <<statics, attached, hi>> /\ IsrKeeps

StageSwapped == /\ isr = "pins"
                /\ pwm' = StagePins(pwm)
                /\ isr' = "walk"
                /\ UNCHANGED <<statics, attached, hi>> /\ IsrKeeps

\* The last step of a move, and the step that finds smc_abort set.
\* Mutant: both conditions are asked for.
DoneBoth == steps = 0 /\ abort = 1
Done == steps # -1 /\ (steps = 0 \/ abort = 1)

\* Mutant: smc_free is ignored.
FreeWhenDoneIgnored == abort = 1
FreeWhenDone == free = 1 \/ abort = 1

\* Mutant: the index never returns to 0.
NextIndexOpen(w) == w + 1
NextIndex(w) == IF w + 1 > 31 THEN 0 ELSE w + 1

\* Mutant: the countdown belongs to the inner block, as its indentation has it.
NextCountNested(s) == IF s # 0 THEN s ELSE -1
NextCount(s) == IF s # -1 THEN s - 1 ELSE s

\* Reload the match registers, walk, count down.
Walk ==
    /\ isr = "walk"
    /\ walker' = NextIndex(walker)
    /\ steps' = NextCount(steps)
    /\ LET p == CT32B0_reload_mat(pwm) IN
       IF Done
       THEN /\ IF FreeWhenDone
               THEN hi' = {} /\ pwm' = CT32B0_deinit(p, 0)
               ELSE pwm' = p /\ UNCHANGED hi
            /\ attached' = FALSE /\ abort' = 0 /\ isPaused' = 0
       ELSE pwm' = p /\ UNCHANGED <<hi, attached, abort, isPaused>>
    /\ isr' = "none"
    /\ UNCHANGED <<dir, free, steptime>> /\ IsrKeeps

SMC_routine ==
    \/ RoutineStart \/ PhaseAHigh \/ PhaseALow \/ PhaseBHigh \/ PhaseBLow
    \/ StageSwap \/ StageSwapped \/ Walk

-----------------------------------------------------------------------------
Next == Call \/ Statement \/ SMC_routine

Spec == Init /\ [][Next]_vars

(* An interrupt that was requested is taken, a handler runs to its end,    *)
(* and main executes its next statement.  Nothing makes it call again.     *)
FairSpec == Spec /\ WF_vars(SMC_routine) /\ WF_vars(Statement)

-----------------------------------------------------------------------------
(* Properties.                                                             *)

\* Where main and SMC_routine can be.
Calls == {"none", "boot", "step", "stop", "reset", "brake", "free",
          "pause", "continue", "state"}
MainLabels == {"ready", "init_hi", "init_pwm", "init_start", "attach", "resumed",
               "pause_detach", "paused", "detach", "deinit_pwm", "deinit_hi",
               "deinit_vars", "low_side", "state_paused", "state_minus", "state_plus"}
RoutineLabels == {"none", "hiA", "loA", "hiB", "loB", "latch", "pins", "walk"}

\* The statics keep their ranges - the index never leaves the tables, the
\* count never falls below -1 - and main and the handler are where they can be.
TypeOK ==
    /\ walker \in Index /\ dir \in {-1, 1} /\ steps \in Nat \cup {-1}
    /\ free \in {0, 1} /\ abort = 0 /\ steptime \in Nat /\ isPaused \in {0, 1}
    /\ attached \in BOOLEAN /\ hi \in SUBSET Channel /\ pwm \in Pwm
    /\ report \in Int
    /\ call \in Calls /\ pc \in MainLabels /\ isr \in RoutineLabels

\* The ticker of SMC_routine is attached only while there are steps to take:
\* no interrupt walks the motor when SMC_idle() is true, in particular not
\* while SMC_step configures the statics and the bridge for the next move.
TickerOnlyWhileMoving == attached \/ isr # "none" => steps >= 0

\* Whenever main may call again, an unfinished move has its ticker or can get
\* it back: it is attached, or the move is marked as paused and SMC_continue
\* attaches it.  Neither the end of a move inside SMC_pause nor one inside
\* SMC_continue leaves a move that nobody finishes and no command can resume.
NotStuck == pc = "ready" /\ steps >= 0 => (attached <=> isPaused = 0)

\* Outside the interrupt handler, and at each of main's statements, no bridge
\* leg has its high-side and its low-side FET on: after any mix of moves in
\* both directions, locks, stops, brakes and resets, at any table index.
NoShootThroughAtRest == isr = "none" => \A c \in hi : ~Conducts(pwm, c)

\* An idle motor that was not asked to stay locked carries no current: all
\* high-side FETs are off after the last step, SMC_deinit, SMC_brake, SMC_free
\* and at start, whichever command found the motor in whichever state.
NoCurrentWhenIdle == pc = "ready" /\ isr = "none" /\ Idle /\ free = 1 => hi = {}

\* The table index that drives the bridge is the one before the walker.
Driven == (walker + 31) % 32

\* Between two interrupts a bridge that is switched on shows one row of the
\* lookup tables: the high side of the row on, its low side chopped and the
\* rest of the low side not conducting, also when paused or locked.  Whatever
\* SMC_deinit left behind, this holds from row 9 on, and in the rows before it
\* unless the PWM timer was left in stage 1, which CurrentPath is about.
PhaseFollowsTable ==
    Ready /\ hi # {} /\ (Driven \in 9..30 \/ pwm.stage = 0) =>
        /\ hi = High(Driven, dir)
        /\ \A c \in Channel : Conducts(pwm, c) <=> c \in Low(Driven, dir)

\* A move that was accepted ends, if it is not paused.
EveryMoveEnds == (steps # -1) ~> (steps = -1 \/ isPaused = 1)

\* The motion the caller is promised (Motion.tla): the move counts from the
\* moment SMC_step stores it, it is paused from the moment the flag says so to
\* the moment the ticker is attached again, and a step is a walk of the index.
Motion == INSTANCE Motion WITH
    Counts <- {n \in StepCounts : n >= 1},
    Cycle  <- 32,
    mode   <- IF Idle THEN "idle"
              ELSE IF isPaused = 1 /\ ~attached THEN "paused" ELSE "running",
    left   <- IF Idle THEN 0 ELSE steps,
    pos    <- walker

\* One move at a time, one index per interrupt and none while paused; a move
\* ends when it has made its steps or is aborted, and in no other way.  Whether
\* it makes one more as it ends is MoveLength's question.
ImplementsMotion == Motion!MotionSpec

-----------------------------------------------------------------------------
(* What comments say and the code does not do.                             *)

\* "If sin +, H1->L2" (src/SMC.cpp:78): a high-side FET that is on finds the
\* low-side FET of the other leg of its bridge.
OtherLeg(c) == CASE c = 0 -> 1 [] c = 1 -> 0 [] c = 2 -> 3 [] c = 3 -> 2
CurrentPath == Ready => \A c \in hi : Conducts(pwm, OtherLeg(c))

\* "ILLEGAL MODE" (src/SMC.cpp:145): both FETs of a leg are on, at any moment.
NoIllegalMode == \A c \in hi : ~Conducts(pwm, c)
=============================================================================
