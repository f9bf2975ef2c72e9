--------------------------- MODULE SMC_invariants ---------------------------
(***************************************************************************)
(* The inductive invariants behind the safety properties of SMC.tla, in    *)
(* layers: types, control (who may run when), bridge (what the FETs and    *)
(* the PWM driver show at each point of main and of the handler), and the  *)
(* row of the lookup tables that the bridge shows between interrupts.      *)
(***************************************************************************)
EXTENDS SMC

\* The stage swap looks the new stage up at the walker.
SwapOK == isr = "latch" => walker \in DOMAIN StageAt

TypeInv == TypeOK /\ SwapOK

-----------------------------------------------------------------------------
(* Control.                                                                *)

\* Where main has just made sure that no interrupt comes.
Detached == {"init_hi", "init_pwm", "init_start", "attach", "paused",
             "deinit_pwm", "deinit_hi", "deinit_vars", "low_side"}

\* Where main is between a detach or an attach and the flag that goes with it.
HalfWay == {"paused", "attach", "resumed"}

\* SMC_init runs for a move that is already stored, or with none.
InitOK == pc \in {"init_hi", "init_pwm", "init_start"} =>
             IF call = "step" THEN steps >= 0 /\ isPaused = 0 ELSE Idle

AttachOK == pc = "attach" => steps >= 0 /\ (call # "continue" => isPaused = 0)

\* The interrupts that may come before SMC_continue clears the flag either
\* leave the ticker attached or end the move.
ResumedOK == pc = "resumed" /\ steps >= 0 => attached

\* Outside these places and a deinitialisation, ticker and flag agree.
PauseOK == pc \notin Detached \cup HalfWay /\ steps >= 0
              => (attached <=> isPaused = 0)

ControlInv ==
    /\ attached => steps >= 0
    /\ isr # "none" => attached
    /\ pc \in Detached => ~attached
    /\ InitOK /\ AttachOK /\ ResumedOK /\ PauseOK
    /\ pc = "low_side" => Idle

-----------------------------------------------------------------------------
(* Bridge.                                                                 *)

\* The driver is set up for its stage but for the pin functions: outputs 0, 1
\* and one of 2 and 3 chop with the values last set, the pin of the fourth is
\* not driven high.
SetUp(p) ==
    /\ p.PWMC = Chopped(p.stage)
    /\ PeriodChannel(p.stage) \notin p.OUT
    /\ \A c \in Chopped(p.stage) : p.MR[c] = p.mat[c]

Configured(p) == SetUp(p) /\ p.IOCON = Chopped(p.stage)

\* The rows of the tables that the handler has applied so far.
HiA == hi \cap {0, 1} = High(walker, dir) \cap {0, 1}
HiB == hi = High(walker, dir)
LoA == \A c \in {0, 1} : pwm.mat[c] = LowDuty(walker, dir, c)
LoB == \A c \in Channel : pwm.mat[c] = LowDuty(walker, dir, c)

RoutineOK ==
    /\ isr = "loA" => HiA
    /\ isr = "hiB" => HiA /\ LoA
    /\ isr = "loB" => HiB /\ LoA
    /\ isr \in {"latch", "pins", "walk"} => HiB /\ LoB
    /\ isr = "pins" => SetUp(pwm) /\ pwm.IOCON \cap {0, 1} = {0, 1}
    /\ isr \notin {"none", "pins"} => Configured(pwm)

\* Between interrupts a leg whose high side is on has its match value beyond
\* the period, except while SMC_deinit has only switched the low side off.
RestOK ==
    isr = "none" /\ hi # {} =>
       IF pc = "deinit_hi" THEN pwm.IOCON = {} /\ pwm.OUT = {}
       ELSE Configured(pwm) /\ \A c \in hi : pwm.mat[c] = "off"

\* A move that can still be driven finds the driver configured.
ReadyOK ==
    /\ isr = "none" /\ steps >= 0
          /\ pc \notin {"init_hi", "init_pwm", "init_start", "deinit_hi", "deinit_vars"}
          => Configured(pwm)
    /\ pc = "init_start" => Configured(pwm)

BridgeInv ==
    /\ pc \in {"init_pwm", "init_start", "deinit_vars", "low_side"} => hi = {}
    /\ isr = "none" /\ Idle /\ free = 1 => hi = {}
    /\ RoutineOK /\ RestOK /\ ReadyOK

Inv == TypeInv /\ ControlInv /\ BridgeInv

-----------------------------------------------------------------------------
(* The row of the tables that the bridge shows, and the stage it needs.    *)

\* The handler has just swapped the stage.
Swapped == isr \in {"pins", "walk"}

\* From the swap in row 9 to the one in row 24 the stage is 1, from there to the
\* end of the tables 0; in the rows before it is what was left behind.
StageOK ==
    /\ walker \in 10..23 \/ (walker = 9 /\ Swapped) \/ (walker = 24 /\ ~Swapped)
          => pwm.stage = 1
    /\ walker \in 25..31 \/ (walker = 24 /\ Swapped) => pwm.stage = 0

\* The timer counts in the handler, and wherever the ticker may be attached.
ClockOK ==
    /\ isr # "none" => pwm.TCR = 1
    /\ steps >= 0 /\ pc \notin {"init_hi", "init_pwm", "init_start", "deinit_hi", "deinit_vars"}
          => pwm.TCR = 1

\* SMC_step stores another direction before SMC_init switches a locked motor off.
RowOK ==
    isr = "none" /\ hi # {} /\ pc \notin {"init_hi", "deinit_hi"} =>
        /\ pwm.TCR = 1 /\ hi = High(Driven, dir)
        /\ \A c \in Channel : pwm.mat[c] = LowDuty(Driven, dir, c)

RowInv == StageOK /\ ClockOK /\ RowOK
=============================================================================
