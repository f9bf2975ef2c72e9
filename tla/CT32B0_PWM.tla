----------------------------- MODULE CT32B0_PWM -----------------------------
(***************************************************************************)
(* The driver of the 32-bit timer CT32B0 that chops the four low-side FETs *)
(* of the two H-bridges (src/CT32B0_PWM.cpp).  The timer has only three    *)
(* PWM outputs to spare - one match register must hold the period - so a   *)
(* `stage' says whether output 2 or output 3 is sacrificed.                *)
(*                                                                         *)
(* The driver keeps no control flow of its own: its statics and the        *)
(* registers it writes are one record, and each C function is an operator  *)
(* from that record to the next.  SMC.tla holds the record in a variable.  *)
(*                                                                         *)
(* Channel c is MATc, pin P1_(24+c), and drives low-side FET L(c+1).       *)
(***************************************************************************)
EXTENDS Naturals

Channel == 0..3

\* What a match value does to an output: 0 keeps it high, a value inside the
\* period chops it, a value beyond the period keeps it low.
Duty == {"full", "chop", "off"}

\* A match register holds a duty, or the period when it restarts the timer.
Match == Duty \cup {"period"}

Pwm == [stage : {0, 1},               \* static `stage'
        mat   : [Channel -> Duty],    \* static `mat'
        MR    : [Channel -> Match],   \* match registers 0..3
        PWMC  : SUBSET Channel,       \* outputs in PWM mode
        MCR   : SUBSET Channel,       \* matches that restart the timer
        TCR   : 0..2,                 \* 0 halted, 1 counting, 2 held in reset
        IOCON : SUBSET Channel,       \* pins given to the timer, else GPIO
        DIR   : SUBSET Channel,       \* pins that are GPIO outputs
        OUT   : SUBSET Channel]       \* GPIO output latches that are high

\* The statics are zero and the pins are inputs when main starts.
PowerOn == [stage |-> 0, mat |-> [c \in Channel |-> "full"],
            MR |-> [c \in Channel |-> "full"], PWMC |-> {}, MCR |-> {},
            TCR |-> 0, IOCON |-> {}, DIR |-> {}, OUT |-> {}]

\* The channel whose match register holds the period, and whose pin is GPIO.
PeriodChannel(stage) == IF stage = 0 THEN 2 ELSE 3

Chopped(stage) == Channel \ {PeriodChannel(stage)}

-----------------------------------------------------------------------------
(* The functions of the driver.                                            *)

CT32B0_initpwm(p, default) ==
    LET s == PeriodChannel(p.stage) IN
    [stage |-> p.stage,
     mat   |-> [c \in Channel |-> default],
     MR    |-> [c \in Channel |-> IF c = s THEN "period" ELSE default],
     PWMC  |-> Chopped(p.stage),
     MCR   |-> {s},
     TCR   |-> 0,
     IOCON |-> Chopped(p.stage),
     DIR   |-> p.DIR \cup {s},
     OUT   |-> p.OUT \ {s}]

CT32B0_start(p) == [p EXCEPT !.TCR = 1]

CT32B0_deinit(p, state) ==
    [p EXCEPT !.TCR   = 2,
              !.IOCON = {},
              !.DIR   = Channel,
              !.OUT   = IF state = 1 THEN Channel ELSE {}]

\* CT32B0_stage up to the GPIO latches: the pin that is about to leave the
\* timer is cleared, the other one is set while it still is a GPIO pin.
StageLatch(p, stage) ==
    LET s == PeriodChannel(stage)
        other == PeriodChannel(1 - stage) IN
    [p EXCEPT !.stage = stage,
              !.PWMC  = Chopped(stage),
              !.MCR   = {s},
              !.MR    = [@ EXCEPT ![s] = "period", ![other] = p.mat[other]],
              !.OUT   = (@ \ {s}) \cup {other}]

\* The last two writes of CT32B0_stage give the pins their functions.
StagePins(p) == [p EXCEPT !.IOCON = (@ \cap {0, 1}) \cup (Chopped(p.stage) \ {0, 1})]

CT32B0_reload_mat(p) ==
    [p EXCEPT !.MR = [c \in Channel |->
                        IF c = PeriodChannel(p.stage) THEN @[c] ELSE p.mat[c]]]

CT32B0_set(p, c, duty) == CT32B0_reload_mat([p EXCEPT !.mat[c] = duty])

-----------------------------------------------------------------------------
(* What the hardware makes of the registers (outside src/).  A pin given   *)
(* to the timer follows its match register while the timer counts and the  *)
(* output is in PWM mode; a GPIO pin follows its latch when it is an       *)
(* output, and nobody drives it when it is an input.                       *)

Gate(p, c) ==
    CASE c \in p.IOCON /\ p.TCR = 1 /\ c \in p.PWMC -> p.MR[c]
      [] c \in p.IOCON /\ ~(p.TCR = 1 /\ c \in p.PWMC) -> "off"
      [] c \notin p.IOCON /\ c \in p.DIR -> IF c \in p.OUT THEN "full" ELSE "off"
      [] OTHER -> "float"

\* The low-side FET of leg c conducts, at least for a part of each period.
Conducts(p, c) == Gate(p, c) \in {"full", "chop"}
=============================================================================
