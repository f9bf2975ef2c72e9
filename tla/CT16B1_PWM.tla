----------------------------- MODULE CT16B1_PWM -----------------------------
(***************************************************************************)
(* The PWM driver of the AUX channel (src/CT16B1_PWM.cpp): its statics and *)
(* the registers it writes are a record, each function is an operator on   *)
(* it.  MAT1 is low from the start of a period to the match and high from  *)
(* there to the end; the timer starts over after MR3.                      *)
(***************************************************************************)
EXTENDS Integers

CONSTANT HalfWord   \* range of uint16_t: 2^16 on the board

ASSUME HalfWordAssumption == HalfWord \in Nat \ {0}

uint16 == 0..(HalfWord - 1)

Aux == [run : BOOLEAN,              \* TCR counts
        pin : {"gpio", "mat"},      \* function of P0_22
        level : {"low", "high"},    \* of the pin as a GPIO
        period : uint16,            \* the static
        MR1 : uint16, MR3 : uint16]

\* main writes aux = 0 at start; the statics are 0.
AuxOff == [run |-> FALSE, pin |-> "gpio", level |-> "low",
           period |-> 0, MR1 |-> 0, MR3 |-> 0]

CT16B1_initpwm(a, p, match) ==
    [a EXCEPT !.period = p, !.MR3 = p, !.MR1 = match, !.pin = "mat", !.run = FALSE]

CT16B1_start(a) == [a EXCEPT !.run = TRUE]

\* The argument for the level after stopping is ignored: the pin is cleared.
CT16B1_deinit(a) == [a EXCEPT !.run = FALSE, !.pin = "gpio", !.level = "low"]

CT16B1_reload_mat(a, match) == [a EXCEPT !.MR1 = match, !.MR3 = a.period]

CT16B1_set(a, match) == CT16B1_reload_mat(a, match)

\* DigitalOut aux.
Level(a, v) == [a EXCEPT !.level = v]

\* Ticks of a period in which the output is high.
HighTicks(a) == IF a.MR1 > a.MR3 THEN 0 ELSE a.MR3 + 1 - a.MR1
=============================================================================
