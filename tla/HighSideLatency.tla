-------------------------- MODULE HighSideLatency ---------------------------
(***************************************************************************)
(* The motor control with high-side FETs that are slow to switch off: "the *)
(* minimum time required for one microstep" is "derived from Hi-side       *)
(* driver latency" (src/SMC.cpp:15).  A FET that is switched off conducts  *)
(* for up to this time, while the low side obeys at once.                  *)
(***************************************************************************)
EXTENDS SMC

VARIABLE lag     \* high-side FETs the interrupt has switched off so far

latencyVars == <<vars, lag>>

LatencyInit == Init /\ lag = {}

\* Interrupts are a step time or more apart: what one switches off conducts until
\* it returns, and no longer when the next one comes.  A FET that stops sooner
\* conducts less, and the property holds all the more.
SwitchesOff == lag' = IF isr = "none" THEN {} ELSE lag \cup (hi \ hi')

LatencyNext == Next /\ SwitchesOff

LatencySpec == LatencyInit /\ [][LatencyNext]_latencyVars

\* As in SMC; the FETs owe nothing.
FairLatencySpec == LatencySpec /\ WF_vars(SMC_routine) /\ WF_vars(Statement)

-----------------------------------------------------------------------------
\* A step that switches no low-side FET on whose leg has a high-side FET that is
\* on or still conducts.
LeavesDeadTime == \A c \in hi' \cup lag' : Conducts(pwm', c) => Conducts(pwm, c)

\* The handler leaves a dead time: whichever move, direction and stage came
\* before, the tables and the swap to stage 1 leave a leg free for a step between
\* its two sides.  The swap to stage 0 does not: at row 24 CT32B0_stage sets the
\* pin of L4 (src/CT32B0_PWM.cpp:139) in the interrupt that switched H4 off.
SwapsAtLastRow == isr = "latch" /\ walker = 24
HandlerLeavesDeadTime ==
    [][(isr # "none" /\ ~SwapsAtLastRow) => LeavesDeadTime]_latencyVars
=============================================================================
