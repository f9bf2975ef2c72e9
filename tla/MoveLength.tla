----------------------------- MODULE MoveLength -----------------------------
(***************************************************************************)
(* How far a move goes: SMC's argument `steps' is the "Number of steps to  *)
(* take" (src/SMC.cpp:183), "int number of steps" to the hosts             *)
(* (src/USBHIDProtocol.h:23).  Two history variables count the steps of a  *)
(* move that finds the motor locked, so that its first interrupt already   *)
(* moves the field away from where the last move left it.                  *)
(***************************************************************************)
EXTENDS SMC

VARIABLES asked,   \* the steps the move was asked for, 0 if none is counted
          taken    \* the microsteps it has made

lengthVars == <<vars, asked, taken>>

LengthInit == Init /\ asked = 0 /\ taken = 0

Begins == Idle /\ ~Idle'
Locked == Idle /\ hi # {}

Counting ==
    \/ /\ Begins
       /\ asked' = (IF Locked THEN steps' ELSE 0) /\ taken' = 0
    \/ /\ isr = "walk"
       /\ taken' = taken + 1 /\ UNCHANGED asked
    \/ /\ At("deinit_vars")
       /\ asked' = 0 /\ taken' = 0
    \/ /\ ~Begins /\ isr # "walk" /\ ~At("deinit_vars")
       /\ UNCHANGED <<asked, taken>>

LengthNext == Next /\ Counting

LengthSpec == LengthInit /\ [][LengthNext]_lengthVars

-----------------------------------------------------------------------------
\* "Number of steps to take" (src/SMC.cpp:183): a move of a locked motor that
\* ends without an abort has moved the field as many microsteps as it was asked.
TakesNumberOfSteps == Idle /\ asked # 0 => taken = asked
=============================================================================
