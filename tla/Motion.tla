------------------------------- MODULE Motion -------------------------------
(***************************************************************************)
(* What the stepper motor control promises its caller, without bridges,    *)
(* timers or interrupts: one move at a time, made of single steps in one   *)
(* direction, that can be paused, continued and aborted.                   *)
(***************************************************************************)
EXTENDS Integers

CONSTANTS Counts,   \* the lengths of a move
          Cycle     \* microsteps in one turn of the field

VARIABLES mode, left, dir, pos
motionVars == <<mode, left, dir, pos>>

MotionInit == mode = "idle" /\ left = 0 /\ dir = 1 /\ pos = 0

\* A move of n steps, as documented.
Start(n, d) ==
    /\ mode = "idle"
    /\ mode' = "running" /\ left' = n /\ dir' = d
    /\ UNCHANGED pos

\* The field moves by one microstep.
Tick ==
    /\ mode = "running" /\ left > 0
    /\ left' = left - 1 /\ pos' = (pos + 1) % Cycle
    /\ UNCHANGED <<mode, dir>>

\* The move ends when it has made all its steps; whether the field moves once
\* more as it ends is left open.
End ==
    /\ mode = "running" /\ left = 0
    /\ mode' = "idle" /\ pos' \in {pos, (pos + 1) % Cycle}
    /\ UNCHANGED <<left, dir>>

Pause ==
    /\ mode = "running" /\ mode' = "paused"
    /\ UNCHANGED <<left, dir, pos>>

Continue ==
    /\ mode = "paused" /\ mode' = "running"
    /\ UNCHANGED <<left, dir, pos>>

\* Abort forgets the move and where the field stands.
Abort == mode' = "idle" /\ left' = 0 /\ dir' = 1 /\ pos' = 0

MotionNext ==
    \/ \E n \in Counts, d \in {-1, 1} : Start(n, d)
    \/ Tick \/ End \/ Pause \/ Continue \/ Abort

MotionSpec == MotionInit /\ [][MotionNext]_motionVars
=============================================================================
