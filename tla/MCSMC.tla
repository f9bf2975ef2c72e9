------------------------------- MODULE MCSMC -------------------------------
(***************************************************************************)
(* Instances of SMC for TLC.  The tables have 32 rows as on the board; the *)
(* moves are short, since the walker stays where a move ended and the next *)
(* one goes on from there, so that short moves visit every row.            *)
(***************************************************************************)
EXTENDS SMC

\* Two refused lengths and two accepted ones.
MCStepCounts == {-1, 0, 1, 3}

\* A time that is too short for any move, and one that is enough.
MCTimes == {0, 1}

\* As on the board.
MCMilli == 1000
MCMinStepTime == 100

\* Bound: a short uint32_t, since TLC's integers are no wider than the board's.
MCWord == 65536

\* Everything the dispatcher can call, without and with the commands that
\* pass through SMC_deinit.
MotionCommands == {"step", "pause", "continue", "state"}
AllCommands == MotionCommands \cup {"stop", "reset", "brake", "free"}
=============================================================================
