---------------------------- MODULE MCHidReports ----------------------------
(***************************************************************************)
(* Instances of HidReports for TLC.                                        *)
(***************************************************************************)
EXTENDS HidReports

\* More numbers than commands can be unanswered: one per loss and one more.
MCCommand == 1..5
MCMaxLosses == 3
=============================================================================
