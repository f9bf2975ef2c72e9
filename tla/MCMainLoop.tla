----------------------------- MODULE MCMainLoop -----------------------------
(***************************************************************************)
(* Instances of MainLoop for TLC.                                          *)
(***************************************************************************)
EXTENDS MainLoop

\* Bound: bytes of 2 bits, so that half words have 4 and words 8.
MCByte == 4
MCHalfWord == 16

\* A refused length and an accepted one; one row is off row 0.
MCSteps == {-1, 1}
MCRows == 2

MCDirs == {1}

\* Within the period, and more than it in another period.
MCPwms == {<<1, 2>>, <<3, 1>>}

\* Bounds: a short move, two of SMC_egg, one sample of
\* the button.
MCButtonSteps == 1
MCEgg == <<1>>
MCHistoryWord == 2
MCVersion == 3
MCCopies == {2}

\* On the UART one command with results and 0xEE; on USB all but those that do
\* what another one does.
MCUartOps == {"SMC_STATE", "EGG"}
MCUsbOps == Ops \ {"LED_ON", "LED_BLINK", "LED_BREATH", "SMC_BRAKE"}
=============================================================================
