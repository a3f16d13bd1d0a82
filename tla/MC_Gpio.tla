------------------------------ MODULE MC_Gpio ------------------------------
(* A port with two lines: line 2 is a button, line 9 the interrupt of a    *)
(* device SeCloak toggles, which the normal world owns while enabled; it  *)
(* is in byte 1 of the 32-bit registers and byte 2 of GPIO_ICR1.          *)
EXTENDS Gpio

MCPins == {2, 9}
MCButtons == {2}
MCDevPins == {9}
MCIcrVals == {0, 3}
=============================================================================
