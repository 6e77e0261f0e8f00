---------------------------- MODULE MCCanController ----------------------------
(* The two clock plans' APB1 clocks and the one of the internal oscillator.*)
EXTENDS CanController

=============================================================================
