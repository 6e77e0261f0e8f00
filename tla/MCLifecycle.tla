------------------------------ MODULE MCLifecycle ------------------------------
(* Instances of the lifecycle for TLC: two supported bitrates and one that *)
(* is not, a safe mode after two early watchdog resets, a streak that      *)
(* saturates at three.                                                     *)
EXTENDS Lifecycle

=============================================================================
