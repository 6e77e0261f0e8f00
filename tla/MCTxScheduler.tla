---------------------------- MODULE MCTxScheduler ----------------------------
(* Two short PGNs, one of each class, and two long ones.                   *)
EXTENDS TxScheduler

CONSTANTS f, s, t, u

MCIndexOf == (s :> 0) @@ (f :> 1) @@ (t :> 2) @@ (u :> 3)
MCCanId == (f :> 0) @@ (s :> 1) @@ (t :> 2) @@ (u :> 3)
MCPeriod == (f :> 2) @@ (s :> 3) @@ (t :> 11) @@ (u :> 11)
MCPackets == (t :> 1) @@ (u :> 1)

=============================================================================
