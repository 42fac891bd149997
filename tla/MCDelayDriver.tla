---------------------------- MODULE MCDelayDriver ----------------------------
(* Instances of DelayDriver for TLC: how long each wait is.                 *)
EXTENDS DelayDriver, TLC

CONSTANTS k1, k2, k3

\* A long timer, a short one, and a wait without end.
LongShortWaiter == (k1 :> 2) @@ (k2 :> 1) @@ (k3 :> 0)
=============================================================================
