----------------------------- MODULE MCActorCall -----------------------------
(* Instances of ActorCall for TLC.                                          *)
EXTENDS ActorCall, TLC

CONSTANTS player1, player2, core, Player, Core

\* A player that logs in twice, and the service core.
Relogin == (player1 :> Player) @@ (player2 :> Player) @@ (core :> Core)
=============================================================================
