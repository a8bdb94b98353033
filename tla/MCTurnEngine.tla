---------------------------- MODULE MCTurnEngine ----------------------------
(* TurnEngine on small instances: the .cfg files give the bounds. *)
EXTENDS TurnEngine
=============================================================================
