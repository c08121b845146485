---------------------------- MODULE MCBattleMenu ----------------------------
(* Every turn there is; buttons that take one or two frames. *)
EXTENDS BattleMenu

AllTurns == Turns
=============================================================================
