---------------------------- MODULE MCBattleRing ----------------------------
(* BATTLE_BUF_SIZE as in systeminc/battlemenu.h, the server up to three messages ahead. *)
EXTENDS BattleRing
=============================================================================
