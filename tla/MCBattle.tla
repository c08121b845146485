------------------------------ MODULE MCBattle ------------------------------
(* Two battles of up to two turns, the server up to two turns ahead.       *)
EXTENDS Battle
=============================================================================
