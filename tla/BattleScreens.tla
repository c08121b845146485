--------------------------- MODULE BattleScreens ---------------------------
(* The sub-screens of a battle (systeminc/battleproc.h): the values of      *)
(* SubProcNo in PROC_BATTLE.                                                *)
INIT == 0
IN_PRODUCE == 1
RECEIVE_BC == 2
CHAR_IN == 3
CMD_INPUT == 4
RECEIVE_MOVIE == 5
MOVIE == 6
OUT_PRODUCE_INIT == 7
OUT_PRODUCE == 8
=============================================================================
