------------------------- MODULE MCSpriteCache -------------------------
EXTENDS SpriteCache, TLC

CONSTANTS large, huge

(* Bitmaps of two and of three surfaces, with four of them: to load the one *)
(* takes surfaces of the other, or comes out short.                         *)
MCPieces == large :> 2 @@ huge :> 3

(* Once the pool was short only the reset is followed: the properties say   *)
(* nothing of the states between.                                           *)
ResetWhenShort == short => doing = "idle" /\ ~ short'
========================================================================
