------------------------- MODULE MCWalk -------------------------
EXTENDS Walk, TLC

(* Two floors of three squares: on the first a warp is one way from the     *)
(* entry and an enemy the other, on the second there is only the warp back. *)
MCEventAt == 1 :> (0 :> "enemy" @@ 1 :> "none" @@ 2 :> "warp")
             @@ 2 :> (0 :> "warp" @@ 1 :> "none" @@ 2 :> "none")
MCBehind == 1 :> 2 @@ 2 :> 1
=================================================================
