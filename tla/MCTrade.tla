------------------------------ MODULE MCTrade ------------------------------
(* Trade for two players: one has a small pile of items, the other gold.    *)
EXTENDS Trade, TLC

CONSTANTS ann, bob
MCOwns == (ann :> [gold |-> 0, item |-> 2]) @@ (bob :> [gold |-> 1, item |-> 0])
============================================================================
