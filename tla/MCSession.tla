----------------------------- MODULE MCSession -----------------------------
(* The whole session; nothing needs a bound, the state space is finite.    *)
EXTENDS Session
=============================================================================
