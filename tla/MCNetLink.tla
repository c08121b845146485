----------------------------- MODULE MCNetLink -----------------------------
(* NetLink on small buffers; the configuration chooses the sizes.          *)
EXTENDS NetLink
=============================================================================
