----------------------------- MODULE MCTPChannel -----------------------------
(* Model-checking instance of the command channel.                          *)
EXTENDS TPChannel

CONSTANTS w1, w2, w3
=============================================================================
