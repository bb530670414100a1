---------------------------- MODULE MCSpeculation ----------------------------
(* A small instance of Speculation: two tokens, prompts shorter and longer *)
(* than a window of the index and than the caches.                         *)
EXTENDS Speculation

MCPrompts == {<<1>>, <<1, 2>>, <<2, 1, 1>>, <<1, 2, 1, 2, 1, 1>>}
=============================================================================
