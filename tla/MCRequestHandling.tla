------------------------- MODULE MCRequestHandling -------------------------
(* Model checking RequestHandling, and with it RequestByteLimit, with a    *)
(* word of six bits.                                                       *)
EXTENDS RequestHandling
=============================================================================
