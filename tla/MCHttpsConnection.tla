------------------------- MODULE MCHttpsConnection -------------------------
(* Model checking HttpsConnection: three hosts besides the default one and  *)
(* two ports; the rules refuse h1 on the second port and h2 on the first.   *)
EXTENDS HttpsConnection

CONSTANTS h1, h2, h3, example

MCAllowed ==
    Targets \ {<<h1, 8443>>, <<h2, 443>>, <<Partial, 443>>}
=============================================================================
