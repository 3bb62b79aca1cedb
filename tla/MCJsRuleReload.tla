--------------------------- MODULE MCJsRuleReload ---------------------------
(* Model checking JsRuleReload: two requests and a file that is written up  *)
(* to three times, one content of which does not compile.                  *)
EXTENDS JsRuleReload

CONSTANTS r1, r2
=============================================================================
