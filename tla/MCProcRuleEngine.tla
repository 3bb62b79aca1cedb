-------------------------- MODULE MCProcRuleEngine --------------------------
(* Model checking ProcRuleEngine: three requests, of which the policy      *)
(* allows two.                                                             *)
EXTENDS ProcRuleEngine

CONSTANTS r1, r2, r3

MCPolicy == [r \in {r1, r2, r3} |-> IF r = r2 THEN "deny" ELSE "allow"]
=============================================================================
