----------------------------- MODULE RuleEngine -----------------------------
(***************************************************************************)
(* What every rule engine behind RuleEngineTrait::evaluate (rules.rs)      *)
(* promises the proxy: each request is decided at most once, by the verdict *)
(* of the user's policy for that very request, or it is denied.            *)
(***************************************************************************)
CONSTANTS
    Requests,
    Policy    \* the user's rules: "allow" or "deny" for each request

VARIABLE decision

Pending == "pending"
Decisions == {Pending, "allow", "deny"}

Init == decision = [r \in Requests |-> Pending]

\* evaluate returns: an engine that cannot ask the policy denies.
Decide(r) ==
    /\ decision[r] = Pending
    /\ \E d \in {Policy[r], "deny"} : decision' = [decision EXCEPT ![r] = d]

Next == \E r \in Requests : Decide(r)

Spec == Init /\ [][Next]_decision
=============================================================================
