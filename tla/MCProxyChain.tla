---------------------------- MODULE MCProxyChain ----------------------------
(* Model checking ProxyChain: three instances, the last of which denies    *)
(* the second host; every way to route the hosts is an initial state.      *)
EXTENDS ProxyChain

CONSTANTS i1, i2, i3, h1, h2

MCAllowed == [i \in Instances |-> IF i = i3 THEN {h1} ELSE Hosts]
=============================================================================
