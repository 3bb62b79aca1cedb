-------------------------- MODULE MCJailLifecycle --------------------------
(* Model checking JailLifecycle on a few jails; time bounds are in ticks.   *)
EXTENDS JailLifecycle, TLC

CONSTANTS j1, j2, c1

JailSymmetry == Permutations({j1, j2})
=============================================================================
