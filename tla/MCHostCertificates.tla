------------------------- MODULE MCHostCertificates -------------------------
(* Model checking HostCertificates and CaStore: four processes, so that two *)
(* may die while they write the files and two more start after them; three  *)
(* handlers, two hosts and a cache for one of them.                         *)
EXTENDS HostCertificates, TLC

CONSTANTS p1, p2, p3, p4, t1, t2, t3

CertSymmetry ==
    Permutations({p1, p2, p3, p4}) \cup Permutations({t1, t2, t3})
=============================================================================
