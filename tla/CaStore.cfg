CONSTANTS
    p1 = p1
    p2 = p2
    p3 = p3
    p4 = p4
    t1 = t1
    t2 = t2
    t3 = t3
    Procs = {p1, p2, p3, p4}
    Absent = Absent
    Empty = Empty
    Overlap = FALSE
    Handlers = {t1, t2, t3}
    Hosts = {"a", "b"}
    CacheSize = 1
    Validity = 1
    MaxAge = 1
SPECIFICATION CertSpec
SYMMETRY CertSymmetry
INVARIANT CertTypeOK SigningCaTrusted ServedChainVerifies
PROPERTY CaNeverReplaced
CHECK_DEADLOCK FALSE
