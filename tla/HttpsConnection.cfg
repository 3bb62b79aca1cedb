CONSTANTS
    h1 = h1
    h2 = h2
    h3 = h3
    example = example
    Hosts = {h1, h2, h3}
    DefaultHost = example
    Partial = Partial
    Ports = {443, 8443}
    HttpsPort = 443
    Allowed <- MCAllowed
    Kinds = {"tls", "connect", "http", "other"}
SPECIFICATION FairSpec
INVARIANT TypeOK VerifyingClientsReachTheirHost OnlyAllowedForwarded
INVARIANT SniExtracted ConnectDetected
PROPERTY EveryConnectionSettles
CHECK_DEADLOCK FALSE
