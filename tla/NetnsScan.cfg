CONSTANTS
    j1 = j1
    j2 = j2
    c1 = c1
    None = None
    Jails = {j1}
    Docker = {}
    LinuxKinds = {"netns", "resolv"}
    Cleaners = {c1}
    OrphanTimeout = 1
    CleanupTimeout = 1
    HeartbeatDelay = 1
    SetupDelay = 1
    SetupMayFail = TRUE
    DeleteMayFail = FALSE
SPECIFICATION Spec
PROPERTY NetnsScanRemovesConfig
