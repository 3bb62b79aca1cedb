CONSTANTS
    j1 = j1
    j2 = j2
    c1 = c1
    None = None
    Jails = {j1, j2}
    Docker = {j1, j2}
    LinuxKinds = {"netns"}
    Cleaners = {}
    OrphanTimeout = 1
    CleanupTimeout = 1
    HeartbeatDelay = 1
    SetupDelay = 1
    SetupMayFail = TRUE
    DeleteMayFail = TRUE
SPECIFICATION Spec
SYMMETRY JailSymmetry
INVARIANT TypeOK
PROPERTY LiveJailKeepsResources
