SPECIFICATION Spec
CONSTANTS
    BaseDelay = 1
    MaxDelay = 5
    WordBits = 32
    Ssids = {home, cafe}
    None = None
    MaxSavedAttempts = 3
    MaxSdkAttempts = 2
    MaxCycles = 2
    MaxApplyAttempts = 2
    DisconnectErases = {FALSE}
    Mounts = {TRUE}
INVARIANT ResetLeadsToAp
