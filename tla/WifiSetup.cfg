SPECIFICATION FairSpec
CONSTANTS
    BaseDelay = 1
    MaxDelay = 5
    WordBits = 32
    Ssids = {home, cafe}
    None = None
    MaxSavedAttempts = 3
    MaxSdkAttempts = 2
    MaxCycles = 2
    MaxApplyAttempts = 2
    DisconnectErases = {TRUE, FALSE}
    Mounts = {TRUE, FALSE}
INVARIANT TypeOK
INVARIANT ApNotLost
PROPERTY NoEarlyWipe
PROPERTY ReportsNetworkTried
PROPERTY StartupEnds
PROPERTY SavedNetworkJoined
