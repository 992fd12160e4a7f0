SPECIFICATION FairSpec
CONSTANTS
    BaseDelay = 2
    MaxDelay = 3
    WordBits = 3
    Modulus = 12
    MaxFailures = 3
    ReconnectingTimeout = 2
    SilenceTimeout = 3
    OfflineCheckInterval = 1
    TopicPurgeInterval = 2
    MaxStall = 1
    ServerEdits = FALSE
PROPERTY Reconnects
