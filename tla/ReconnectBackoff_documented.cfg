SPECIFICATION BackoffSpec
CONSTANTS
    BaseDelay = 1000
    MaxDelay = 5000
    WordBits = 32
    MaxFailures = 250
INVARIANT DelayAsDocumented
