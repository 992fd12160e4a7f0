SPECIFICATION FairTouchSpec
CONSTANTS
    MaxRaw = 4
    Threshold = 2
    HistSize = 5
    ConfirmCount = 3
    HitsModulus = 5
    PollInterval = 3
    TapMin = 10
    LongPress = 30
    Cooldown = 10
INVARIANT TouchTypeOK
INVARIANT OneEventPerPress
INVARIANT DebounceExact
PROPERTY NoPressSwallowed
PROPERTY PressEnds
