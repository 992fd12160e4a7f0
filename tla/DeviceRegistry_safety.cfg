SPECIFICATION Spec
CONSTANTS
    Hosts = {a, b, c}
    MaxDevices = 1
    MaxSubscribed = 1
    MaxAvailable = 1
    MaxRequests = 1
SYMMETRY Symmetry
INVARIANTS
    TypeOK
    Persisted
    SelectionDurable
    SubscriptionCurrent
    OnlySelectedShown
    ServerUsed
    SelectedFits
PROPERTIES
    NewlyShownSelected
