SPECIFICATION Spec
CONSTANTS
    Hosts = {a, b}
    NoHost = NoHost
    MaxDevices = 2
    RowCount = 1
    Listed = {a}
    AutoCarousel = TRUE
INVARIANT LockedHostShown
