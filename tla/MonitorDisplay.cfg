SPECIFICATION FairSpec
CONSTANTS
    Hosts = {a, b, c}
    NoHost = NoHost
    MaxDevices = 3
    RowCount = 1
    Listed = {a, b}
    AutoCarousel = TRUE
INVARIANT TypeOK
INVARIANT Coherent
INVARIANT DrawsUnderOwnName
INVARIANT OfflineIsTrue
PROPERTY CarouselGoesRound
PROPERTY FiguresCatchUp
