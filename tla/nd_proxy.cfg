CONSTANTS
    Targets = {t1}
    Lans = {lan1, lan2}
    None = none
    activeTTL = 2
    maxMulticastSolicit = 2
    MaxBox = 2
    MaxMoves = 2
    MaxFails = 1
    MaxStops = 1
SPECIFICATION FairSpec
INVARIANT ClaimsAreFresh
INVARIANT RoutesFollow
PROPERTY RoutesCatchUp
