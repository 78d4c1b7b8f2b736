CONSTANTS
    Callers = {"pd", "info"}
    Contents <- MCContents
    MaxOld = 1
    ReqMaxRC = 1
    RelMaxRC = 1
    Prefixes = {p1, p2}
    First = p1
    IAPDs <- MCIAPDs
    FirstIA <- Granted
    minDerivedT1 = 3
    Infinite = 9
    InfoTimeout = 1
    ReleaseTimeout = 1
    MaxAge = 3
    MaxStops = 1
SPECIFICATION FairSpec
INVARIANT WaitingIsArmed
INVARIANT LeaseBacked
INVARIANT LadderOrdered
INVARIANT LanHasLease
PROPERTY ComesBack
PROPERTY ShutdownEnds
