CONSTANTS
    Flags <- MCFlags
    MaxFails = 2
    MaxSignals = 1
    MaxKills = 1
    MaxLearns = 2
    Slots = {0}
    WANMTU = 1500
    Paths = {1000, 1460}
    Lens = {2896}
    MSSPolicy <- MCAuto
    MaxSoftwireFrags = 3
    MaxInnerLen = 3408
SPECIFICATION FairSpec
INVARIANTS StoppedBeforeClosed CleanExit FragmentsFit Reassembles
PROPERTIES ComesUp SizesSettle
