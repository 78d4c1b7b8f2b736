CONSTANTS
    Ifaces = {1}
    Configs = {"wide1", "wide2", "narrow"}
    None = "none"
    Capacity <- MCCapacity
    First = "wide1"
    Initial = "wide1"
    MaxBox = 2
    MaxChanges = 2
    MaxFails = 2
    MaxStops = 2
SPECIFICATION FairSpec
INVARIANT ChangeIsDue
INVARIANT AddressesFollow
PROPERTY CatchesUp
PROPERTY ExtendsWan
