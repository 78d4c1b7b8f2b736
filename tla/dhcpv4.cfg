CONSTANTS
    Clients = {c1, c2}
    None = None
    Last = 4
    ServerIP = 1
    OfferHold = 1
    LeaseTime = 2
    Quarantine = 2
    MaxPending = 2
SPECIFICATION Spec
SYMMETRY Symmetry
INVARIANTS PoolIndexed NoDoubleGrant AckDurable DeclinedWithheld
PROPERTIES OnlyOwnerEnds
