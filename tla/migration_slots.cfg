CONSTANTS
    CPUs = {c1, c2}
    Flows = {f1}
    Endpoints = {e1, e2, e3}
    NoEndpoint = NoEndpoint
    EpochMod = 2
    TableSize = 1
    MaxOverlap = 1
    MaxUngced = 1
    Ops = {"begin", "cutover", "complete", "abort", "switch", "recover", "reswitch", "gc", "gc-priming", "fail"}
    Kinds = {"encap"}
SPECIFICATION Spec
SYMMETRY Symmetry
INVARIANTS LiveSlotsWhole UnpinnedPacketsWhole
PROPERTIES ImplementsEndpointSwitch CallsMatchLoaderOps
