CONSTANTS
    CPUs = {c1, c2}
    Flows = {f1, f2}
    Endpoints = {e1, e2}
    NoEndpoint = NoEndpoint
    EpochMod = 3
    TableSize = 1
    MaxOverlap = 1
    MaxUngced = 2
    Ops = {"begin", "cutover", "complete", "abort", "gc"}
    Kinds = {"encap", "decap"}
SPECIFICATION Spec
SYMMETRY Symmetry
INVARIANTS PrimedFlowsKept OnlyRecordedPinned
PROPERTIES LostMeansUnrecorded GCCountsPinned
