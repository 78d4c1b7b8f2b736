CONSTANTS
    CPUs = {c1, c2}
    Flows = {f1}
    Endpoints = {e1, e2, e3}
    NoEndpoint = NoEndpoint
    EpochMod = 2
    TableSize = 1
    MaxOverlap = 0
    MaxUngced = 1
    Ops = {"begin", "cutover", "complete", "abort", "switch", "recover", "gc"}
    Kinds = {"encap", "ptb"}
SPECIFICATION Spec
SYMMETRY Symmetry
INVARIANTS PmtuBelongs
