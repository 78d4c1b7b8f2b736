CONSTANTS
    B4s = {b1, b2}
    AFTRs = {a1, a2}
    None = None
    InitialB4 = b1
    InitialAFTR = a1
    DynamicAFTR = TRUE
    DynamicB4 = FALSE
    MaxCrashes = 0
    MaxSrcChanges = 0
    MaxFails = 1
    MaxMigrations = 1
    MaxPolls = 0
SPECIFICATION Spec
PROPERTIES DrainEnds
