CONSTANTS
    B4s = {b1, b2}
    AFTRs = {a1, a2}
    None = None
    InitialB4 = b1
    InitialAFTR = a1
    DynamicAFTR = TRUE
    DynamicB4 = TRUE
    MaxCrashes = 1
    MaxSrcChanges = 1
    MaxFails = 1
    MaxMigrations = 2
    MaxPolls = 1
SPECIFICATION Spec
INVARIANTS ActiveIsDatapath MigrationKnown
