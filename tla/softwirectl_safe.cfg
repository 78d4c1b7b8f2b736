CONSTANTS
    B4s = {b1, b2}
    AFTRs = {a1, a2}
    None = None
    InitialB4 = b1
    InitialAFTR = a1
    DynamicAFTR = TRUE
    DynamicB4 = TRUE
    MaxCrashes = 1
    MaxSrcChanges = 2
    MaxFails = 0
    MaxMigrations = 2
    MaxPolls = 2
SPECIFICATION Spec
INVARIANTS Agreement NeverRejected CutoverGated
PROPERTIES SettlesAgain
