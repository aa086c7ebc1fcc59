SPECIFICATION Spec
CONSTANTS
    d1 = d1
    d2 = d2
    a = a
    b = b
    Device <- TwoDevices
    Name <- TwoNames
    NoName = NoName
    MaxEdits = 2
    MaxFaults = 1
    CallsFail = TRUE
    PassesOverlap = TRUE
    ImportsStop = TRUE
    OldReleases = FALSE
SYMMETRY RoamingSymmetry
INVARIANT PushesAreEarned
