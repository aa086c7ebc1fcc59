SPECIFICATION Spec
CONSTANTS
    d1 = d1
    d2 = d2
    a = a
    b = b
    Device <- TwoDevices
    Name <- TwoNames
    NoName = NoName
    MaxEdits = 3
    MaxFaults = 1
    CallsFail = TRUE
    PassesOverlap = FALSE
    ImportsStop = FALSE
    OldReleases = TRUE
SYMMETRY RoamingSymmetry
INVARIANTS
    FingerprintsMatchKeys
    UpToDateMeansSame
PROPERTIES
    GatedSwapApproved
    CloudKeepsIdentities
