\* Two devices, two ids, two clock readings; conflicts, lost answers, crashes.
SPECIFICATION FairSpec
CONSTANTS
    d1 = d1
    d2 = d2
    g1 = g1
    g2 = g2
    NoGroup = NoGroup
    Device <- TwoDevices
    Id <- TwoIds
    Time = {1, 2}
    Name = {1}
    Members = {1, 2}
    Order = {1, 2}
    mergeBlobMaxAttempts = 2
    MaxEdits = 3
    MaxFaults = 1
    EditsRace = FALSE
PROPERTIES
    BlobIsMergedInto
    ApplyKeepsLocal
    DeletedStaysDeleted
    Convergence
