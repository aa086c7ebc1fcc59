\* Two devices, crashes, log-outs, compactions that do not fall inside the other
\* device's pass; every call succeeds.  The user stops after two edits.
SPECIFICATION FairSpec
CONSTANTS
    d1 = d1
    d2 = d2
    Device <- TwoDevices
    Alias = {1, 2}
    Contact = {"c1"}
    Absent = Absent
    MaxContacts = 0
    ContactsCompactThreshold = 1
    MaxEdits = 2
    MaxFaults = 1
    CompactionRaces = FALSE
    CallsFail = FALSE
    Crashes = TRUE
    EditsRace = FALSE
INVARIANTS
    ShadowCoversPosition
    SnapshotIsTruncatedLog
    MergedIsLogOutcome
PROPERTIES
    LocalEditsSurvive
    Convergence
