\* Everything at once: overlapping compactions, failing calls, crashes,
\* edits during a pass, a plan of one contact.
SPECIFICATION Spec
CONSTANTS
    d1 = d1
    d2 = d2
    Device <- TwoDevices
    Alias = {1, 2}
    Contact = {"c1"}
    Absent = Absent
    MaxContacts = 1
    ContactsCompactThreshold = 0
    MaxEdits = 3
    MaxFaults = 1
    CompactionRaces = TRUE
    CallsFail = TRUE
    Crashes = TRUE
    EditsRace = TRUE
SYMMETRY DeviceSymmetry
INVARIANT VersionCoversTruncation
PROPERTY TruncationMovesForward
