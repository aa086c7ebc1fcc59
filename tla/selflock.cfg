\* Two devices, two keys, one entry per list and a second value of the settings.
\* Nothing obliges a user to start another run: the system may stop.
SPECIFICATION Spec
CONSTANTS
    d1 = d1
    d2 = d2
    Device <- TwoDevices
    Key = {1, 2}
    FirstKey = 1
    Item = {"x"}
    Value = {"v0", "v1"}
    Default = "v0"
    NoDigest = ""
    NoShadow = NoShadow
    Mode <- AutoAndManual
    mergeBlobMaxAttempts = 2
    ContactsCompactThreshold = 0
    MaxEvents = 4
SYMMETRY DeviceSymmetry
INVARIANT IdleMeansSame
PROPERTIES
    NeverWiped
    FreshKeepsSettings
    ForeignNeedsApproval
CHECK_DEADLOCK FALSE
