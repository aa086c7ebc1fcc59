SPECIFICATION FairSpec
CONSTANTS
    Account = {"ann", "bob"}
    Inviter = {"ann"}
    Rotator = {"bob"}
    Friend = {"eve"}
    Form = {"good", "odd"}
    MaxKey = 3
    MaxEvents = 4
    MaxFaults = 1
INVARIANTS
    TypeOK
    ContactKeysAreGenuine
    AppliedOnce
    ConnectedIsMutual
    KeysConverge
PROPERTIES
    UpdatesAreHandled
CHECK_DEADLOCK FALSE
