\* Two devices, a share, an invite and a drain notice, which may have been dismissed
\* before; caps of two, which a third row and a third dismissal exceed; failures.
SPECIFICATION FairSpec
CONSTANTS
    d1 = d1
    d2 = d2
    Device <- TwoDevices
    Share = {1}
    Invite = {2}
    Drain = {3}
    Past = {3}
    NoBlob = NoBlob
    MaxId = 3
    maxNotifications = 2
    maxDismissed = 2
    MaxEdits = 2
    MaxFaults = 1
INVARIANT NoResurrection
PROPERTIES
    FlagsStay
    HandledStays
    Convergence
