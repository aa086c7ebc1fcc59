\* Two identities, one of them behind a hardware key; nothing obliges the user to go on.
SPECIFICATION Spec
CONSTANTS
    Name = {"ann", "bob"}
    HWName = {"bob"}
    Old = 1
    New = 2
    Fresh = 3
    Torn = 4
    NoName = ""
    Backends = {"file", "keychain"}
    MaxEvents = 3
INVARIANT ReimportSucceeds
CHECK_DEADLOCK FALSE
