\* Two Locks, of two frames each, and two decoders.
SPECIFICATION FairScanSpec
CONSTANTS
    a = a
    b = b
    d1 = d1
    d2 = d2
    Bundle <- TwoLocks
    Size <- Sizes
    DefaultFrameChunkSize = 2
    Decoder <- TwoDecoders
    None = None
    Garbled = Garbled
    Failed = Failed
    MaxTurns = 1
    MaxMisreads = 1
    MaxResets = 1
INVARIANT OneLock
PROPERTIES
    HandedOverWhole
    ScanFinishes
CHECK_DEADLOCK FALSE
