SPECIFICATION Spec
CONSTANTS
    w1 = w1
    w2 = w2
    text = text
    object = object
    broken = broken
    Windows <- MCWindows
    Payloads <- MCPayloads
    TooLarge = {}
    NotUtf8 <- MCNotUtf8
    NotObject <- MCNotObject
    Json = {2}
    Names = {1, 2, 3}
    Unsupported = {3}
    MaxDrops = 2
    MaxCaptures = 3
SYMMETRY WindowSymmetry
INVARIANTS
    DeliveredOnce
    FileOnce
    NothingLost
    Kept
    ErrorsAreRefused
