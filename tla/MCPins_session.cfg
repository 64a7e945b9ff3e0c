\* A card without KDF, with it, and with a KDF-DO that has one salt only.
SPECIFICATION PinsSpec
CONSTANTS
    p1 = p1
    p2 = p2
    NoKdf = NoKdf
    Uncached = Uncached
    Junk = Junk
    Pin = {p1, p2}
    FactoryPin <- SamePin
    Kdfs <- KdfKinds
    CardTries = {2}
    Pinpads = {"none", "pcsc", "scdc"}
    MaxCalls = 3
INVARIANTS
    PinsTypeOK
    StoredPinIsTypable
PROPERTIES
    OnlyWrongPinsCostTries
    ResetIsComplete
CHECK_DEADLOCK FALSE
