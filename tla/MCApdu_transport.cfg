\* Commands and replies around every limit, with and without chaining and extended length.
SPECIFICATION ApduFairSpec
CONSTANTS
    AllCaps <- VariousCaps
    Lengths = {0, 1, 100, 255, 256, 482, 483, 2048}
    Replies = {0, 100, 600}
    Parts = {100, 256}
INVARIANTS
    ApduTypeOK
    RunsOnceOnAllData
    NoChainIsLeftBehind
    LineFits
PROPERTIES
    ImplementsCommand
    CallEnds
CHECK_DEADLOCK FALSE
