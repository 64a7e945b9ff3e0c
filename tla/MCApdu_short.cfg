\* A truncated reply to an extended APDU.
SPECIFICATION ApduSpec
CONSTANTS
    AllCaps <- ExtendedCaps
    Lengths = {0, 10}
    Replies = {0, 300}
    Parts = {256}
INVARIANTS
    ShortLeOnlyInShortApdu
CHECK_DEADLOCK FALSE
