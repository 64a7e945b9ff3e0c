\* Two slots of three kinds of cards; two programs and a foreign one share a card;
\* four commands to scdaemon; the codecs.
SPECIFICATION LibrarySpec
CONSTANTS
    Uncached = Uncached
    NoArd = NoArd
    Slot <- TwoSlots
    Cards <- SomeCards
    FirstAttrs <- NewAttrs
    Imported <- SomeKeys
    Simples = {"RSA4k", "Curve25519"}
    MaxCalls = 2
    Program = {"ours", "theirs"}
    MaxForeign = 2
    MaxCommands = 4
INVARIANTS
    LibraryTypeOK
    SlotIsDescribed
    TouchIsAnnounced
    PublicKeyIsDecoded
    ChosenAttributesFit
    OnlyInvalidationPanics
    CardIsRecovered
    WrittenObjectsAreRead
    ImportIsWellFormed
    HashesExactly
    AppletIsSelected
    ResetIsReported
    ReplyIsOfItsCommand
PROPERTIES
    FingerprintFollowsKey
CHECK_DEADLOCK FALSE
