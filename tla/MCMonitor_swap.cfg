\* Two configured cards, one of them under two nicknames, and one that is not
\* configured, all under the same two names; failures and a restart.
SPECIFICATION MonitorSpec
CONSTANTS
    r1 = r1
    r2 = r2
    desktop = desktop
    laptop = laptop
    stranger = stranger
    nDesktop = nDesktop
    nLaptop = nLaptop
    nSpare = nSpare
    Absent = Absent
    Empty = Empty
    None = None
    Reader = {r1, r2}
    Card = {desktop, laptop, stranger}
    OpenPgp = {desktop, laptop, stranger}
    Nick = {nDesktop, nSpare, nLaptop}
    Fits <- AnyCardAnywhere
    ConfIdent <- OneCardTwice
    Priority <- DesktopFirst
    MaxPlugs = 3
    MaxStarts = 1
    MayExclude = TRUE
    CallsMayFail = TRUE
INVARIANTS
    MonitorTypeOK
    DistinctAddresses
    ReadyIsTracked
    ReadyCardIsThere
    IdentifiedCardIsReady
    NoSharedReader
PROPERTIES
    ImplementsDirectory
SYMMETRY ReaderSymmetry
CHECK_DEADLOCK FALSE
