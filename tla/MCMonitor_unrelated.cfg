\* Another application keeps its session with an unrelated card (README.md:9).
SPECIFICATION ConfiguredFairSpec
CONSTANTS
    r1 = r1
    r2 = r2
    desktop = desktop
    laptop = laptop
    stranger = stranger
    nDesktop = nDesktop
    nLaptop = nLaptop
    nSpare = nSpare
    Absent = Absent
    Empty = Empty
    None = None
    Reader = {r1, r2}
    Card = {desktop, stranger}
    OpenPgp = {desktop, stranger}
    Nick = {nDesktop}
    Fits <- StrangerApart
    ConfIdent <- TwoCards
    Priority <- DesktopFirst
    MaxPlugs = 2
    MaxStarts = 0
    MayExclude = FALSE
    CallsMayFail = FALSE
PROPERTIES
    UnrelatedSessionIsHarmless
CHECK_DEADLOCK FALSE
