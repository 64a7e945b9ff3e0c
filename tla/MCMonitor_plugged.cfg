\* Liveness: two configured cards, each under a reader name of its own.
SPECIFICATION MonitorFairSpec
CONSTANTS
    r1 = r1
    r2 = r2
    desktop = desktop
    laptop = laptop
    stranger = stranger
    nDesktop = nDesktop
    nLaptop = nLaptop
    nSpare = nSpare
    Absent = Absent
    Empty = Empty
    None = None
    Reader = {r1, r2}
    Card = {desktop, laptop}
    OpenPgp = {desktop, laptop}
    Nick = {nDesktop, nLaptop}
    Fits <- OwnReader
    ConfIdent <- TwoCards
    Priority <- DesktopFirst
    MaxPlugs = 3
    MaxStarts = 0
    MayExclude = FALSE
    CallsMayFail = FALSE
PROPERTIES
    PluggedCardBecomesReady
CHECK_DEADLOCK FALSE
