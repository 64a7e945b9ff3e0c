\* A transaction is open while the agent waits (README.md:9).
SPECIFICATION AgentSpec
CONSTANTS
    r1 = r1
    r2 = r2
    desktop = desktop
    laptop = laptop
    stranger = stranger
    nDesktop = nDesktop
    nLaptop = nLaptop
    mainKey = mainKey
    p1 = p1
    p2 = p2
    Absent = Absent
    Empty = Empty
    None = None
    Reader = {r1, r2}
    Card = {desktop, laptop}
    OpenPgp = {desktop, laptop}
    Nick = {nDesktop}
    Fits <- OwnReader
    ConfIdent <- TwoCards
    Priority <- DesktopFirst
    Client = {k1}
    Messages <- ForEither
    CommonPin <- Shared
    KeyName = {mainKey}
    Pin = {p1, p2}
    FirstPin <- OnePinForAll
    MaxPlugs = 1
    MaxStarts = 0
    MayExclude = FALSE
    CallsMayFail = FALSE
    MaxTries = 2
    MaxChanges = 0
INVARIANTS
    NoTransactionWhileWaiting
CHECK_DEADLOCK FALSE
