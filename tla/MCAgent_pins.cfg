\* Two cards with one cache key but different PINs, in turn in one reader; a PIN is changed; one restart.
SPECIFICATION AgentSpec
CONSTANTS
    r1 = r1
    r2 = r2
    desktop = desktop
    laptop = laptop
    stranger = stranger
    nDesktop = nDesktop
    nLaptop = nLaptop
    mainKey = mainKey
    p1 = p1
    p2 = p2
    Absent = Absent
    Empty = Empty
    None = None
    Reader = {r1}
    Card = {desktop, laptop}
    OpenPgp = {desktop, laptop}
    Nick = {nDesktop, nLaptop}
    Fits <- AnyCardAnywhere
    ConfIdent <- TwoCards
    Priority <- DesktopFirst
    Client = {k1, k2}
    Messages <- ForOne
    CommonPin <- Shared
    KeyName = {mainKey}
    Pin = {p1, p2}
    FirstPin <- PinsDiffer
    MaxPlugs = 2
    MaxStarts = 1
    MayExclude = FALSE
    CallsMayFail = FALSE
    MaxTries = 2
    MaxChanges = 1
INVARIANTS
    OneWrongPinPerRun
SYMMETRY ClientSymmetry
CHECK_DEADLOCK FALSE
