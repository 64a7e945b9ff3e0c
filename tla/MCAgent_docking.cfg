\* Two cards that share a PIN, each in a reader of its own, two clients.
SPECIFICATION AgentSpec
CONSTANTS
    r1 = r1
    r2 = r2
    desktop = desktop
    laptop = laptop
    stranger = stranger
    nDesktop = nDesktop
    nLaptop = nLaptop
    mainKey = mainKey
    p1 = p1
    p2 = p2
    Absent = Absent
    Empty = Empty
    None = None
    Reader = {r1, r2}
    Card = {desktop, laptop}
    OpenPgp = {desktop, laptop}
    Nick = {nDesktop, nLaptop}
    Fits <- OwnReader
    ConfIdent <- TwoCards
    Priority <- DesktopFirst
    Client = {k1, k2}
    Messages <- ForOne
    CommonPin <- Shared
    KeyName = {mainKey}
    Pin = {p1}
    FirstPin <- OnePinForAll
    MaxPlugs = 2
    MaxStarts = 0
    MayExclude = FALSE
    CallsMayFail = TRUE
    MaxTries = 2
    MaxChanges = 0
INVARIANTS
    AgentTypeOK
    ServesBestCard
    PromptOncePerKey
    SessionsAreBounded
PROPERTIES
    ImplementsMonitor
SYMMETRY ClientSymmetry
CHECK_DEADLOCK FALSE
