\* Liveness: two clients, one of them silent or gone; a configured card, and one that
\* is not, whose session may never end.  A request holds up the removal of either card
\* and the report of the second.
SPECIFICATION AgentFairSpec
CONSTANTS
    r1 = r1
    r2 = r2
    desktop = desktop
    laptop = laptop
    stranger = stranger
    nDesktop = nDesktop
    nLaptop = nLaptop
    mainKey = mainKey
    p1 = p1
    p2 = p2
    Absent = Absent
    Empty = Empty
    None = None
    Reader = {r1, r2}
    Card = {desktop, stranger}
    OpenPgp = {desktop, stranger}
    Nick = {nDesktop}
    Fits <- StrangerApart
    ConfIdent <- TwoCards
    Priority <- DesktopFirst
    Client = {k1, k2}
    Messages <- ForOne
    CommonPin <- Shared
    KeyName = {mainKey}
    Pin = {p1}
    FirstPin <- OnePinForAll
    MaxPlugs = 2
    MaxStarts = 0
    MayExclude = FALSE
    CallsMayFail = FALSE
    MaxTries = 2
    MaxChanges = 0
PROPERTIES
    EveryRequestEnds
    NewsGetsThrough
CHECK_DEADLOCK FALSE
