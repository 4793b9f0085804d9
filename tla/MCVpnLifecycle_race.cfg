\* One connect and one disconnect that overlap; nothing fails.
SPECIFICATION Spec
CONSTANTS
    Toggles = {c1, c2}
    Servers = {s1}
    NoServer = NoServer
    Nobody = Nobody
    ConnectsAlone = FALSE
    PortHolders = {"free"}
    MayFail = {}
    MayQuit = FALSE
    MayRelay = FALSE
    MayCrash = FALSE
    ExclusiveSession = TRUE
PROPERTIES
    RoutingRestored
