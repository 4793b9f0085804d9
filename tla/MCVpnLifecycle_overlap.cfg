\* Three calls that overlap in every way.
SPECIFICATION FairSpec
CONSTANTS
    Toggles = {c1, c2, c3}
    Servers = {s1}
    NoServer = NoServer
    Nobody = Nobody
    ConnectsAlone = FALSE
    PortHolders = {"dnscache"}
    MayFail = {"sc_start"}
    MayQuit = FALSE
    MayRelay = FALSE
    MayCrash = FALSE
    ExclusiveSession = TRUE
INVARIANTS
    RollbackExclusive
    NoOrphanTasks
PROPERTIES
    CallsEnd
