\* Disconnects and quits overlap at will, a connect is alone; anything
\* outside may fail but an undo and the start of Dnscache, and the process
\* may die and be started again.
SPECIFICATION Spec
CONSTANTS
    Toggles = {c1, c2, c3, c4}
    Servers = {s1, s2}
    NoServer = NoServer
    Nobody = Nobody
    ConnectsAlone = TRUE
    PortHolders = {"free", "dnscache", "other"}
    MayFail = {"activate", "resolve", "configure", "sc_stop", "poll"}
    MayQuit = TRUE
    MayRelay = TRUE
    MayCrash = TRUE
    ExclusiveSession = TRUE
SYMMETRY Symmetric
INVARIANTS
    TypeOK
    ConnectedMeansServed
    ConnectedIsUndoable
    ProxyNotTunnelled
PROPERTIES
    RoutesGoFirst
    DisconnectEndsAll
