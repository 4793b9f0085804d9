\* Two 4-tuples and two relay tasks, of one 4-tuple or of two.
SPECIFICATION FlowFairSpec
CONSTANTS
    Keys = {k1, k2}
    Flows = {f1, f2}
    NoFlow = NoFlow
    QueueSize = 2
INVARIANTS
    EntryHasRelay
PROPERTIES
    ClosedRelayEnds
    RelaysWindDown
