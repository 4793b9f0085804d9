\* Two SYNs of one 4-tuple.
SPECIFICATION FlowSpec
CONSTANTS
    Keys = {k1}
    Flows = {f1, f2}
    NoFlow = NoFlow
    QueueSize = 2
INVARIANTS
    ClosedByItsOwn
