\* The client's window fits the channel; it resends at most once.  A read of
\* two chunks, and a client with room for two.
SPECIFICATION RelayFairSpec
CONSTANTS
    QueueSize = 2
    Window = 2
    MaxSent = 4
    MaxReplies = 3
    BufferSize = 2
    ClientRoom = 2
INVARIANTS
    ReplyIsWhole
PROPERTIES
    ImplementsPipe
    FinDrains
    QueuedIsAcked
    ReplyArrives
