\* A window of more segments than the channel holds.
SPECIFICATION StreamSpec
CONSTANTS
    QueueSize = 2
    Window = 4
    MaxSent = 4
INVARIANTS
    AckedIsForwarded
