\* Every kind of profile and of target.
SPECIFICATION SessionSpec
CONSTANTS
    Targets <- MCTargets
    TooLong <- MCTooLong
    NoTarget = NoTarget
    MaxData = 2
INVARIANTS
    ReadyForData
CHECK_DEADLOCK FALSE
