SPECIFICATION Spec
CONSTANTS
    N = 4
    Assign <- MCAssign
    Primary = 1
    Backup = 2
    BackupDelay = 4
    RoundLength = 4
    BaseDelay = 1
    MaxDelay = 1
    Left <- MCLeft
    Right <- MCRight
    HealAt = 3
    Anchor = 0
    MaxTicks = 7
    MaxFaults = 2
INVARIANTS QcHasQuorum OneQcPerCheckpoint NothingOverdue
PROPERTY EveryoneAdopts
CHECK_DEADLOCK FALSE
