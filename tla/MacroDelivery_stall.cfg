SPECIFICATION PacedSpec
CONSTANTS
    Validator = {1, 2, 3, 4}
    Honest = {2, 3, 4}
    Forgetful = {}
    Micro = {1, 2}
    W = 1
    LeakTrigger = 4
    Primary <- PrimaryByHeight
    Backup <- BackupByHeight
    MaxHeight = 0
    ForgetfulProposal <- NoProposals
PROPERTY
    SomeQc
CHECK_DEADLOCK FALSE
