SPECIFICATION Spec
CONSTANTS
    Validator = {1, 2, 3, 4}
    Honest = {1}
    Forgetful = {2, 3}
    Micro = {1, 2, 3, 4, 5}
    W = 2
    LeakTrigger = 1
    Primary <- PrimaryByTurn
    Backup <- NextInTurn
    MaxHeight = 1
    ForgetfulProposal <- PeersDisagree
INVARIANTS
    NoMicroTwice
    LeakMeasuresLag
    VotesNeverSlashable
PROPERTY
    TierNeverFalls
CHECK_DEADLOCK FALSE
