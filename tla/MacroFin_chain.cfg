SPECIFICATION Spec
CONSTANTS
    Validator = {1, 2, 3, 4}
    Honest = {1, 2}
    Forgetful = {4}
    Micro = {a, b}
    W = 1
    LeakTrigger = 1
    Primary <- PrimaryByTurn
    Backup <- NextInTurn
    MaxHeight = 1
    ForgetfulProposal <- NoProposals
INVARIANTS
    TypeOK
    OneVotePerHeight
    MacroAgreement
    FinalsAgree
PROPERTY
    ImplementsLog
SYMMETRY MicroSymmetry
CHECK_DEADLOCK FALSE
