SPECIFICATION Spec
CONSTANTS
    N = 4
    Ke = 2
    ScanLimit = 4
    Self = 0
    Subnet = 1
    Certs <- MCCerts
    Proposals <- MCProposals
    Heights <- MCHeights
    Roots <- OneRoot
    Configs <- MCConfigs
    Databases <- FirstStart
    EventCap = 2
    ScheduleCap = 1
    MaxTimer = 2
    MaxRound = 1
    MaxInbound = 2
    MaxCrash = 1
INVARIANTS TypeOK NoForkedVertex TimersSurvive
PROPERTIES OwnCertReturns
CHECK_DEADLOCK FALSE
