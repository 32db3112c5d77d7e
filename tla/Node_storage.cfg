SPECIFICATION Spec
CONSTANTS
    N = 4
    Ke = 2
    ScanLimit = 4
    Self = 0
    Subnet = 1
    Certs <- FewCerts
    Proposals <- NoProposals
    Heights <- MCHeights
    Roots <- MCRoots
    Configs <- MCSubnets
    Databases <- MCDatabases
    EventCap = 1
    ScheduleCap = 1
    MaxTimer = 1
    MaxRound = 0
    MaxInbound = 3
    MaxCrash = 1
INVARIANTS FinalizedVisible PeersUnderstand
PROPERTIES StatusNeverFalls
CHECK_DEADLOCK FALSE
