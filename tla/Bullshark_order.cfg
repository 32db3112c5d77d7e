SPECIFICATION FairSpec
CONSTANTS
    Validator = {1, 2, 3, 4}
    Correct = {1, 2, 3}
    Honest = {1}
    MaxRound = 7
    Vertex <- AllVertices
    Dags <- FewDags
    Late = {}
    AnchorAuthor <- AnchorByBeacon
    HashBefore <- AuthorBefore
    Shortcut = 2
    SlowPath = 4
    MaxBeacon = 1
INVARIANTS
    TypeOK
    OneDecisionPerWave
    EmitsWholeHistory
    ShortcutStaysInHistory
PROPERTY
    EveryWaveCommits
CHECK_DEADLOCK FALSE
