SPECIFICATION Spec
CONSTANTS
    Validator = {1, 2, 3, 4}
    Honest = {1}
    Faulty = {2, 3, 4}
    Blobs = {x, y}
    Pending <- OnePayload
    MaxRound = 2
    FaultyProposal <- PeersRunAhead
INVARIANTS
    ProposesEveryRoundOnce
    FallbackTimerArmed
