SPECIFICATION LossSpec
CONSTANTS
    Validator = {1, 2, 3, 4}
    Honest = {1, 2, 3}
    Faulty = {}
    Blobs = {x}
    Pending <- OnePayload
    MaxRound = 1
    FaultyProposal <- NoProposal
    MaxLoss = 1
    Lossy = {"proposal"}
PROPERTIES
    RecoversFromLoss
