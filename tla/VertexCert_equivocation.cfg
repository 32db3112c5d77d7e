SPECIFICATION Spec
CONSTANTS
    Validator = {1, 2, 3, 4}
    Honest = {1, 2}
    Faulty = {4}
    Blobs = {x, y}
    Pending <- OnePayload
    MaxRound = 2
    FaultyProposal <- EquivocatesThenGoesOn
INVARIANTS
    TypeOK
    OneVotePerSlot
    CertUnique
    CausalHistory
    NoHonestAccused
