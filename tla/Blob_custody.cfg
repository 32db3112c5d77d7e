\* Two RPC tasks, a resubmission, crashes at every point.
CONSTANTS
    K = 2
    N = 3
    ShardSize = 2
    Blobs <- MCBlobs
    Gossiped <- MCGossiped
    Clients = {c1, c2}
    MaxSubmits = 2
    MaxCrashes = 1
SPECIFICATION Spec
INVARIANTS
    TypeOK
    NoBlobStranded
    AttachedWasSealed
    AvailableDecodes
    ResponsesVerify
PROPERTY
    EveryBlobSealed
