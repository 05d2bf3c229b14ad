CONSTANTS
    WindowPackets = 2
    WindowBytes = 3
    MaxWindowPackets = 2
    MaxWindowBytes = 3
    Root = Root
    a = a
    b = b
    other = other
    k1 = k1
    k2 = k2
    NoHash = NoHash
    NoKey = NoKey
    Hashes <- MCHashes
    Keys <- MCKeys
    Messages <- MCMessages
SPECIFICATION Spec
INVARIANTS
    IInv
    AcceptedInOrder
    LeavesOnce
    DownloadComplete
    AcksMatchCommits
    FinalAckMeansVerified
PROPERTIES
    DownloadTerminates
CHECK_DEADLOCK FALSE
