CONSTANTS
    WindowPackets = 2
    WindowBytes = 3
    MaxWindowPackets = 3
    MaxWindowBytes = 3
    MaxPackets = 7
    Owner = owner
    NoKey = noKey
    Dags <- MCDags
SPECIFICATION Spec
INVARIANTS
    AckMeansVerified
    SuccessMeansFinalized
    AckBufferSuffices
    NoAckDiscarded
PROPERTIES
    BothEnd
    ImplementsCumulativeTransfer
CHECK_DEADLOCK FALSE
