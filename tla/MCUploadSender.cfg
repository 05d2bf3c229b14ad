CONSTANTS
    WindowPackets = 2
    WindowBytes = 3
    MaxWindowPackets = 2
    MaxWindowBytes = 3
    MaxN = 4
    MaxPending = 1
    Dags <- MCDags
    Responses <- MCResponses
SPECIFICATION Spec
INVARIANTS
    IInv
    WindowRespected
    NeverWaitsForNothing
    SenderNeverStranded
    SuccessMeansAllAcked
PROPERTIES
    ProgressMonotone
    Terminates
CHECK_DEADLOCK FALSE
