CONSTANTS
    Order = 7
    MaxRetries = 2
    MaxOrphans = 1
    Requests <- MCRequests
    Feeds <- MCFeeds
SPECIFICATION Spec
INVARIANTS
    NothingLostWithoutTimeout
    TimeoutLosesOne
    NeverTwice
    SuccessWritesLast
    ClaimVerifies
    KeyRoundTrips
PROPERTIES
    RequestEnds
CHECK_DEADLOCK FALSE
