CONSTANTS
    Order = 7
    MaxRetries = 2
    MaxOrphans = 1
    Requests <- MCRequests
    Feeds <- MCFeeds
SPECIFICATION Spec
INVARIANTS
    RequestSent
CHECK_DEADLOCK FALSE
