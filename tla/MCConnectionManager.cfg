SPECIFICATION Spec
CONSTANTS
    Callers = {c1, c2}
    Loopers = {c1}
    Ids = {i1, i2}
    Kinds = {"libp2p", "websocket", "hyperswarm"}
    MaxConnectors = 2
    MaxTransports = 2
    None = None
INVARIANTS
    OpensLive
    NothingElseLeaks
PROPERTIES
    LoopsCover
    CallsEnd
CHECK_DEADLOCK FALSE
