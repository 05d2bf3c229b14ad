SPECIFICATION Spec
CONSTANTS
    Callers = {c1, c2}
    Loopers = {}
    Ids = {i1}
    Kinds = {"websocket"}
    MaxConnectors = 1
    MaxTransports = 2
    None = None
INVARIANT StreamOwnsConnection
CHECK_DEADLOCK FALSE
