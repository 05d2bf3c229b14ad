CONSTANTS
    Protocols = {upload, download}
    Sidecars = {s1, s2}
    None = None
    MaxListeners = 3
SPECIFICATION Spec
INVARIANTS
    HandlersReachable
    AnnouncedOnOwnServer
PROPERTIES
    ClientMovesWhole
    CloseEndsServing
CHECK_DEADLOCK FALSE
