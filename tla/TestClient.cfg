CONSTANTS
    MaxCommands = 4
    MaxReports = 2
    MaxHashes = 2
SPECIFICATION Spec
INVARIANTS
    HostsReleased
PROPERTIES
    CommandsEnd
CHECK_DEADLOCK FALSE
