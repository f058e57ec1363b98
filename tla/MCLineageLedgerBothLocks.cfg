SPECIFICATION Spec
CONSTANTS
    Hosts = {h1, h2}
    Ids = {x, y}
    Settings <- MCBothLocks
    MaxOrdinal = 3
    MaxAborts = 0
INVARIANTS SealsVerify
CHECK_DEADLOCK FALSE
