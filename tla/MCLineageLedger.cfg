SPECIFICATION FairSpec
CONSTANTS
    Hosts = {h1, h2}
    Ids = {x, y}
    Settings <- MCSettings
    MaxOrdinal = 4
    MaxAborts = 1
INVARIANTS SealsVerify HeadIsLatest
PROPERTIES AmendsWhatItRead TransactionsEnd
CHECK_DEADLOCK FALSE
