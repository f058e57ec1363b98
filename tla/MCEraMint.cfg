SPECIFICATION FairSpec
CONSTANTS
    h1 = h1
    h2 = h2
    h3 = h3
    a = a
    b = b
    c = c
    r1 = r1
    Unnamed = unnamed
    Hosts <- MCHosts
    LabelOf <- MCLabelOf
    Edges <- MCEdges
    Needs = {b}
    Ids = {r1}
    Starts <- MCStarts
    MaxRows = 3
    MaxBoots = 4
INVARIANTS ErasChain HeadKeepsWrites
PROPERTIES SupersededRefused BootEnds
CHECK_DEADLOCK FALSE
