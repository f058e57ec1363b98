SPECIFICATION FairSpec
CONSTANTS
    open = open
    move = move
    rival = rival
    r1 = r1
    h1 = h1
    h2 = h2
    Old = old
    Commands = {open, move, rival}
    Reads = {r1}
    Hosts <- MCHosts
    HostOf <- MCHostOf
    Starts = {open, old}
    Moves = {move}
    Bars <- MCBars
    Previews = {rival}
    Shadowed = {rival}
    Reactions <- MCReactions
    Attempts = 2
    MaxCrashes = 1
INVARIANTS StoredIsReplay ReactionsSettled 
PROPERTIES OneDomain DispatchEnds
CHECK_DEADLOCK FALSE
