CONSTANTS
    MeshNodes = {1, 2, 3, 4, 5}
    MeshLinks = {{1, 2}, {2, 3}, {1, 3}, {3, 4}, {4, 5}}
    Speakers = {1, 2, 3}
    Breakable = {{3, 4}}
    Budgets <- OneCut
    Advertisers = {}
    Settled_ = 6
    HopCap = 5
SPECIFICATION GossipSpec
PROPERTY Forgets
CHECK_DEADLOCK FALSE
