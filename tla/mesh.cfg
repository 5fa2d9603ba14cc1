SPECIFICATION GossipSpec
CONSTANTS
    MeshNodes = {1, 2, 3, 4}
    MeshLinks = {{1, 2}, {2, 3}, {1, 3}, {3, 4}}
    Speakers = {1, 2, 3, 4}
    Breakable = {{3, 4}}
    Budgets <- CutOrSwitch
    Advertisers = {4}
    Settled_ = 5
    HopCap = 9
 
PROPERTY Learns
CHECK_DEADLOCK FALSE
