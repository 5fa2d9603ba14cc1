CONSTANTS
    Kinds = {"CONN", "BIND"}
    MaxWrites = 1
    MaxOut = 1
    MaxGets = 1
    MaxBeats = 1
    Beating = {"CONN"}
    MaxFaults = 1
    EarlyRetry = TRUE
    SlowDial = FALSE
    MayReject = TRUE
    Loops = {l1, l2}
    Posts = {p1, p2}
    MaxDown = 3
    Control = {2}
    MaxUp = 2
    OutLen = 1
    GetLen = 1
    RecvLen = 1
    Limit = 3
    MaxQueued = 5
    MaxTrouble = 1
    MaxTimeouts = 1
    Repeats = FALSE
    Lanes = {1}
    Flows = {f, g, z}
    Loose = {z}
    MaxSent = 2
    MaxLanes = 1
    Depth_ = 1
    AffinityCap = 1
    MaxBreaks_ = 1
    MayClose_ = TRUE
SPECIFICATION FairSpec
PROPERTY TunnelServes
PROPERTY FramesServed
PROPERTY SendReturns
CHECK_DEADLOCK FALSE
