CONSTANTS
    Kinds = {"CONN", "BIND", "UDP"}
    MaxWrites = 2
    MaxOut = 2
    MaxGets = 2
    MaxBeats = 1
    Beating = {"CONN"}
    MaxFaults = 1
    EarlyRetry = TRUE
    SlowDial = FALSE
    MayReject = TRUE
    Loops = {l1, l2}
    Posts = {p1, p2}
    MaxDown = 4
    Control = {2}
    MaxUp = 2
    OutLen = 1
    GetLen = 1
    RecvLen = 1
    Limit = 3
    MaxQueued = 5
    MaxTrouble = 1
    MaxTimeouts = 1
    Repeats = FALSE
    Lanes = {1, 2}
    Flows = {f, z}
    Loose = {z}
    MaxSent = 2
    MaxLanes = 1
    Depth_ = 1
    AffinityCap = 1
    MaxBreaks_ = 1
    MayClose_ = TRUE
SPECIFICATION Spec
 
INVARIANT FramesSound
INVARIANT StripeSound
 
CHECK_DEADLOCK FALSE
