CONSTANTS
    K = 2
    R = 2
    G = 2
    PortMax = 1
    Prompt = TRUE
    MaxOutages = 2
    MaxBreaks = 1
    MayFill = FALSE
    Closers = {}
    MaxQueue = 2
    Runs = {r1, r2, r3}
    None = None
    MaxSaves = 1
    MaxStalls = 1
    MayStop = TRUE
    Ends = {a, b}
    Senders = {a}
    FrameSizes = {1}
    CtrlBytes = 0
    CapMin = 1
    CapMax = 1
    CapInitial = 1
    GateBatch = 2
    CtrlDepth = 1
    MaxFrames = 2
    MaxCtrl = 0
    MaxWire = 1
    Producers = {p1, p2}
    N = 2
    Sizes = {1}
    Budget = 3
    Depth = 2
    Quantum = 2
    MaxBatch = 2
    OutDepth = 1
SPECIFICATION FairSpec
 
PROPERTY PeerServes
PROPERTY DataDrains
PROPERTY NoStarvation
CHECK_DEADLOCK FALSE
