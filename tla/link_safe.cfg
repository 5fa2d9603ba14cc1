CONSTANTS
    K = 1
    R = 1
    G = 1
    PortMax = 1
    Prompt = FALSE
    MaxOutages = 0
    MaxBreaks = 0
    MayFill = TRUE
    Closers = {"P"}
    MaxQueue = 1
    Runs = {r1, r2, r3}
    None = None
    MaxSaves = 2
    MaxStalls = 0
    MayStop = FALSE
    Ends = {a, b}
    Senders = {a}
    FrameSizes = {2}
    CtrlBytes = 0
    CapMin = 1
    CapMax = 3
    CapInitial = 3
    GateBatch = 2
    CtrlDepth = 1
    MaxFrames = 2
    MaxCtrl = 0
    MaxWire = 1
    Producers = {p1, p2}
    N = 2
    Sizes = {1, 2}
    Budget = 3
    Depth = 2
    Quantum = 2
    MaxBatch = 2
    OutDepth = 1
SPECIFICATION Spec
 
INVARIANT PeerSound
INVARIANT GateSound
INVARIANT DrrSound
CHECK_DEADLOCK FALSE
