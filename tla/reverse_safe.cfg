CONSTANTS
    Parts = {"registry", "pool", "handshake", "control"}
    Conns = {c1, c2}
    Matchers = {m1, m2}
    Addrs = {a1}
    MaxGen = 0
    None = None
    Sockets = {s1, s2, s3}
    MaxConns = 2
    MaxTimers = 2
    NoConn = NoConn
    MaxBeats = 2
    MaxData = 2
    Sessions = {k1, k2}
    ReverseIDs = {r1, r2}
    Seqs = {q1}
    PortMax = 2
    MaxForce = 1
    MaxRestarts = 1
    MaxShutdowns = 0
    NoSession = NoSession
    Guesses <- Guesses_
    DataCap = 1
    MaxMoves = 1
    MaxDatagrams = 1
    MaxLost = 1
SPECIFICATION Spec
SYMMETRY Symmetry
INVARIANT RegistrySound
INVARIANT PoolSound
INVARIANT ShakeSound
INVARIANT ControlSound
CHECK_DEADLOCK FALSE
