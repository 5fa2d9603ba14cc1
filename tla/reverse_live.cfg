CONSTANTS
    Parts = {"registry", "pool", "handshake", "control", "udp"}
    Conns = {c1}
    Matchers = {m1, m2}
    Addrs = {a1}
    MaxGen = 1
    None = None
    Sockets = {s1, s2}
    MaxConns = 1
    MaxTimers = 2
    NoConn = NoConn
    MaxBeats = 1
    MaxData = 1
    Sessions = {k1, k2}
    ReverseIDs = {r1}
    Seqs = {q1}
    PortMax = 2
    MaxForce = 0
    MaxRestarts = 1
    MaxShutdowns = 1
    NoSession = NoSession
    Guesses <- Guesses_
    DataCap = 1
    MaxMoves = 1
    MaxDatagrams = 1
    MaxLost = 1
SPECIFICATION FairSpec
PROPERTY RegistryServes
PROPERTY PoolServes
PROPERTY ShakeEnds
PROPERTY ControlEnds
PROPERTY ChannelRight
CHECK_DEADLOCK FALSE
