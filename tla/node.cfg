SPECIFICATION Spec
CONSTANTS
    Stations = {1, 2, 3, 4}
    Computing = {1, 2, 3}
    StartGraphs <- Graphs_
    Alterations <- Alters_
    MaxAlters = 2
    Senders = {1, 2}
    CritCap = 1
    NormCap = 1
    MaxSaid = 1
    MaxConfig = 1
    Own = 0
    Direct = {1, 2}
    Nets <- Nets_
    Zones <- Zones_
    Sayings <- Sayings_
    Settings <- Settings_
    MaxNews = 3
    PongTimeout = 2
    LateGrace = 4
    LossWindow = 3
    FailThreshold = 3
    InboundQuiet = 2
 
PROPERTY RouterRight
 
PROPERTY PingRight
CHECK_DEADLOCK FALSE
