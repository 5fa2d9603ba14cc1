SPECIFICATION Spec
CONSTANTS
    Domains = {1, 2, 3, 4}
    PoolEnd = 4
    Skip = 1
    MaxCrashes = 1
    MaxDbErrors = 1
    Queries = {1, 2, 3}
    NameOf <- NameOf_
    RemoteNames = {1, 2}
    EmptyAnswer = {3}
    DnsWorkers = {1, 2}
    QueueCap = 1
    MaxOdd = 1
    MayStopDns = TRUE
    Macs = {1, 2}
    PoolFirst = 1
    PoolLast = 2
    Configured = TRUE
    BindingSets <- BindingSets_
    LeaseTicks = 1
    MaxRestarts = 1
    Togglers = {1}
    Bypass = TRUE
    DnsMethod = "resolvconf"
    OrigForward = 0
    OrigRpFilter = 1
    MaxDeaths = 2
    MaxToggles = 3
    PkgWorks = "bad"
    MaxTries = 2
    MaxCrash = 2
    MaxSpawnFail = 3
    MaxSignal = 1
    MaxDoze = 1
    Nodes = {1, 2}
    Peers <- Peers_
    Upgrading = {1}
    Rank <- Rank_
    Retention = 2
    Starting <- Starting_
    Uploadable <- Uploadable_
    Removable <- Removable_
    MaxUploads = 1
    MaxPublishes = 1
    MaxMishaps = 1
    MaxCopies = 6
    RelayKinds = {"tcp", "udp"}
    MaxUnits = 2
    Unread = 1
 
 
PROPERTY FakeIpRight
PROPERTY DnsRight
 
 
CHECK_DEADLOCK FALSE
