CONSTANTS
    Conns = {c1}
    Matchers = {m1}
    Addrs = {a1}
    MaxGen = 1
    None = None
SPECIFICATION RegistrySpec
INVARIANT NeverLost
CHECK_DEADLOCK FALSE
