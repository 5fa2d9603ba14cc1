SPECIFICATION Spec
CONSTANTS
    Names = {a, b}
    Holders = {h}
    Sessions = {s}
    MaxRules = 3
    Nodes = {n1, n2}
    Urls = {u1, u2}
    Admins = {"a1"}
    MaxEdits = 2
    MaxRounds = 2
    Confs = {"c", "d"}
    Maps = {"m"}
    Requests = {r1}
    MaxChanges = 3
    MaxSessions = 2
    RenameOnto = FALSE
    p1 = p1
    p2 = p2
    g1 = g1
    g2 = g2
    g3 = g3
    Leaves <- MCLeaves
    Groups <- MCGroups
    Shapes <- MCShapes
    FailAt = 3
    OkAt = 2
INVARIANT GroupsSound
 
 
 
CHECK_DEADLOCK FALSE
