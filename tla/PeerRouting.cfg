SPECIFICATION MCSpec
CONSTANTS
    s1 = s1
    s2 = s2
    p1 = p1
    p2 = p2
    k1 = k1
    k2 = k2
    c = c
    Servers = {s1, s2}
    ClientKeys = {c, d}
    SlashKeys = {d}
    SessionKeys = {p1, p2, k1, k2}
    MaxLoops = 1
    None = None
INVARIANTS ReplicaAccurate
PROPERTIES DialTerminates RouteLeadsToClient LiveSessionIsFound
CHECK_DEADLOCK FALSE
