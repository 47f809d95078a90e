SPECIFICATION FairSpec
CONSTANTS
    r1 = r1
    r2 = r2
    b1 = b1
    b2 = b2
    s1 = s1
    s2 = s2
    k1 = k1
    k2 = k2
    l1 = l1
    l2 = l2
    Nobody = Nobody
    Inputs = {r1, b1}
    Bangs = {b1}
    Stops = {s1}
    Calls = {}
    Loops = {l1}
    Faults = {"interrupt", "too_large"}
PROPERTIES
    EveryPromiseSettles
    ImplementsTurnQueue
