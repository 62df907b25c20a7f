SPECIFICATION FairSpec
CONSTANTS
    p1 = p1
    p2 = p2
    p3 = p3
    c1 = c1
    c2 = c2
    c3 = c3
    m1 = m1
    m2 = m2
    NoThread = NoThread
    Pushers = {p1}
    Poppers = {c1}
    Messages = {m1, m2}
    Capacity = 3
PROPERTIES
    EveryCallReturns
