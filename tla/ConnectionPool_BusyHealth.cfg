SPECIFICATION Spec
CONSTANTS
    t1 = t1
    Threads = {t1, t2, t3}
    Asks <- MCAsks
    Tx = {x}
    Read = Read
    Conns = {c1, c2, c3}
    NoConn = NoConn
    MinConn = 1
    MaxConn = 2
INVARIANT HealthMeansUnreachable
