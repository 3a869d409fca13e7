SPECIFICATION Spec
CONSTANTS
    c1 = c1
    c2 = c2
    x = x
    y = y
    plain = plain
    long = long
    EventLoop = EventLoop
    Conns = {c1, c2}
    ClientIDs = {x}
    Topics = {}
    Untracked = {long}
    MaxConnects = 2
    MaxFailures = 0
    MaxRequests = 0
CHECK_DEADLOCK FALSE
INVARIANT NoMapRace
