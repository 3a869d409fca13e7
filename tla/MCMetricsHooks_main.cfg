SPECIFICATION Spec
CONSTANTS
    c1 = c1
    c2 = c2
    x = x
    y = y
    plain = plain
    long = long
    EventLoop = EventLoop
    Conns = {c1, c2}
    ClientIDs = {x, y}
    Topics = {plain, long}
    Untracked = {long}
    MaxConnects = 2
    MaxFailures = 1
    MaxRequests = 2
CHECK_DEADLOCK FALSE
SYMMETRY HookSymmetry
INVARIANTS
    TypeOK
    GaugeAccounted
    NoStartTimeLeak
    SubscribersAccounted
