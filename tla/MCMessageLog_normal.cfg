SPECIFICATION Spec
CONSTANTS
    c1 = c1
    c2 = c2
    t1 = t1
    t2 = t2
    Clients = {c1, c2}
    Topics = {t1}
    Size <- MCSize
    Synchronous = "NORMAL"
    PowerCuts = TRUE
    BusyReaders = TRUE
    MaxPublishes = 3
    MaxTime = 1
SYMMETRY ClientSymmetry
INVARIANTS
    TypeOK
    CheckpointedDurable
    NextIDFresh
    OrderPreserved
    LossTakesNewest
    CountersAgree
