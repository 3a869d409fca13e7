SPECIFICATION FairSpec
CONSTANTS
    c1 = c1
    c2 = c2
    Clients = {c1, c2}
    Inputs <- OnlyBare
    Faults = TRUE
    MaxSignals = 0
PROPERTY AnnouncedServes
