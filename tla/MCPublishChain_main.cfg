SPECIFICATION FairChain
CONSTANTS
    c1 = c1
    c2 = c2
    plain = plain
    long = long
    Clients = {c1, c2}
    Topics = {plain, long}
    Untracked = {long}
    QoS = {0, 2}
    Size <- MCSize
    PayloadSize <- MCPayload
    Synchronous = "FULL"
    PowerCuts = TRUE
    BusyReaders = FALSE
    MaxPublishes = 2
    MaxTime = 0
INVARIANTS
    ChainTypeOK
    PublishedAreStored
    DeliveredAccounted
    PublishCountersAgree
    AcceptedStored
    QueryKeepsNewest
PROPERTIES
    ReadDelivered
    ImplementsDurableLog
