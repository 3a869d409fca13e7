SPECIFICATION FairSpec
CONSTANTS
    c1 = c1
    c2 = c2
    Clients = {c1, c2}
    Inputs <- Files
    Faults = TRUE
    MaxSignals = 2
INVARIANTS
    TypeOK
    NoUseAfterClose
    ExitReleases
    FailedStartServedNobody
    SettingsChecked
    GracefulShutdown
PROPERTY SignalShutsDown
