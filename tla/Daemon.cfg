SPECIFICATION DaemonSpec
CONSTANTS
    Worker = {w1, w2, w3}
    Sample = {1, 5}
    Fault = {"first_read", "second_read", "users_leave"}
    PortMin = 1
    PortMod = 3
    UIntMod = 16
    LocalPort = {2}
    CommandLine <- CommandLines
    Built <- AppsBuilt
    Bad = Bad
    None = None
    UseSSL = TRUE
    Comm = {1, 2}
    Cores = {1, 2}
    MaxTicks = 1
    MaxUptime = 2
INVARIANTS
    OneSampling
    RunningIsActive
    
    WellFormedIsHandled
    RunningIsConfigured
    FiguresAreRight
PROPERTIES
    CancelStops
    ToldWhatHappened
    StartupEnds
    SignalStops
CHECK_DEADLOCK FALSE
