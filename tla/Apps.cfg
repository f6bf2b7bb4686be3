SPECIFICATION AppsSpec
CONSTANTS
    Client = {c1, c2}
    Port = {p1, p2}
    NoPort = none
    Fault = {"refused", "unreachable", "peer_eof", "peer_reset"}
    Socket = {s1, s2}
    Handle = {h1, h2}
    Name = {n1, n2}
    NoName = empty
INVARIANTS
    ListedIsServed
    UnlistedIsClosing
    StatusAccurate
    SocketsAreListed
    PortsAreListed
    OpenedIsShown
PROPERTIES
    ClosedComesToRest
    SocketComesToRest
    ClosedByItsOwnEnd
    RemovedIsUnlisted
CHECK_DEADLOCK FALSE
