SPECIFICATION FairSpec
CONSTANTS
    Client = {c1, c2}
    Listener = {l1, l2}
    NoListener = none
    Requested = {1, 2, 6}
    PortMin = 1
    PortMod = 4
    Fault = {"accept_error", "bad_address", "peer_eof", "peer_reset"}
INVARIANTS
    ShareHoldsLiveSessions
    StatusAccurate
    ListedIffListening
PROPERTY
    DeadIsDestroyed
CHECK_DEADLOCK FALSE
