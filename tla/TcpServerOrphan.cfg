SPECIFICATION Spec
CONSTANTS
    Client = {c1, c2}
    Listener = {l1, l2}
    NoListener = none
    Requested = {1, 2, 6}
    PortMin = 1
    PortMod = 4
    Fault = {}
INVARIANT
    ConnectedIsShown
CHECK_DEADLOCK FALSE
