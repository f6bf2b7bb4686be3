SPECIFICATION Spec
CONSTANTS
    Session = {s1, s2}
    Worker = {w1, w2}
    Nobody = nobody
    Input = {}
    Fault = {"accept_closed", "accept_error", "read_closed", "write_error"}
    MaxMessages = 1
    UIntMod = 16
SYMMETRY Symmetry
INVARIANTS
    GoneIsSilent
    AtMostTwoNotices
CHECK_DEADLOCK FALSE
