SPECIFICATION Spec
CONSTANTS
    Session = {s1, s2}
    Worker = {w1}
    Nobody = nobody
    Input = {"echo_app", "reject"}
    Fault = {"read_closed"}
    MaxMessages = 1
    UIntMod = 16
SYMMETRY Symmetry
INVARIANTS
    SameOrder
    UidsUnique
    
CHECK_DEADLOCK FALSE
