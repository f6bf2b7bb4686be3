SPECIFICATION Spec
CONSTANTS
    Session = {s1, s2}
    Worker = {w1, w2}
    Nobody = nobody
    Input = {}
    Fault = {}
    MaxMessages = 1
    UIntMod = 16
INVARIANT
    UidsUnique
CHECK_DEADLOCK FALSE
