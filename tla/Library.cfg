SPECIFICATION LibrarySpec
CONSTANTS
    Data = {d1, d2}
    MaxWrites = 5
    Conn = {c1, c2}
    MaxData = 2
    Port = {p1}
    Value = {1, 2}
INVARIANTS
    OneWrite
    Conserved
    NobodyWaits
    BothShownAgree
    AskedIsSet
PROPERTIES
    ImplementsFairChannel
    EveryConnectionEnds
    
CHECK_DEADLOCK FALSE
