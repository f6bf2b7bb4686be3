SPECIFICATION ConnectedSpec
CONSTANTS
    Session = {s1, s2}
    Worker = {w1, w2}
    Nobody = nobody
    Input = {"app_data", "not_json"}
    Fault = {"read_error", "write_error"}
    MaxMessages = 2
    UIntMod = 16

    
PROPERTIES
    DownIsReleased
    BacklogDrains
CHECK_DEADLOCK FALSE
