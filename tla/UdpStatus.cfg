SPECIFICATION Spec
CONSTANTS
    Socket = {s1, s2}
    Port = {p1, p2}
    NoPort = none
    Fault = {"send_error"}
INVARIANT
    StatusAnswers
CHECK_DEADLOCK FALSE
