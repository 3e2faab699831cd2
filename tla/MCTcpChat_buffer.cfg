CONSTANTS
    Conns = {c1}
    Names = {a}
    None = None
    Alphabet <- Presence
    Budget = 3
    ReadRoom = 2
    MaxFds = 2
    Slow = {c1}
    Timeout = 0
    Signals = TRUE
    QuietAfterLogout = TRUE
SPECIFICATION Spec
PROPERTIES
    ClosedForAReason
CHECK_DEADLOCK FALSE
