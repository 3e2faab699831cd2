CONSTANTS
    Conns = {c1}
    Names = {a}
    None = None
    Alphabet <- Anything
    Budget = 3
    ReadRoom = 2
    MaxFds = 1
    Slow = {c1}
    Timeout = 1
    Signals = TRUE
    QuietAfterLogout = FALSE
SPECIFICATION Spec
INVARIANTS
    TypeOK
    NoLostWakeup
CHECK_DEADLOCK FALSE
