CONSTANTS
    Conns = {c1, c2}
    Names = {a, b}
    None = None
    Alphabet <- Presence
    Budget = 3
    ReadRoom = 3
    MaxFds = 2
    Slow = {c1, c2}
    Timeout = 0
    Signals = TRUE
    QuietAfterLogout = FALSE
SPECIFICATION Spec
INVARIANTS
    OnlineUsersAreConnected
CHECK_DEADLOCK FALSE
