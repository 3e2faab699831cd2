CONSTANTS
    Conns = {c1, c2}
    Names = {a, b}
    None = None
    Alphabet <- Talk
    Budget = 2
    ReadRoom = 2
    MaxFds = 2
    Slow = {}
    Timeout = 0
    Signals = FALSE
    QuietAfterLogout = TRUE
SPECIFICATION Spec
SYMMETRY Symmetric
INVARIANTS
    OnlineUsersAreConnected
    NoticesAgreeWithList
    SenderListed
    RightAudience
PROPERTIES
    IsARoom
CHECK_DEADLOCK FALSE
