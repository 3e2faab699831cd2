CONSTANTS
    Conns = {c1, c2}
    Names = {a}
    None = None
    Alphabet <- Presence
    Budget = 2
    ReadRoom = 2
    MaxFds = 2
    Slow = {c1}
    Timeout = 0
    Signals = TRUE
    QuietAfterLogout = TRUE
SPECIFICATION FairSpec
INVARIANTS
    TablesAgree
    UsersMatchConnections
    
PROPERTIES
    ClosedForAReason
    SilentAreReaped
    OutputIsFlushed
    GoneUserLeaves
CHECK_DEADLOCK FALSE
