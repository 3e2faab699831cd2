CONSTANTS
    Tabs = {t1, t2}
    Names = {a, b}
    Sockets = {s1, s2}
    None = None
    Doings = {"say"}
    MaxHistory = 1
    MaxTokens = 2
    MaxMessages = 1
    MaxFaults = 0
    MaxRestarts = 0
SPECIFICATION Spec
SYMMETRY Symmetric
INVARIANTS
    ShownOnce
CHECK_DEADLOCK FALSE
