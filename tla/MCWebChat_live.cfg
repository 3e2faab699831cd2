CONSTANTS
    Tabs = {t1}
    Names = {a}
    Sockets = {s1, s2}
    None = None
    Doings = {"reload", "say", "logout"}
    MaxHistory = 1
    MaxTokens = 1
    MaxMessages = 2
    MaxFaults = 1
    MaxRestarts = 1
SPECIFICATION FairSpec
INVARIANTS
    LiveInOrder
PROPERTIES
    GoodTokenConnects
CHECK_DEADLOCK FALSE
