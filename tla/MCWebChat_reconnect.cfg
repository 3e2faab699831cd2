CONSTANTS
    Tabs = {t1}
    Names = {a}
    Sockets = {s1, s2}
    None = None
    Doings = {"logout"}
    MaxHistory = 1
    MaxTokens = 2
    MaxMessages = 0
    MaxFaults = 0
    MaxRestarts = 1
SPECIFICATION FairSpec
PROPERTIES
    ChatReconnects
CHECK_DEADLOCK FALSE
