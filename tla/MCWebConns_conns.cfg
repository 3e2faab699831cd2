CONSTANTS
    ann = ann
    bob = bob
    Clients <- Both
    Fds <- TwoFds
    Requests = {"page", "upgrade"}
    Frames = {"text", "close", "bad"}
    MaxFrames <- AnnTalks
    FreedReads = {"own", "junk"}
    None = None
SPECIFICATION FairSpec
INVARIANTS
    TypeOK
    OwnersAgree
    EventsReachTheirOwner
    MembersStay
PROPERTIES
    Answered
    GoneAreForgotten
CHECK_DEADLOCK FALSE
