CONSTANTS
    ann = ann
    bob = bob
    Clients <- Both
    Fds <- TwoFds
    Requests = {"page", "upgrade"}
    Frames = {"close"}
    MaxFrames <- AnnOnly
    FreedReads = {"junk"}
    None = None
SPECIFICATION Spec
INVARIANT ClosedWithItsObject
CHECK_DEADLOCK FALSE
