CONSTANTS
    Byte <- AllBytes
    Blank = Blank
    InitialSize = 5
    MaxSize = 24
    Requests <- AllRequests
    Data <- AllData
    Others = {"e"}
    Opcodes <- AllOpcodes
    Scripts <- SmallScripts
    Short = 1
    Long = 2
    WordSize = 32
    IntSize = 13
    Misshapen <- OddBodies
    MaxPushes = 1
    MaxHandled = 3
SPECIFICATION FairSpec
INVARIANTS
    TypeOK
    StreamIntact
    HandledAsSent
    NothingLost
    OutputArmed
    EndsForAReason
PROPERTIES
    InQueue
    OutQueue
    FirstRequestAnswered
    FramesActedOn
CHECK_DEADLOCK FALSE
