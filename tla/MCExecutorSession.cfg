CONSTANTS
    Call = {r, w, e}
    NoCall = NoCall
    Op <- MCOp
    Size <- MCSize
    RequestedTimeout <- MCLong
    BodyLimit = 2
    MaxContent = 8
    LineLimit = 16
    Growth = 6
    DefaultTimeout = 1
    MaxTimeout = 1
    WriteTimeout = 1
    Faults = {"cut", "garbage", "kill", "detach", "close", "stall", "fifo", "stubborn"}
    Garbage = Garbage
    r = r
    w = w
    e = e
SPECIFICATION FairSpec
CHECK_DEADLOCK FALSE
INVARIANTS
    DeadOnlyByFault
PROPERTIES
    ImplementsRemoteCalls
    EveryCallReturns
    CloseReturns
