CONSTANTS
    TimeBits = 3
    ResetTime = 1
    DataTime = 2
    BusyTime = 3
    Words = 2
    FifoDepth = 1
SPECIFICATION FairSpec
INVARIANTS
    SuccessIsReal
PROPERTIES
    CommandReturns
    TimeoutAfterTime
