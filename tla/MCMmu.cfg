CONSTANTS
    NFRAMES = 31
    NBASES = 5
    NENTRIES = 4
    MaxPid = 4
    MaxSoftPid = 3
    UART0 <- MCUART0
    SMHC0 <- MCSMHC0
    Kernel <- MCKernel
    FrameCache <- MCFrameCache
    Memory <- MCMemory
    AppPages <- MCAppPages
    Value = {0, 1}
SPECIFICATION Spec
INVARIANTS
    FramesDisjoint
    SoftTlbKeepsFrames
PROPERTIES
    PrivateMemory
