CONSTANTS
    MAX_NPROCESS = 5
    GPID_SHELL = 4
    GPID_USER_START = 5
    MaxPid = 6
    Addressees = {1, 2, 3, 4, 5, 6}
    Content <- SysContent
    Garbage <- MCGarbage
    Lines = {"crash1"}
    CtrlC = FALSE
    NBlocks = 2
SPECIFICATION SysSpec
INVARIANTS
    FaultContained
