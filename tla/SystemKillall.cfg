CONSTANTS
    MAX_NPROCESS = 6
    GPID_SHELL = 4
    GPID_USER_START = 5
    MaxPid = 7
    Addressees = {1, 2, 3, 4, 5, 6, 7}
    Content <- SysContent
    Garbage <- MCGarbage
    Lines = {"cat &", "killall", "echo"}
    CtrlC = FALSE
    NBlocks = 2
SPECIFICATION SysSpec
INVARIANTS
    SomeoneRuns
