CONSTANTS
    MAX_NPROCESS = 5
    GPID_SHELL = 4
    GPID_USER_START = 5
    MaxPid = 7
    Addressees = {1, 2, 3, 4, 5, 6, 7}
    Content <- SysContent
    Garbage <- MCGarbage
    Lines = {"cd", "cd ..", "cd yunhao", "ls", "nosuch", "killall", "too long"}
    CtrlC = FALSE
    NBlocks = 2
SPECIFICATION FairSpec
INVARIANTS
    NoFatal
    PromptAfterExit
    WorkdirAgrees
PROPERTIES
    CommandsEnd
    SendCompletes
