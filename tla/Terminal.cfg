CONSTANTS
    LEN = 5
    CMD_ARG_LEN = 3
    CMD_NARGS = 2
    Fifo = 2
    MaxTyped = 5
SPECIFICATION Spec
INVARIANTS
    LineAsTyped
    EchoAgrees
    ParsedAsWords
    FoundByName
PROPERTIES
    ReadEnds
    CtrlCReturns
