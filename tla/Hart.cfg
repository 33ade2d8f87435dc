CONSTANTS
    NSlots = 3
    GPID_SHELL = 2
    GPID_USER_START = 3
    HALF = 4
    QUANTUM = 2
    MaxTime = 5
    K = 2
SPECIFICATION Spec
INVARIANTS
    TrapsHandled
PROPERTIES
    ResumesItself
    ModeKept
    FullSlice
    SliceEnds
