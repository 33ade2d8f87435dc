CONSTANTS
    Kinds = {"SD1", "SD110", "SD2", "SDHC", "MMC3", "MMC4"}
    Tries = 3
    Polls = 3
    PERIPH0 = 600000
    ExtFMax = {0, 20, 49}
    NBLOCKS = 3
    BlockLen = 2
    NoBlock = NoBlock
SPECIFICATION Spec
INVARIANTS
    InitAgrees
    ClockWithinCard
    ReadCorrect
PROPERTIES
    CallEnds
