CONSTANTS
    MAX_NPROCESS = 3
    GPID_SHELL = 2
    GPID_USER_START = 3
    MaxPid = 4
    Addressees = {2, 3}
    Content = {c1}
    Garbage <- MCGarbage
SPECIFICATION Spec
INVARIANTS
    TypeOK
    PidsUnique
    RunningIsCurrent
    AddressSpaceIsCurrent
    NoMissedRendezvous
    MemoryOwned
PROPERTIES
    DeliveryAddressed
    SendReleased
    ImplementsRendezvous
