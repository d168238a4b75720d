SPECIFICATION VSpec
CONSTANTS
    FRAME_SIZE = 2
    MAX_FRAMES = 10
    ADDRESS_LIMIT = 64
    MemoryMaps <- Map
    BootRanges <- Boot2
    KernelRanges <- Kernels
    ENTRIES = 2
    VIRTUAL_LIMIT = 64
    ADDRESS_MASK = 62
    HEAP_START = 6
    HEAP_SIZE = 4
    MapRequests <- Requests
    IdentityRequests <- Identity
    MaxHeld = 1
INVARIANTS
    RightsGranted
    TablesFormTree
    EveryFrameHasOneUse
PROPERTY
    ImplementsAddressMap
