SPECIFICATION KSpec
CONSTANTS
    FRAME_SIZE = 2
    MAX_FRAMES = 28
    ADDRESS_LIMIT = 1000000
    MemoryMaps <- Maps
    BootRanges <- Boot2
    KernelRanges <- Kernels
    ENTRIES = 24
    VIRTUAL_LIMIT = 1327104
    ADDRESS_MASK = 998
    HEAP_START = 1152
    HEAP_SIZE = 96
    MapRequests <- NoRequests
    IdentityRequests <- NoRequests
    MaxHeld = 0
    IDENTITY_END = 48
    TEST_PHYSICAL = 4
    USER_CODE_VADDR = 96
    USER_STACK_VADDR = 192
    USER_STACK_PAGES = 4
    HEAP_PAGES = 4
    USER_STACK = 6
    UserEntries <- Entries
    Builds <- AllBuilds
    TlbPages <- Cached
INVARIANTS
    EventsFindHandlers
    SegmentsMatchPrivilege
    FramesOnKernelStacks
    UserModeReady
    NoStaleTranslation
    TablesReachable
PROPERTY
    TimerKeepsTicking
CHECK_DEADLOCK FALSE
