SPECIFICATION Spec
CONSTANTS
    FRAME_SIZE = 4
    MAX_FRAMES = 6
    ADDRESS_LIMIT = 33
    MemoryMaps <- Maps
    BootRanges <- Boot
    KernelRanges <- Kernels
INVARIANTS
    CountExact
    FreeExactly
    HandedOutUsable
