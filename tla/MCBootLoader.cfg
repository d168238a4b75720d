SPECIFICATION FairSpec
CONSTANTS
    KERNEL_MAX = 32
    KERNEL_BUFFER = 8
    E820_BUFFER = 24
    BOOT_INFO = 28
    STACK = 35
    RAM_END = 128
    E820_MAX = 4
    Kernels <- Documented
INVARIANTS
    KernelIntact
    RangeExact
    MemoryMapIntact
PROPERTY
    BootEnds
CHECK_DEADLOCK FALSE
