SPECIFICATION FairSpec
CONSTANTS
    MAX_IPC_ENDPOINTS = 2
    IPC_QUEUE_CAPACITY = 2
    GenerationLimit = 3
    Thread = {t1, t2}
    Data = {d1, d2, big}
    TooLong = {big}
    Empty = Empty
    MaxLife = 1
INVARIANTS
    TypeOK
    NothingLeftBehind
    LocksHeld
PROPERTIES
    ImplementsFifo
    TableLockReleased
