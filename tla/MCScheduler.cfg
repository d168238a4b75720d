SPECIFICATION Spec
CONSTANTS
    MAX_TASKS = 3
    MAX_SCHEDULER_TASKS = 2
    DEFAULT_TIME_SLICE_TICKS = 2
    Frames <- MCFrames
    ValidFrames <- MCValidFrames
    NullFrame = "null"
    MaxTaskId = 3
    MaxSlice = 2
INVARIANTS
    TypeOK
    QueueAgreesWithTable
    CurrentIsSchedulable
PROPERTY
    TimerKeepsTasks
