SPECIFICATION FairPSpec
CONSTANTS
    MAX_TASKS = 4
    MAX_SCHEDULER_TASKS = 3
    DEFAULT_TIME_SLICE_TICKS = 2
    StaleFrame <- MCStaleFrame
    NullFrame <- MCNullFrame
    Frames <- MCFrames
    ValidFrames <- MCFrames
    MaxTaskId = 5
    MaxSlice = 2
    Tests = {"preemptive", "context"}
INVARIANTS
    NoStaleResume
    CpuMatchesCurrent
    OnlyCurrentRunning
    WaitingFramesLive
    FailedTestLeavesNothing
PROPERTY
    BothTasksKeepRunning
CHECK_DEADLOCK FALSE
