SPECIFICATION Spec
CONSTANTS
    Numbers = {0, 7}
    Vectors <- Exceptions
INVARIANTS
    IrqTransparent
    SyscallReturns
    HandlerSeesFrame
CHECK_DEADLOCK FALSE
