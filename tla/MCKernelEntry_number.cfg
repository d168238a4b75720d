SPECIFICATION Spec
CONSTANTS
    Numbers = {0, 7}
    Vectors <- Exceptions
INVARIANTS
    NumberDispatched
CHECK_DEADLOCK FALSE
