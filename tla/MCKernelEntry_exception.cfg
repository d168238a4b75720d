SPECIFICATION Spec
CONSTANTS
    Numbers = {0, 7}
    Vectors <- Exceptions
INVARIANTS
    ExceptionResumes
CHECK_DEADLOCK FALSE
