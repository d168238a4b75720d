SPECIFICATION Spec
CONSTANTS
    MAX_KERNEL_OBJECTS = 2
    GenerationLimit = 3
    ReferenceMax = 2
    ObjectType = {Process, Thread}
    NoType = NoType
    MaxRetired = 2
INVARIANTS
    TypeOK
    StaleHandlesRefused
    CountsMatchHolders
PROPERTY
    OnlyDestroyTakesAway
