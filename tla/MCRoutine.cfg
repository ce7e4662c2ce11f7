SPECIFICATION Spec
CONSTANTS
    First = 6
    Routines <- MCRoutines
    MaxGarbage = 1
    NULL = NULL
    Garbage = Garbage
CHECK_DEADLOCK FALSE
INVARIANTS ChainsEnd NoneMissed
PROPERTIES Termination MovesUp
