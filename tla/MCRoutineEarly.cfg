SPECIFICATION Spec
CONSTANTS
    First = 6
    Routines <- MCEarlyReturn
    MaxGarbage = 0
    NULL = NULL
    Garbage = Garbage
CHECK_DEADLOCK FALSE
INVARIANT PostDominatorRight
