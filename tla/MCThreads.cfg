SPECIFICATION Spec
CONSTANTS
    Threads = {t1, t2}
    t1 = t1
    t2 = t2
    REG <- MCREG
    Addresses = {0}
    Branches = {11}
    Program <- MCProgram
    Analysis <- MCAnalysis
    Inputs <- MCInputs
    Overwritten <- MCOverwritten
    NUMBER_OF_TAINT_MARKS = 2
    IMPLICIT = TRUE
    PROFILING = FALSE
    WORD_SIZE = 1
    Idle = Idle
    Abort = Abort
INVARIANTS TypeOK RegisterEntries FreshMarks MarksIssued
PROPERTY MarksConserved
SYMMETRY ThreadSymmetry
