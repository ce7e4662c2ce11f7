SPECIFICATION SpecT
CONSTANTS
    Threads = {"t1", "t2"}
    REG <- MCREG
    Addresses = {0, 1}
    Branches = {11}
    Program <- MCProgram
    Analysis <- MCAnalysis
    Inputs <- MCInputs
    Overwritten = {}
    NUMBER_OF_TAINT_MARKS = 2
    IMPLICIT = TRUE
    PROFILING = FALSE
    WORD_SIZE = 1
    Idle = Idle
    Abort = Abort
INVARIANT OwnOperands
