SPECIFICATION SpecA
CONSTANTS
    Threads = {"t1"}
    REG <- MCREG
    Addresses = {0, 1, 2}
    Branches = {12, 15}
    Program <- MCProgram
    Codes <- MCCodes
    Analysis <- MCAnalysis
    Effects <- MCEffects
    Inputs <- MCInputs
    Overwritten <- MCOverwritten
    NUMBER_OF_TAINT_MARKS = 1
    IMPLICIT = TRUE
    PROFILING = FALSE
    WORD_SIZE = 1
    Idle = Idle
    Abort = Abort
PROPERTY ImplementsPolicy
