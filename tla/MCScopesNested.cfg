SPECIFICATION SpecR
CONSTANTS
    Threads = {"t1"}
    REG <- MCREG
    Addresses = {0, 1, 2}
    Branches = {11, 13}
    Program <- MCNestedProgram
    Code <- MCNestedCode
    Analysis <- MCNestedAnalysis
    Successors <- MCNestedSuccessors
    Ipdom <- MCNestedIpdom
    Entry = 10
    Inputs <- MCInputs
    Overwritten <- MCOverwritten
    NUMBER_OF_TAINT_MARKS = 2
    IMPLICIT = TRUE
    PROFILING = FALSE
    WORD_SIZE = 1
    Idle = Idle
    Abort = Abort
INVARIANT ActiveScopes
