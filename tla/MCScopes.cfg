SPECIFICATION SpecR
CONSTANTS
    Threads = {"t1"}
    REG <- MCREG
    Addresses = {0, 1, 2}
    Branches = {11, 13, 16}
    Program <- MCLoopProgram
    Code <- MCLoopCode
    Analysis <- MCLoopAnalysis
    Successors <- MCLoopSuccessors
    Ipdom <- MCLoopIpdom
    Entry = 10
    Inputs <- MCInputs
    Overwritten <- MCOverwritten
    NUMBER_OF_TAINT_MARKS = 2
    IMPLICIT = TRUE
    PROFILING = TRUE
    WORD_SIZE = 1
    Idle = Idle
    Abort = Abort
INVARIANTS ActiveScopes ProfileKeysOwn
PROPERTY ScopeMarksStored
