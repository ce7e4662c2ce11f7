SPECIFICATION Spec
CONSTANTS
    Threads = {t1, t2}
    Variables = {20}
    Heap <- MCHeap
    Sizes = {1, 2}
    Stores <- MCStores
    MaxAllocs = 3
    MaxOperands = 1
    NUMBER_OF_TAINT_MARKS = 2
SYMMETRY ThreadSymmetry
CONSTRAINT Bounded
INVARIANTS TypeOK  
