SPECIFICATION Spec
CONSTANTS
    Threads = {"t1", "t2"}
    Paths = {"bytes", "whole", "other"}
    Granularity <- MCGranularity
    FDs = {3, 4}
    Addresses = {0, 1, 2}
    Syscalls = {"open", "close"}
    Buffers <- MCBuffers
    NUMBER_OF_TAINT_MARKS = 2
    Peers = {}
    None = None
INVARIANT DescriptorsAgree
