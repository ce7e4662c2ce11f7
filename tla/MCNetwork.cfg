SPECIFICATION NetworkSpec
CONSTANTS
    Threads = {"t1"}
    Paths = {"bytes", "whole", "other"}
    Granularity <- MCGranularity
    FDs = {3, 4}
    Addresses = {0, 1}
    Syscalls = {"open", "close", "read", "socket", "connect", "recv"}
    Buffers <- MCBuffers
    NUMBER_OF_TAINT_MARKS = 2
    Peers = {"host"}
    HostGranularity <- MCHostGranularity
    Everything = {FALSE}
    None = None
INVARIANT NetworkDataMarked
CHECK_DEADLOCK FALSE
