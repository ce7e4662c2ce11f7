SPECIFICATION NetworkSpec
CONSTANTS
    Threads = {"t1"}
    Paths = {"bytes", "whole", "other"}
    Granularity <- MCGranularity
    FDs = {3, 4}
    Addresses = {0, 1}
    Syscalls = {"open", "close", "dup", "read", "socket", "accept", "connect", "send", "recv", "recvmsg", "recvfrom"}
    Buffers <- MCBuffers
    NUMBER_OF_TAINT_MARKS = 2
    Peers = {"host"}
    HostGranularity <- MCHostGranularity
    Everything = {TRUE, FALSE}
    None = None
INVARIANTS TypeOK DescriptorsAgree SourceDataMarked OnlySourceData GranularityKept
CHECK_DEADLOCK FALSE
