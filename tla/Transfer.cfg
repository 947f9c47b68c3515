\* Buffered and O_DIRECT reads, every request for a file of up to 9 bytes, every fault.
CONSTANTS
    Align = 2
    Configs <- SomeConfigs
    MaxSize = 9
    Requests <- AllRequests
    Faults = {"pread", "truncate", "thread", "rdma", "short"}
    Empty = Empty
    Stale = Stale
SPECIFICATION FairSpec
INVARIANTS OnlyRequestedBytes AlignedGetSucceeds
PROPERTIES GetEnds ImplementsRangeGet
CHECK_DEADLOCK FALSE
